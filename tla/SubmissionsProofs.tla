------------------------- MODULE SubmissionsProofs --------------------------
(***************************************************************************)
(* Proofs about what a user hands in, for every instance: the lines of     *)
(* files (LineOnce), what is taken back (RevertIsClean), what a commit     *)
(* brings in (PreviewHolds), the forms of the pages (PageTells), the PIN   *)
(* (PinHolds) and photos (AttachmentsKept).  Each has an invariant of its  *)
(* own; a step of Submissions is a step of one part and leaves the others  *)
(* (PartsOfSubmissions).                                                   *)
(***************************************************************************)
EXTENDS Submissions, SequenceTheorems, WellFoundedInduction, TLAPS

(* Files, line by line.  The invariant follows a batch that is not torn:   *)
(* one request at most commits it, the lines that request has still to     *)
(* import have no row, and before a commit begins, while the preview is    *)
(* there, the batch has no row at all.                                     *)

BatchRow == [status : {"review", "completed", "reverted"}, file : Files, staged : BOOLEAN,
             lines : SUBSET Nat, unseen : SUBSET Keys]

TxRow == [state : {"live", "reverted", "deleted"}, key : Keys, batch : Nat, line : Nat,
          late : BOOLEAN, touched : BOOLEAN]

Served == [op : {"idle", "upload", "commit", "unstage", "revert"}, batch : Nat,
           file : Files \union {<<>>}, todo : SUBSET Nat]

ImportTypes ==
  /\ batch \in Seq(BatchRow)
  /\ tx \in Seq(TxRow)
  /\ req \in [Workers -> Served]

Commits(w, b) == req[w].op \in Committing /\ req[w].batch = b

(* Every row and every commit is of a batch, the lines are of its file.    *)
Sources ==
  /\ \A i \in DOMAIN tx : tx[i].batch = Manual \/ tx[i].batch \in DOMAIN batch
  /\ \A w \in Workers : req[w].op \in Committing =>
       req[w].batch \in DOMAIN batch /\ req[w].todo \subseteq DOMAIN batch[req[w].batch].file
  /\ \A w \in Workers : req[w].op = "upload" => req[w].file \in Files
  /\ \A b \in DOMAIN batch : batch[b].lines \subseteq DOMAIN batch[b].file

(* Of a batch no commit of which was torn. *)
Whole(b) ==
  /\ \A v, w \in Workers : Commits(v, b) /\ Commits(w, b) => v = w
  /\ \A w \in Workers, i \in DOMAIN tx :
       Commits(w, b) /\ req[w].op = "commit" /\ tx[i].batch = b => tx[i].line \notin req[w].todo
  /\ \A i \in DOMAIN tx : batch[b].staged /\ tx[i].batch = b => \E w \in Workers : Commits(w, b)
  /\ \A i, j \in DOMAIN tx : tx[i].batch = b /\ tx[j].batch = b /\ tx[i].line = tx[j].line => i = j

LineInv == ImportTypes /\ Sources /\ \A b \in DOMAIN batch \ torn : Whole(b)

-----------------------------------------------------------------------------
LEMMA LineSuffices == LineInv => LineOnce
<1>. SUFFICES ASSUME LineInv, NEW i \in DOMAIN tx, NEW j \in DOMAIN tx,
                     i < j, tx[i].batch = tx[j].batch, tx[i].line = tx[j].line,
                     tx[i].batch \notin torn \union {Manual}
              PROVE  FALSE
  BY DEF LineOnce
<1>1. tx[i].batch \in DOMAIN batch \ torn
  BY DEF LineInv, Sources
<1>2. i = j
  BY <1>1 DEF LineInv, Whole
<1>. QED
  BY <1>2 DEF LineInv, ImportTypes

LEMMA InitLine == Init => LineInv
  BY DEF Init, LineInv, ImportTypes, Sources, Whole, Served, Idle, Manual, Committing

(* Steps that add no row, no batch and no commit, and take no line away    *)
(* from the rows: a commit may end, if the preview goes with it or the     *)
(* batch is torn.                                                          *)
LEMMA OtherStep ==
  ASSUME LineInv, ImportTypes',
         DOMAIN tx' = DOMAIN tx, DOMAIN batch' = DOMAIN batch, torn \subseteq torn',
         \A i \in DOMAIN tx : tx'[i].batch = tx[i].batch /\ tx'[i].line = tx[i].line,
         \A b \in DOMAIN batch : /\ batch'[b].file = batch[b].file
                                 /\ batch'[b].lines \subseteq batch[b].lines
                                 /\ batch'[b].staged => batch[b].staged,
         \A w \in Workers : req'[w].op \in Committing =>
           /\ req[w].op \in Committing /\ req'[w].batch = req[w].batch
           /\ req'[w].todo \subseteq req[w].todo
           /\ req'[w].op = "commit" => req[w].op = "commit",
         \A w \in Workers : req'[w].op = "upload" => req'[w].file \in Files,
         \A w \in Workers, b \in DOMAIN batch \ torn' :
           Commits(w, b) /\ batch'[b].staged => req'[w].op \in Committing
  PROVE  LineInv'
<1>. USE DEF LineInv
<1>1. Sources'
  BY DEF Sources
<1>2. ASSUME NEW b \in DOMAIN batch, b \notin torn'
      PROVE  Whole(b)'
  <2>1. Whole(b)
    BY <1>2
  <2>2. \A w \in Workers : (req'[w].op \in Committing /\ req'[w].batch = b) => Commits(w, b)
    BY DEF Commits
  <2>3. \A v, w \in Workers : (/\ req'[v].op \in Committing /\ req'[v].batch = b
                               /\ req'[w].op \in Committing /\ req'[w].batch = b) => v = w
    BY <2>1, <2>2 DEF Whole
  <2>4. ASSUME NEW w \in Workers, NEW i \in DOMAIN tx, req'[w].op \in Committing, req'[w].batch = b,
               req'[w].op = "commit", tx'[i].batch = b
        PROVE  tx'[i].line \notin req'[w].todo
    BY <2>1, <2>2, <2>4 DEF Whole
  <2>5. ASSUME NEW i \in DOMAIN tx, batch'[b].staged, tx'[i].batch = b
        PROVE  \E w \in Workers : req'[w].op \in Committing /\ req'[w].batch = b
    <3>1. PICK w \in Workers : Commits(w, b)
      BY <2>1, <2>5 DEF Whole
    <3>2. req'[w].op \in Committing
      BY <1>2, <2>5, <3>1
    <3>. QED
      BY <3>1, <3>2 DEF Commits
  <2>6. \A i, j \in DOMAIN tx :
          tx'[i].batch = b /\ tx'[j].batch = b /\ tx'[i].line = tx'[j].line => i = j
    BY <2>1 DEF Whole
  <2>. QED
    BY <2>3, <2>4, <2>5, <2>6 DEF Whole, Commits
<1>. QED
  BY <1>1, <1>2

-----------------------------------------------------------------------------
(* Facts about sequences and numbers. *)
LEMMA SameLength ==
  ASSUME NEW S, NEW s \in Seq(S), NEW f,
         f = [i \in DOMAIN s |-> f[i]], \A i \in DOMAIN s : f[i] \in S
  PROVE  f \in Seq(S) /\ DOMAIN f = DOMAIN s
<1>1. Len(s) \in Nat /\ DOMAIN s = 1..Len(s)
  OBVIOUS
<1>2. f \in [1..Len(s) -> S]
  BY <1>1
<1>3. f \in Seq(S)
  BY <1>1, <1>2, SeqDef
<1>. QED
  BY <1>1, <1>2, <1>3

LEMMA OneMore ==
  ASSUME NEW S, NEW s \in Seq(S), NEW e \in S
  PROVE  /\ Append(s, e) \in Seq(S) /\ Len(s) + 1 \notin DOMAIN s
         /\ DOMAIN Append(s, e) = DOMAIN s \union {Len(s) + 1}
         /\ Append(s, e)[Len(s) + 1] = e
         /\ \A i \in DOMAIN s : Append(s, e)[i] = s[i]
  OBVIOUS

LEMMA HasFirst ==
  ASSUME NEW T \in SUBSET Nat, T # {}
  PROVE  \E n \in T : \A m \in T : n <= m
<1>. DEFINE R == OpToRel(<, Nat)
<1>1. IsWellFoundedOn(R, Nat)
  BY NatLessThanWellFounded
<1>2. \A x, y \in Nat : <<x, y>> \in R <=> x < y
  BY DEF OpToRel
<1>. HIDE DEF R
<1>3. PICK x \in T : \A y \in T : ~(<<y, x>> \in R)
  BY <1>1, WFMin
<1>4. ASSUME NEW m \in T
      PROVE  x <= m
  <2>1. m \in Nat /\ x \in Nat
    OBVIOUS
  <2>2. ~(m < x)
    BY <1>2, <1>3, <2>1
  <2>. QED
    BY <2>1, <2>2
<1>. QED
  BY <1>4

LEMMA NextLineIsOne ==
  ASSUME NEW todo \in SUBSET Nat, todo # {}
  PROVE  NextLine(todo) \in todo
  BY HasFirst DEF NextLine

(* A row that comes in changes the previews only in what they do not know. *)
LEMMA UnseenKeeps ==
  ASSUME ImportTypes, NEW k \in Keys, NEW source
  PROVE  /\ Unseen(k, source) \in Seq(BatchRow) /\ DOMAIN Unseen(k, source) = DOMAIN batch
         /\ \A b \in DOMAIN batch : /\ Unseen(k, source)[b].file = batch[b].file
                                    /\ Unseen(k, source)[b].lines = batch[b].lines
                                    /\ Unseen(k, source)[b].staged = batch[b].staged
<1>. DEFINE u == Unseen(k, source)
<1>1. u = [b \in DOMAIN batch |-> u[b]]
  BY DEF Unseen
<1>2. ASSUME NEW b \in DOMAIN batch
      PROVE  /\ u[b] \in BatchRow /\ u[b].file = batch[b].file
             /\ u[b].lines = batch[b].lines /\ u[b].staged = batch[b].staged
  <2>1. batch[b] \in BatchRow
    BY DEF ImportTypes
  <2>2. u[b] = batch[b] \/ u[b] = [batch[b] EXCEPT !.unseen = @ \union {k}]
    BY DEF Unseen
  <2>. HIDE DEF u
  <2>. QED
    BY <2>1, <2>2 DEF BatchRow
<1>. HIDE DEF u
<1>3. u \in Seq(BatchRow) /\ DOMAIN u = DOMAIN batch
  BY <1>1, <1>2, SameLength DEF ImportTypes
<1>. QED
  BY <1>2, <1>3 DEF u

-----------------------------------------------------------------------------
(* Requests that begin or end, and leave batches and transactions alone. *)
LEMMA RequestStep ==
  ASSUME LineInv, NEW w \in Workers, NEW q \in Served, req' = [req EXCEPT ![w] = q],
         UNCHANGED <<batch, tx>>, torn \subseteq torn', q.op \in {"idle", "upload", "revert"},
         q.op = "upload" => q.file \in Files,
         req[w].op \in Committing => req[w].batch \in torn'
  PROVE  LineInv'
<1>1. \A v \in Workers : req'[v] = IF v = w THEN q ELSE req[v]
  BY DEF LineInv, ImportTypes
<1>2. ImportTypes'
  BY DEF LineInv, ImportTypes
<1>3. \A v \in Workers : req'[v].op \in Committing => req'[v] = req[v] /\ v # w
  BY <1>1 DEF Committing
<1>4. \A v \in Workers : req'[v].op = "upload" => req'[v].file \in Files
  BY <1>1 DEF LineInv, Sources
<1>5. ASSUME NEW v \in Workers, NEW b \in DOMAIN batch \ torn', Commits(v, b)
      PROVE  req'[v].op \in Committing
  BY <1>1, <1>5 DEF Commits
<1>. QED
  BY <1>2, <1>3, <1>4, <1>5, OtherStep

LEMMA IdleIsServed == Idle \in Served /\ Idle.op = "idle"
  BY DEF Idle, Served, Manual

LEMMA UploadPreserves ==
  ASSUME LineInv, NEW w \in Workers, NEW file \in Files, NEW force, Upload(w, file, force)
  PROVE  LineInv'
<1>. DEFINE q == [Idle EXCEPT !.op = "upload", !.file = file]
<1>1. q \in Served /\ q.op = "upload" /\ q.file = file
  BY DEF Idle, Served, Manual
<1>2. /\ req' = [req EXCEPT ![w] = q] /\ req[w].op = "idle"
      /\ UNCHANGED <<batch, tx, torn>>
  BY DEF Upload, Idle
<1>. HIDE DEF q
<1>. QED
  BY <1>1, <1>2, RequestStep DEF Committing

LEMMA RefusePreserves ==
  ASSUME LineInv, NEW w \in Workers, RefuseRow(w)
  PROVE  LineInv'
  BY RequestStep, IdleIsServed DEF RefuseRow

LEMMA BeginRevertPreserves ==
  ASSUME LineInv, NEW w \in Workers, NEW b \in DOMAIN batch, Revert(w, b)
  PROVE  LineInv'
<1>. DEFINE rows == RowsOf(b) \intersect Live
            q == [Idle EXCEPT !.op = "revert", !.batch = b, !.todo = rows]
<1>1. b \in Nat /\ rows \subseteq Nat
  BY DEF LineInv, ImportTypes, RowsOf, Live
<1>. HIDE DEF rows
<1>2. q \in Served /\ q.op = "revert"
  BY <1>1 DEF Idle, Served, Manual
<1>3. /\ req' = [req EXCEPT ![w] = q] /\ req[w].op = "idle"
      /\ UNCHANGED <<batch, tx, torn>>
  BY DEF Revert, Idle, rows
<1>. HIDE DEF q
<1>. QED
  BY <1>2, <1>3, RequestStep DEF Committing

-----------------------------------------------------------------------------
(* The end of a commit; reverts; what the user changes. *)
LEMMA CompletePreserves ==
  ASSUME LineInv, NEW w \in Workers, Complete(w)
  PROVE  LineInv'
<1>. USE DEF LineInv
<1>. DEFINE b == req[w].batch
<1>1. /\ req[w].op = "commit" /\ req' = [req EXCEPT ![w].op = "unstage"] /\ torn' = torn
      /\ batch' = [batch EXCEPT ![b].status = "completed"]
      /\ tx' = [i \in DOMAIN tx |-> IF i \in RowsOf(b) THEN [tx[i] EXCEPT !.late = FALSE] ELSE tx[i]]
  BY DEF Complete
<1>2. b \in DOMAIN batch
  BY <1>1 DEF Sources, Committing
<1>. HIDE DEF b
<1>3. ASSUME NEW c \in DOMAIN batch
      PROVE  /\ batch'[c] \in BatchRow /\ batch'[c].file = batch[c].file
             /\ batch'[c].lines = batch[c].lines /\ batch'[c].staged = batch[c].staged
  <2>1. batch[c] \in BatchRow
    BY DEF ImportTypes
  <2>2. batch'[c] = batch[c] \/ batch'[c] = [batch[c] EXCEPT !.status = "completed"]
    BY <1>1, <1>2
  <2>. QED
    BY <2>1, <2>2 DEF BatchRow
<1>4. batch' = [c \in DOMAIN batch |-> batch'[c]]
  BY <1>1
<1>5. batch' \in Seq(BatchRow) /\ DOMAIN batch' = DOMAIN batch
  BY <1>3, <1>4, SameLength DEF ImportTypes
<1>6. ASSUME NEW i \in DOMAIN tx
      PROVE  tx'[i] \in TxRow /\ tx'[i].batch = tx[i].batch /\ tx'[i].line = tx[i].line
  <2>1. tx[i] \in TxRow
    BY DEF ImportTypes
  <2>2. tx'[i] = tx[i] \/ tx'[i] = [tx[i] EXCEPT !.late = FALSE]
    BY <1>1
  <2>. QED
    BY <2>1, <2>2 DEF TxRow
<1>7. tx' = [i \in DOMAIN tx |-> tx'[i]]
  BY <1>1
<1>8. tx' \in Seq(TxRow) /\ DOMAIN tx' = DOMAIN tx
  BY <1>6, <1>7, SameLength DEF ImportTypes
<1>9. ASSUME NEW v \in Workers
      PROVE  /\ req'[v] \in Served /\ req'[v].batch = req[v].batch /\ req'[v].todo = req[v].todo
             /\ req'[v].file = req[v].file
             /\ req'[v].op = IF v = w THEN "unstage" ELSE req[v].op
  BY <1>1 DEF ImportTypes, Served
<1>10. ImportTypes'
  <2>1. req' \in [Workers -> Served]
    BY <1>1, <1>9 DEF ImportTypes
  <2>. QED
    BY <1>5, <1>8, <2>1 DEF ImportTypes
<1>11. \A v \in Workers : (req'[v].op \in Committing) <=> (req[v].op \in Committing)
  BY <1>1, <1>9 DEF Committing
<1>12. \A v \in Workers : /\ req'[v].op = "upload" => req'[v].file \in Files
                          /\ req'[v].op = "commit" => req[v].op = "commit"
  BY <1>1, <1>9 DEF Sources
<1>13. \A v \in Workers : req'[v].op \in Committing =>
         /\ req[v].op \in Committing /\ req'[v].batch = req[v].batch
         /\ req'[v].todo \subseteq req[v].todo
         /\ req'[v].op = "commit" => req[v].op = "commit"
  BY <1>9, <1>11, <1>12
<1>14. \A v \in Workers, c \in DOMAIN batch \ torn' :
         Commits(v, c) /\ batch'[c].staged => req'[v].op \in Committing
  BY <1>11 DEF Commits
<1>15. \A c \in DOMAIN batch : /\ batch'[c].file = batch[c].file
                               /\ batch'[c].lines \subseteq batch[c].lines
                               /\ batch'[c].staged => batch[c].staged
  BY <1>3
<1>16. /\ DOMAIN tx' = DOMAIN tx /\ torn \subseteq torn'
       /\ \A i \in DOMAIN tx : tx'[i].batch = tx[i].batch /\ tx'[i].line = tx[i].line
  BY <1>1, <1>6, <1>8
<1>. HIDE DEF LineInv
<1>. QED
  BY <1>5, <1>10, <1>12, <1>13, <1>14, <1>15, <1>16, OtherStep

(* The preview of a completed batch goes. *)
LEMMA UnstagePreserves ==
  ASSUME LineInv, NEW w \in Workers, Unstage(w)
  PROVE  LineInv'
<1>. USE DEF LineInv
<1>. DEFINE b == req[w].batch
<1>1. /\ req[w].op = "unstage" /\ req' = [req EXCEPT ![w] = Idle] /\ UNCHANGED <<tx, torn>>
      /\ batch' = [batch EXCEPT ![b] = Gone(batch[b])]
  BY DEF Unstage, Unstaged
<1>2. b \in DOMAIN batch
  BY <1>1 DEF Sources, Committing
<1>. HIDE DEF b
<1>3. ASSUME NEW c \in DOMAIN batch
      PROVE  /\ batch'[c] \in BatchRow /\ batch'[c].file = batch[c].file
             /\ batch'[c].lines \subseteq batch[c].lines
             /\ batch'[c].staged => batch[c].staged /\ c # b
  <2>1. batch[c] \in BatchRow
    BY DEF ImportTypes
  <2>2. CASE c = b
    <3>1. batch'[c] = [batch[c] EXCEPT !.staged = FALSE, !.lines = {}, !.unseen = {}]
      BY <1>1, <2>2 DEF Gone
    <3>. QED
      BY <2>1, <3>1 DEF BatchRow
  <2>3. CASE c # b
    BY <1>1, <2>1, <2>3 DEF BatchRow
  <2>. QED
    BY <2>2, <2>3
<1>4. batch' = [c \in DOMAIN batch |-> batch'[c]]
  BY <1>1
<1>5. batch' \in Seq(BatchRow) /\ DOMAIN batch' = DOMAIN batch
  BY <1>3, <1>4, SameLength DEF ImportTypes
<1>6. \A v \in Workers : req'[v] = IF v = w THEN Idle ELSE req[v]
  BY <1>1 DEF ImportTypes
<1>7. ImportTypes'
  BY <1>1, <1>5, IdleIsServed DEF ImportTypes
<1>8. \A v \in Workers : /\ req'[v].op \in Committing => req'[v] = req[v]
                         /\ req'[v].op = "upload" => req'[v].file \in Files
  BY <1>6, IdleIsServed DEF Committing, Sources
<1>9. ASSUME NEW v \in Workers, NEW c \in DOMAIN batch \ torn', Commits(v, c), batch'[c].staged
      PROVE  req'[v].op \in Committing
  BY <1>3, <1>6, <1>9 DEF Commits, b
<1>10. \A v \in Workers : req'[v].op \in Committing =>
         /\ req[v].op \in Committing /\ req'[v].batch = req[v].batch
         /\ req'[v].todo \subseteq req[v].todo
         /\ req'[v].op = "commit" => req[v].op = "commit"
  BY <1>8 DEF Committing
<1>11. /\ DOMAIN tx' = DOMAIN tx /\ torn \subseteq torn'
       /\ \A i \in DOMAIN tx : tx'[i].batch = tx[i].batch /\ tx'[i].line = tx[i].line
  BY <1>1
<1>12. \A c \in DOMAIN batch : /\ batch'[c].file = batch[c].file
                               /\ batch'[c].lines \subseteq batch[c].lines
                               /\ batch'[c].staged => batch[c].staged
  BY <1>3
<1>. HIDE DEF LineInv
<1>. QED
  BY <1>5, <1>7, <1>8, <1>9, <1>10, <1>11, <1>12, OtherStep

(* A row is changed, by a revert or by the user. *)
LEMMA ChangedRow ==
  ASSUME ImportTypes, NEW i \in DOMAIN tx, NEW r \in TxRow, tx' = [tx EXCEPT ![i] = r],
         r.batch = tx[i].batch, r.line = tx[i].line
  PROVE  /\ tx' \in Seq(TxRow) /\ DOMAIN tx' = DOMAIN tx
         /\ \A j \in DOMAIN tx : tx'[j].batch = tx[j].batch /\ tx'[j].line = tx[j].line
<1>1. tx' = [j \in DOMAIN tx |-> tx'[j]]
  OBVIOUS
<1>2. \A j \in DOMAIN tx : tx'[j] = IF j = i THEN r ELSE tx[j]
  OBVIOUS
<1>3. \A j \in DOMAIN tx : tx'[j] \in TxRow
  BY <1>2 DEF ImportTypes
<1>. QED
  BY <1>1, <1>2, <1>3, SameLength DEF ImportTypes

(* Batches and rows keep what counts, and no commit begins or ends. *)
LEMMA QuietStep ==
  ASSUME LineInv, batch' \in Seq(BatchRow), tx' \in Seq(TxRow), req' \in [Workers -> Served],
         DOMAIN tx' = DOMAIN tx, DOMAIN batch' = DOMAIN batch, torn' = torn,
         \A i \in DOMAIN tx : tx'[i].batch = tx[i].batch /\ tx'[i].line = tx[i].line,
         \A b \in DOMAIN batch : (/\ batch'[b].file = batch[b].file
                                  /\ batch'[b].lines = batch[b].lines
                                  /\ batch'[b].staged = batch[b].staged),
         \A w \in Workers : \/ req'[w] = req[w]
                            \/ req[w].op = "revert" /\ req'[w].op \in {"idle", "revert"}
  PROVE  LineInv'
<1>1. ImportTypes'
  BY DEF ImportTypes
<1>2. \A w \in Workers : req'[w].op \in Committing => req'[w] = req[w]
  BY DEF Committing
<1>3. \A w \in Workers : req'[w].op = "upload" => req'[w].file \in Files
  BY DEF LineInv, Sources
<1>4. \A w \in Workers, b \in DOMAIN batch \ torn' :
        Commits(w, b) /\ batch'[b].staged => req'[w].op \in Committing
  BY DEF Commits, Committing
<1>5. \A w \in Workers : req'[w].op \in Committing =>
        (/\ req[w].op \in Committing /\ req'[w].batch = req[w].batch
         /\ req'[w].todo \subseteq req[w].todo
         /\ (req'[w].op = "commit" => req[w].op = "commit"))
  BY <1>2 DEF Committing
<1>. QED
  BY <1>1, <1>3, <1>4, <1>5, OtherStep

LEMMA RevertPreserves ==
  ASSUME LineInv, NEW w \in Workers, EndRevert(w) \/ \E i \in DOMAIN tx : RevertRow(w, i)
  PROVE  LineInv'
<1>1. CASE EndRevert(w)
  <2>. DEFINE b == req[w].batch
  <2>1. /\ req[w].op = "revert" /\ req' = [req EXCEPT ![w] = Idle] /\ UNCHANGED <<tx, torn>>
        /\ batch' = [batch EXCEPT ![b].status = "reverted"]
    BY <1>1 DEF EndRevert
  <2>. HIDE DEF b
  <2>2. ASSUME NEW c \in DOMAIN batch
        PROVE  /\ batch'[c] \in BatchRow /\ batch'[c].file = batch[c].file
               /\ batch'[c].lines = batch[c].lines /\ batch'[c].staged = batch[c].staged
    <3>1. batch[c] \in BatchRow
      BY DEF LineInv, ImportTypes
    <3>2. batch'[c] = batch[c] \/ batch'[c] = [batch[c] EXCEPT !.status = "reverted"]
      BY <2>1
    <3>. QED
      BY <3>1, <3>2 DEF BatchRow
  <2>3. batch' = [c \in DOMAIN batch |-> batch'[c]]
    BY <2>1
  <2>4. batch' \in Seq(BatchRow) /\ DOMAIN batch' = DOMAIN batch
    BY <2>2, <2>3, SameLength DEF LineInv, ImportTypes
  <2>5. req' \in [Workers -> Served]
    BY <2>1, IdleIsServed DEF LineInv, ImportTypes
  <2>6. \A v \in Workers : req'[v] = req[v] \/ (req[v].op = "revert" /\ req'[v].op = "idle")
    BY <2>1, IdleIsServed DEF LineInv, ImportTypes
  <2>7. tx' \in Seq(TxRow)
    BY <2>1 DEF LineInv, ImportTypes
  <2>. QED
    BY <2>1, <2>2, <2>4, <2>5, <2>6, <2>7, QuietStep
<1>2. ASSUME NEW i \in DOMAIN tx, RevertRow(w, i)
      PROVE  LineInv'
  <2>1. UNCHANGED <<batch, torn>> /\ req[w].op = "revert"
    BY <1>2 DEF RevertRow
  <2>2. /\ tx' \in Seq(TxRow) /\ DOMAIN tx' = DOMAIN tx
        /\ \A j \in DOMAIN tx : tx'[j].batch = tx[j].batch /\ tx'[j].line = tx[j].line
    <3>1. CASE tx' = tx
      BY <3>1 DEF LineInv, ImportTypes
    <3>2. CASE tx' = [tx EXCEPT ![i].state = "reverted"]
      <4>. DEFINE r == [tx[i] EXCEPT !.state = "reverted"]
      <4>1. r \in TxRow /\ r.batch = tx[i].batch /\ r.line = tx[i].line
        <5>1. tx[i] \in TxRow
          BY DEF LineInv, ImportTypes
        <5>. QED
          BY <5>1 DEF TxRow
      <4>2. tx' = [tx EXCEPT ![i] = r]
        BY <3>2
      <4>. HIDE DEF r
      <4>3. ImportTypes
        BY DEF LineInv
      <4>. QED
        BY <4>1, <4>2, <4>3, ChangedRow
    <3>. QED
      BY <1>2, <3>1, <3>2 DEF RevertRow
  <2>3. PICK q \in Served : q.op \in {"idle", "revert"} /\ req' = [req EXCEPT ![w] = q]
    <3>1. CASE req' = [req EXCEPT ![w] = Idle]
      BY <3>1, IdleIsServed
    <3>2. CASE req' = [req EXCEPT ![w].todo = @ \ {i}]
      <4>. DEFINE q == [req[w] EXCEPT !.todo = @ \ {i}]
      <4>1. q \in Served /\ q.op = "revert"
        BY <2>1 DEF LineInv, ImportTypes, Served
      <4>2. req' = [req EXCEPT ![w] = q]
        BY <3>2
      <4>. QED
        BY <4>1, <4>2
    <3>. QED
      BY <1>2, <3>1, <3>2 DEF RevertRow
  <2>4. /\ req' \in [Workers -> Served]
        /\ \A v \in Workers : \/ req'[v] = req[v]
                              \/ req[v].op = "revert" /\ req'[v].op \in {"idle", "revert"}
    BY <2>1, <2>3 DEF LineInv, ImportTypes
  <2>5. batch' \in Seq(BatchRow)
    BY <2>1 DEF LineInv, ImportTypes
  <2>. QED
    BY <2>1, <2>2, <2>4, <2>5, QuietStep
<1>. QED
  BY <1>1, <1>2

LEMMA UserPreserves ==
  ASSUME LineInv, NEW i \in DOMAIN tx, Remove(i) \/ \E k \in Keys : Update(i, k)
  PROVE  LineInv'
<1>1. UNCHANGED <<req, torn>> /\ tx[i] \in TxRow /\ ImportTypes
  <2>1. tx[i] \in TxRow /\ ImportTypes
    BY DEF LineInv, ImportTypes
  <2>. QED
    BY <2>1 DEF Remove, Update
<1>2. /\ batch' \in Seq(BatchRow) /\ DOMAIN batch' = DOMAIN batch
      /\ \A b \in DOMAIN batch : /\ batch'[b].file = batch[b].file
                                 /\ batch'[b].lines = batch[b].lines
                                 /\ batch'[b].staged = batch[b].staged
  <2>1. CASE batch' = batch
    BY <1>1, <2>1 DEF ImportTypes
  <2>2. ASSUME NEW k \in Keys, batch' = Unseen(k, Manual)
        PROVE  /\ batch' \in Seq(BatchRow) /\ DOMAIN batch' = DOMAIN batch
               /\ \A b \in DOMAIN batch : /\ batch'[b].file = batch[b].file
                                          /\ batch'[b].lines = batch[b].lines
                                          /\ batch'[b].staged = batch[b].staged
    BY <1>1, <2>2, UnseenKeeps
  <2>. QED
    BY <2>1, <2>2 DEF Remove, Update
<1>3. PICK r \in TxRow : /\ r.batch = tx[i].batch /\ r.line = tx[i].line
                         /\ tx' = [tx EXCEPT ![i] = r]
  <2>1. CASE Remove(i)
    <3>. DEFINE r == [tx[i] EXCEPT !.state = "deleted"]
    <3>1. r \in TxRow /\ r.batch = tx[i].batch /\ r.line = tx[i].line
      BY <1>1 DEF TxRow
    <3>2. tx' = [tx EXCEPT ![i] = r]
      BY <2>1 DEF Remove
    <3>. HIDE DEF r
    <3>. QED
      BY <3>1, <3>2
  <2>2. ASSUME NEW k \in Keys, Update(i, k)
        PROVE  \E r \in TxRow : /\ r.batch = tx[i].batch /\ r.line = tx[i].line
                                /\ tx' = [tx EXCEPT ![i] = r]
    <3>1. tx' = [tx EXCEPT ![i] = Updated(i, k)]
      BY <2>2 DEF Update
    <3>2. /\ Updated(i, k) \in TxRow /\ Updated(i, k).batch = tx[i].batch
          /\ Updated(i, k).line = tx[i].line
      BY <1>1 DEF Updated, TxRow
    <3>. QED
      BY <3>1, <3>2
  <2>. QED
    BY <2>1, <2>2
<1>4. /\ tx' \in Seq(TxRow) /\ DOMAIN tx' = DOMAIN tx
      /\ \A j \in DOMAIN tx : tx'[j].batch = tx[j].batch /\ tx'[j].line = tx[j].line
  BY <1>1, <1>3, ChangedRow
<1>. QED
  BY <1>1, <1>2, <1>4, QuietStep DEF ImportTypes

(* A restart ends every request, and takes every preview with it. *)
LEMMA RestartPreserves ==
  ASSUME LineInv, Restart
  PROVE  LineInv'
<1>1. /\ batch' = [b \in DOMAIN batch |-> Gone(batch[b])] /\ req' = [w \in Workers |-> Idle]
      /\ tx' = tx /\ torn \subseteq torn'
  BY DEF Restart
<1>2. ASSUME NEW b \in DOMAIN batch
      PROVE  /\ batch'[b] \in BatchRow /\ batch'[b].file = batch[b].file
             /\ batch'[b].lines = {} /\ batch'[b].staged = FALSE
  <2>1. batch[b] \in BatchRow
    BY DEF LineInv, ImportTypes
  <2>2. batch'[b] = [batch[b] EXCEPT !.staged = FALSE, !.lines = {}, !.unseen = {}]
    BY <1>1 DEF Gone
  <2>. QED
    BY <2>1, <2>2 DEF BatchRow
<1>3. batch' = [b \in DOMAIN batch |-> batch'[b]]
  BY <1>1
<1>4. batch' \in Seq(BatchRow) /\ DOMAIN batch' = DOMAIN batch
  BY <1>2, <1>3, SameLength DEF LineInv, ImportTypes
<1>5. \A w \in Workers : req'[w] = Idle
  BY <1>1
<1>6. ImportTypes'
  BY <1>1, <1>4, IdleIsServed DEF LineInv, ImportTypes
<1>7. \A w \in Workers : req'[w].op = "idle" /\ req'[w].op \notin Committing
  BY <1>5, IdleIsServed DEF Committing
<1>. QED
  BY <1>1, <1>2, <1>4, <1>6, <1>7, OtherStep

-----------------------------------------------------------------------------
(* A preview is made, and a commit begins. *)
LEMMA StagePreserves ==
  ASSUME LineInv, NEW w \in Workers, Stage(w)
  PROVE  LineInv'
<1>. DEFINE new == [status |-> "review", file |-> req[w].file, staged |-> TRUE,
                    lines |-> ToImport(req[w].file, Known(Live)), unseen |-> {}]
            c == Len(batch) + 1
<1>1. /\ req[w].op = "upload" /\ batch' = Append(batch, new)
      /\ req' = [req EXCEPT ![w] = Idle] /\ UNCHANGED <<tx, torn>>
  BY DEF Stage
<1>2. req[w].file \in Files
  BY <1>1 DEF LineInv, Sources
<1>3. /\ new \in BatchRow /\ new.file = req[w].file /\ new.lines \subseteq DOMAIN new.file
  <2>1. DOMAIN req[w].file \subseteq Nat
    BY <1>2, ImportAssumption
  <2>2. ToImport(req[w].file, Known(Live)) \subseteq DOMAIN req[w].file
    BY DEF ToImport
  <2>. QED
    BY <1>2, <2>1, <2>2 DEF BatchRow
<1>. HIDE DEF new
<1>4. /\ batch' \in Seq(BatchRow) /\ c \notin DOMAIN batch
      /\ DOMAIN batch' = DOMAIN batch \union {c} /\ batch'[c] = new
      /\ \A b \in DOMAIN batch : batch'[b] = batch[b]
  BY <1>1, <1>3, OneMore DEF LineInv, ImportTypes
<1>5. c # Manual
  BY DEF LineInv, ImportTypes, Manual
<1>. HIDE DEF c
<1>6. \A v \in Workers : req'[v] = IF v = w THEN Idle ELSE req[v]
  BY <1>1 DEF LineInv, ImportTypes
<1>7. \A v \in Workers : req'[v].op \in Committing => req'[v] = req[v]
  BY <1>6, IdleIsServed DEF Committing
<1>8. ImportTypes'
  BY <1>1, <1>4, IdleIsServed DEF LineInv, ImportTypes
<1>9. Sources'
  <2>1. Sources
    BY DEF LineInv
  <2>2. \A v \in Workers : req'[v].op = "upload" => req'[v].file \in Files
    BY <1>6, <2>1, IdleIsServed DEF Sources
  <2>3. \A i \in DOMAIN tx' : tx'[i].batch = Manual \/ tx'[i].batch \in DOMAIN batch'
    BY <1>1, <1>4, <2>1 DEF Sources
  <2>4. \A v \in Workers : req'[v].op \in Committing =>
          req'[v].batch \in DOMAIN batch' /\ req'[v].todo \subseteq DOMAIN batch'[req'[v].batch].file
    BY <1>4, <1>7, <2>1 DEF Sources
  <2>5. \A b \in DOMAIN batch' : batch'[b].lines \subseteq DOMAIN batch'[b].file
    BY <1>3, <1>4, <2>1 DEF Sources
  <2>. QED
    BY <2>2, <2>3, <2>4, <2>5 DEF Sources
<1>10. ASSUME NEW b \in DOMAIN batch', b \notin torn'
       PROVE  Whole(b)'
  <2>1. \A v \in Workers : (req'[v].op \in Committing /\ req'[v].batch = b) <=> Commits(v, b)
    BY <1>1, <1>6, IdleIsServed DEF Commits, Committing
  <2>2. CASE b = c
    <3>1. \A i \in DOMAIN tx : tx[i].batch # b
      BY <1>4, <1>5, <2>2 DEF LineInv, Sources
    <3>2. \A v \in Workers : ~Commits(v, b)
      BY <1>4, <2>2 DEF LineInv, Sources, Commits
    <3>. QED
      BY <1>1, <2>1, <3>1, <3>2 DEF Whole, Commits
  <2>3. CASE b \in DOMAIN batch
    <3>1. Whole(b) /\ batch'[b] = batch[b] /\ tx' = tx
      BY <1>1, <1>4, <1>10, <2>3 DEF LineInv
    <3>. QED
      BY <1>7, <2>1, <3>1 DEF Whole, Commits
  <2>. QED
    BY <1>4, <1>10, <2>2, <2>3
<1>. QED
  BY <1>8, <1>9, <1>10 DEF LineInv

LEMMA CommitPreserves ==
  ASSUME LineInv, NEW w \in Workers, NEW b \in DOMAIN batch, NEW excluded, Commit(w, b, excluded)
  PROVE  LineInv'
<1>. DEFINE q == [Idle EXCEPT !.op = "commit", !.batch = b, !.todo = batch[b].lines \ excluded]
<1>1. /\ req[w] = Idle /\ batch[b].staged /\ req' = [req EXCEPT ![w] = q] /\ UNCHANGED <<batch, tx>>
      /\ torn \subseteq torn' /\ (b \notin torn' => Serving(Committing, b) = {})
  BY DEF Commit
<1>2. /\ q \in Served /\ q.op = "commit" /\ q.batch = b /\ q.todo \subseteq batch[b].lines
  <2>1. batch[b] \in BatchRow /\ b \in Nat
    BY DEF LineInv, ImportTypes
  <2>2. batch[b].lines \in SUBSET Nat
    BY <2>1 DEF BatchRow
  <2>. QED
    BY <2>1, <2>2 DEF Idle, Served, Manual
<1>. HIDE DEF q
<1>3. \A v \in Workers : req'[v] = IF v = w THEN q ELSE req[v]
  BY <1>1 DEF LineInv, ImportTypes
<1>4. ImportTypes'
  BY <1>1, <1>2 DEF LineInv, ImportTypes
<1>5. Sources'
  <2>1. Sources
    BY DEF LineInv
  <2>2. \A v \in Workers : req'[v].op = "upload" => req'[v].file \in Files
    BY <1>2, <1>3, <2>1 DEF Sources
  <2>3. \A v \in Workers : req'[v].op \in Committing =>
          req'[v].batch \in DOMAIN batch /\ req'[v].todo \subseteq DOMAIN batch[req'[v].batch].file
    BY <1>2, <1>3, <2>1 DEF Sources
  <2>. QED
    BY <1>1, <2>1, <2>2, <2>3 DEF Sources
<1>6. ASSUME NEW c \in DOMAIN batch, c \notin torn'
      PROVE  Whole(c)'
  <2>1. Whole(c)
    BY <1>1, <1>6 DEF LineInv
  <2>2. \A v \in Workers : v # w => req'[v] = req[v]
    BY <1>3
  <2>3. ~Commits(w, c)
    BY <1>1, IdleIsServed DEF Commits, Committing
  <2>4. CASE c # b
    <3>1. \A v \in Workers : (req'[v].op \in Committing /\ req'[v].batch = c) => Commits(v, c) /\ v # w
      BY <1>2, <1>3, <2>4 DEF Commits
    <3>2. \A v \in Workers : Commits(v, c) => req'[v] = req[v]
      BY <2>2, <2>3
    <3>. QED
      BY <1>1, <2>1, <2>2, <3>1, <3>2 DEF Whole, Commits
  <2>5. CASE c = b
    <3>1. \A v \in Workers : ~Commits(v, b)
      BY <1>1, <1>6, <2>5 DEF Serving, Commits
    <3>2. \A i \in DOMAIN tx : tx[i].batch # b
      BY <1>1, <2>1, <2>5, <3>1 DEF Whole
    <3>3. \A v \in Workers : (req'[v].op \in Committing /\ req'[v].batch = b) => v = w
      BY <2>2, <3>1 DEF Commits
    <3>. QED
      BY <1>1, <2>5, <3>2, <3>3 DEF Whole, Commits
  <2>. QED
    BY <2>4, <2>5
<1>. QED
  BY <1>1, <1>4, <1>5, <1>6 DEF LineInv

-----------------------------------------------------------------------------
(* Rows that come in: from a line of a file, or by hand. *)
LEMMA RowComesIn ==
  ASSUME LineInv, NEW new \in TxRow, tx' = Append(tx, new), NEW k \in Keys, NEW source,
         batch' = Unseen(k, source)
  PROVE  /\ tx' \in Seq(TxRow) /\ batch' \in Seq(BatchRow)
         /\ DOMAIN batch' = DOMAIN batch
         /\ \A b \in DOMAIN batch : (/\ batch'[b].file = batch[b].file
                                     /\ batch'[b].lines = batch[b].lines
                                     /\ batch'[b].staged = batch[b].staged)
         /\ Len(tx) + 1 \notin DOMAIN tx /\ DOMAIN tx' = DOMAIN tx \union {Len(tx) + 1}
         /\ tx'[Len(tx) + 1] = new
         /\ \A i \in DOMAIN tx : tx'[i] = tx[i]
<1>1. ImportTypes
  BY DEF LineInv
<1>2. tx \in Seq(TxRow)
  BY <1>1 DEF ImportTypes
<1>3. /\ tx' \in Seq(TxRow)
      /\ Len(tx) + 1 \notin DOMAIN tx /\ DOMAIN tx' = DOMAIN tx \union {Len(tx) + 1}
      /\ tx'[Len(tx) + 1] = new
      /\ \A i \in DOMAIN tx : tx'[i] = tx[i]
  BY <1>2, OneMore
<1>. QED
  BY <1>1, <1>3, UnseenKeeps

LEMMA EnterPreserves ==
  ASSUME LineInv, NEW k \in Keys, Enter(k)
  PROVE  LineInv'
<1>. DEFINE new == [state |-> "live", key |-> k, batch |-> Manual, line |-> 1,
                    late |-> FALSE, touched |-> FALSE]
            last == Len(tx) + 1
<1>1. new \in TxRow /\ new.batch = Manual /\ tx' = Append(tx, new) /\ batch' = Unseen(k, Manual)
      /\ UNCHANGED <<req, torn>>
  BY DEF Enter, TxRow, Manual
<1>. HIDE DEF new
<1>2. /\ tx' \in Seq(TxRow) /\ batch' \in Seq(BatchRow) /\ DOMAIN batch' = DOMAIN batch
      /\ \A b \in DOMAIN batch : (/\ batch'[b].file = batch[b].file
                                  /\ batch'[b].lines = batch[b].lines
                                  /\ batch'[b].staged = batch[b].staged)
      /\ DOMAIN tx' = DOMAIN tx \union {last} /\ tx'[last] = new
      /\ \A i \in DOMAIN tx : tx'[i] = tx[i]
  BY <1>1, RowComesIn
<1>. HIDE DEF last
<1>3. ImportTypes'
  BY <1>1, <1>2 DEF LineInv, ImportTypes
<1>4. Sources'
  BY <1>1, <1>2 DEF LineInv, Sources
<1>5. ASSUME NEW b \in DOMAIN batch, b \notin torn
      PROVE  Whole(b)'
  <2>1. Whole(b)
    BY <1>5 DEF LineInv
  <2>2. b # Manual
    BY DEF LineInv, ImportTypes, Manual
  <2>3. \A i \in DOMAIN tx' : tx'[i].batch = b => i \in DOMAIN tx /\ tx'[i] = tx[i]
    BY <1>1, <1>2, <2>2
  <2>. QED
    BY <1>1, <1>2, <2>1, <2>3 DEF Whole, Commits
<1>. QED
  BY <1>1, <1>2, <1>3, <1>4, <1>5 DEF LineInv

LEMMA ImportRowPreserves ==
  ASSUME LineInv, NEW w \in Workers, NEW failed \in BOOLEAN, ImportRow(w, failed)
  PROVE  LineInv'
<1>. DEFINE b == req[w].batch
            n == NextLine(req[w].todo)
            new == Imported(b, n)
            last == Len(tx) + 1
            q == IF failed THEN Idle ELSE [req[w] EXCEPT !.todo = @ \ {n}]
<1>1. /\ req[w].op = "commit" /\ req[w].todo # {} /\ tx' = Append(tx, new)
      /\ batch' = Unseen(batch[b].file[n], b)
      /\ torn \subseteq torn' /\ (failed => b \in torn')
  BY DEF ImportRow
<1>2. req' = [req EXCEPT ![w] = q]
  <2>1. CASE failed
    BY <2>1 DEF ImportRow
  <2>2. CASE ~failed
    <3>1. req' = [req EXCEPT ![w].todo = @ \ {n}]
      BY <2>2 DEF ImportRow
    <3>. QED
      BY <2>2, <3>1
  <2>. QED
    BY <2>1, <2>2
<1>3. /\ req[w] \in Served /\ req[w].todo \in SUBSET Nat /\ b \in Nat /\ b \in DOMAIN batch
      /\ req[w].todo \subseteq DOMAIN batch[b].file
  <2>1. req[w] \in Served
    BY DEF LineInv, ImportTypes
  <2>. QED
    BY <1>1, <2>1 DEF LineInv, Sources, Served, Committing
<1>4. n \in req[w].todo
  BY <1>1, <1>3, NextLineIsOne
<1>. HIDE DEF n, b
<1>5. batch[b].file[n] \in Keys
  <2>1. batch[b] \in BatchRow
    BY <1>3 DEF LineInv, ImportTypes
  <2>2. batch[b].file \in Seq(Keys)
    BY <2>1, ImportAssumption DEF BatchRow
  <2>. QED
    BY <1>3, <1>4, <2>2
<1>6. new \in TxRow /\ new.batch = b /\ new.line = n
  BY <1>3, <1>4, <1>5 DEF Imported, TxRow
<1>7. q \in Served /\ (q.op \in {"idle", "commit"}) /\ (q.op = "idle" <=> failed)
      /\ (~failed => q.batch = b /\ q.todo = req[w].todo \ {n})
  <2>1. CASE failed
    BY <2>1, IdleIsServed
  <2>2. CASE ~failed
    BY <1>1, <1>3, <2>2 DEF Served, b
  <2>. QED
    BY <2>1, <2>2
<1>. HIDE DEF new, q
<1>8. /\ tx' \in Seq(TxRow) /\ batch' \in Seq(BatchRow) /\ DOMAIN batch' = DOMAIN batch
      /\ \A c \in DOMAIN batch : (/\ batch'[c].file = batch[c].file
                                  /\ batch'[c].lines = batch[c].lines
                                  /\ batch'[c].staged = batch[c].staged)
      /\ last \notin DOMAIN tx /\ DOMAIN tx' = DOMAIN tx \union {last} /\ tx'[last] = new
      /\ \A i \in DOMAIN tx : tx'[i] = tx[i]
  BY <1>1, <1>5, <1>6, RowComesIn
<1>. HIDE DEF last
<1>9. \A v \in Workers : req'[v] = IF v = w THEN q ELSE req[v]
  BY <1>2 DEF LineInv, ImportTypes
<1>10. ImportTypes'
  BY <1>2, <1>7, <1>8 DEF LineInv, ImportTypes
<1>11. Sources'
  <2>1. Sources
    BY DEF LineInv
  <2>2. \A v \in Workers : req'[v].op = "upload" => req'[v].file \in Files
    BY <1>7, <1>9, <2>1 DEF Sources
  <2>3. \A v \in Workers : req'[v].op \in Committing =>
          req'[v].batch \in DOMAIN batch /\ req'[v].todo \subseteq DOMAIN batch[req'[v].batch].file
    BY <1>3, <1>7, <1>9, <2>1 DEF Sources, Committing
  <2>4. \A i \in DOMAIN tx' : tx'[i].batch = Manual \/ tx'[i].batch \in DOMAIN batch
    BY <1>3, <1>6, <1>8, <2>1 DEF Sources
  <2>. QED
    BY <1>8, <2>1, <2>2, <2>3, <2>4 DEF Sources
<1>12. ASSUME NEW c \in DOMAIN batch, c \notin torn'
       PROVE  Whole(c)'
  <2>1. Whole(c)
    BY <1>1, <1>12 DEF LineInv
  <2>2. \A v \in Workers : (req'[v].op \in Committing /\ req'[v].batch = c) <=> Commits(v, c)
    <3>1. Commits(w, c) <=> c = b
      BY <1>1 DEF Commits, Committing, b
    <3>2. (q.op \in Committing /\ q.batch = c) <=> c = b
      BY <1>1, <1>7, <1>12 DEF Committing
    <3>. QED
      BY <1>9, <3>1, <3>2 DEF Commits
  <2>3. CASE c # b
    <3>1. \A i \in DOMAIN tx' : tx'[i].batch = c => i \in DOMAIN tx /\ tx'[i] = tx[i]
      BY <1>6, <1>8, <2>3
    <3>2. \A v \in Workers : Commits(v, c) => req'[v] = req[v]
      BY <1>9, <2>3 DEF Commits, b
    <3>. QED
      BY <1>8, <2>1, <2>2, <3>1, <3>2 DEF Whole, Commits
  <2>4. CASE c = b
    <3>1. ~failed /\ Commits(w, c) /\ req'[w] = q
      BY <1>1, <1>9, <1>12, <2>4 DEF Commits, Committing, b
    <3>2. \A v \in Workers : Commits(v, c) <=> v = w
      BY <2>1, <3>1 DEF Whole
    <3>3. \A i \in DOMAIN tx : tx[i].batch = c => tx[i].line \notin req[w].todo
      BY <1>1, <2>1, <3>1 DEF Whole
    <3>4. \A i \in DOMAIN tx' : tx'[i].batch = c => tx'[i].line \notin q.todo
      BY <1>6, <1>7, <1>8, <3>1, <3>3
    <3>5. ASSUME NEW i \in DOMAIN tx', NEW j \in DOMAIN tx', tx'[i].batch = c, tx'[j].batch = c,
                 tx'[i].line = tx'[j].line
          PROVE  i = j
      BY <1>4, <1>6, <1>8, <2>1, <3>3, <3>5 DEF Whole
    <3>6. /\ \A v, u \in Workers : (/\ req'[v].op \in Committing /\ req'[v].batch = c
                                   /\ req'[u].op \in Committing /\ req'[u].batch = c) => v = u
          /\ req'[w].op \in Committing /\ req'[w].batch = c
      BY <2>2, <3>2
    <3>7. \A v \in Workers, i \in DOMAIN tx' :
            (/\ req'[v].op \in Committing /\ req'[v].batch = c
             /\ req'[v].op = "commit" /\ tx'[i].batch = c) => tx'[i].line \notin req'[v].todo
      BY <2>2, <3>1, <3>2, <3>4
    <3>. QED
      BY <3>5, <3>6, <3>7 DEF Whole, Commits
  <2>. QED
    BY <2>3, <2>4
<1>. QED
  BY <1>8, <1>10, <1>11, <1>12 DEF LineInv

-----------------------------------------------------------------------------
LEMMA StepLine == LineInv /\ [Next]_vars => LineInv'
<1>. SUFFICES ASSUME LineInv, [Next]_vars PROVE LineInv'
  OBVIOUS
<1>1. CASE UNCHANGED vars
  BY <1>1 DEF vars, LineInv, ImportTypes, Sources, Whole, Commits
<1>. QED
  BY <1>1, UploadPreserves, StagePreserves, CommitPreserves, ImportRowPreserves, RefusePreserves,
     CompletePreserves, UnstagePreserves, BeginRevertPreserves, RevertPreserves, EnterPreserves,
     UserPreserves, RestartPreserves DEF Next

(* No line of a file is imported twice, whatever is uploaded, excluded,    *)
(* entered or reverted, unless the batch was committed again during a      *)
(* commit or after one that failed.                                        *)
THEOREM EachLineOnce == Spec => []LineOnce
  BY InitLine, StepLine, LineSuffices, PTL DEF Spec

-----------------------------------------------------------------------------
(* Reverts.  While a batch that is not torn is being taken back, what is   *)
(* left of it is what the request still has to take back, and a row the    *)
(* user changed since the import is not among it: such a row is late.      *)
Reverts(w, b) == req[w].op = "revert" /\ req[w].batch = b

Adds(w, b) == req[w].op = "commit" /\ req[w].batch = b

Unstages(w, b) == req[w].op = "unstage" /\ req[w].batch = b

Clean(b) ==
  /\ batch[b].status # "review" =>
       /\ \A w \in Workers : ~ Adds(w, b)
       /\ batch[b].staged => \E w \in Workers : Unstages(w, b)
  /\ \A i \in DOMAIN tx : tx[i].batch = b =>
       /\ tx[i].touched => /\ tx[i].late /\ tx[i].state # "reverted"
                           /\ batch[b].status # "review"
       /\ tx[i].state = "live" => batch[b].status # "reverted"
  /\ \A w \in Workers : Reverts(w, b) =>
       /\ batch[b].status # "review"
       /\ \A i \in DOMAIN tx :
            /\ i \in req[w].todo => ~ tx[i].touched
            /\ tx[i].batch = b /\ tx[i].state = "live" => i \in req[w].todo

OfBatches ==
  \A w \in Workers : req[w].op = "revert" =>
    /\ req[w].batch \in DOMAIN batch
    /\ \A i \in req[w].todo : i \in DOMAIN tx /\ tx[i].batch = req[w].batch

RevertInv == LineInv /\ OfBatches /\ \A b \in DOMAIN batch \ torn : Clean(b)

(* What the import of one row does: w has read the preview, and n is the   *)
(* first of the lines it has left.                                         *)
ImportedBy(w, failed, b, n, new) ==
  /\ req[w].op = "commit" /\ req[w].batch = b /\ b \in DOMAIN batch /\ n \in req[w].todo
  /\ batch[b].file[n] \in Keys
  /\ new \in TxRow /\ new.batch = b /\ new.line = n /\ new.key = batch[b].file[n]
  /\ new.state = "live" /\ new.touched = FALSE
  /\ tx' = Append(tx, new) /\ batch' = Unseen(batch[b].file[n], b)
  /\ torn \subseteq torn' /\ (failed => b \in torn')
  /\ \A v \in Workers :
       IF v # w THEN req'[v] = req[v]
       ELSE IF failed THEN req'[v] = Idle /\ Idle.op = "idle"
       ELSE /\ req'[v].op = "commit" /\ req'[v].batch = b /\ req'[v].todo = req[v].todo \ {n}

LEMMA ImportRowDoes ==
  ASSUME LineInv, NEW w \in Workers, NEW failed \in BOOLEAN, ImportRow(w, failed)
  PROVE  \E b, n, new : ImportedBy(w, failed, b, n, new)
<1>. DEFINE b == req[w].batch
            n == NextLine(req[w].todo)
            new == Imported(b, n)
<1>1. /\ req[w].op = "commit" /\ req[w].todo # {} /\ tx' = Append(tx, new)
      /\ batch' = Unseen(batch[b].file[n], b)
      /\ torn \subseteq torn' /\ (failed => b \in torn')
  BY DEF ImportRow
<1>2. /\ failed => req' = [req EXCEPT ![w] = Idle]
      /\ ~ failed => req' = [req EXCEPT ![w].todo = @ \ {n}]
  BY DEF ImportRow
<1>3. /\ req \in [Workers -> Served] /\ req[w] \in Served /\ req[w].todo \in SUBSET Nat /\ b \in Nat
      /\ b \in DOMAIN batch /\ req[w].todo \subseteq DOMAIN batch[b].file
  <2>1. req \in [Workers -> Served] /\ req[w] \in Served
    BY DEF LineInv, ImportTypes
  <2>. QED
    BY <1>1, <2>1 DEF LineInv, Sources, Served, Committing
<1>4. n \in req[w].todo
  BY <1>1, <1>3, NextLineIsOne
<1>. HIDE DEF n
<1>5. batch[b].file[n] \in Keys
  <2>1. batch[b] \in BatchRow
    BY <1>3 DEF LineInv, ImportTypes
  <2>2. batch[b].file \in Seq(Keys)
    BY <2>1, ImportAssumption DEF BatchRow
  <2>. QED
    BY <1>3, <1>4, <2>2
<1>6. /\ new \in TxRow /\ new.batch = b /\ new.line = n /\ new.key = batch[b].file[n]
      /\ new.state = "live" /\ new.touched = FALSE
  BY <1>3, <1>4, <1>5 DEF Imported, TxRow
<1>. HIDE DEF new
<1>7. ASSUME NEW v \in Workers
      PROVE  IF v # w THEN req'[v] = req[v]
             ELSE IF failed THEN req'[v] = Idle /\ Idle.op = "idle"
             ELSE /\ req'[v].op = "commit" /\ req'[v].batch = b /\ req'[v].todo = req[v].todo \ {n}
  <2>1. CASE v # w
    BY <1>2, <1>3, <2>1
  <2>2. CASE v = w /\ failed
    BY <1>2, <1>3, <2>2, IdleIsServed
  <2>3. CASE v = w /\ ~ failed
    <3>1. req'[w] = [req[w] EXCEPT !.todo = @ \ {n}]
      BY <1>2, <1>3, <2>3
    <3>. QED
      BY <1>1, <1>3, <2>3, <3>1 DEF Served
  <2>. QED
    BY <2>1, <2>2, <2>3
<1>8. ImportedBy(w, failed, b, n, new)
  BY <1>1, <1>3, <1>4, <1>5, <1>6, <1>7 DEF ImportedBy
<1>. QED
  BY <1>8

LEMMA RevertSuffices == RevertInv => RevertIsClean
<1>. SUFFICES ASSUME RevertInv, NEW i \in DOMAIN tx, tx[i].batch \notin torn \union {Manual}
              PROVE  /\ tx[i].state = "live" => batch[tx[i].batch].status # "reverted"
                     /\ tx[i].touched => tx[i].state # "reverted"
  BY DEF RevertIsClean
<1>1. tx[i].batch \in DOMAIN batch \ torn
  BY DEF RevertInv, LineInv, Sources
<1>. QED
  BY <1>1 DEF RevertInv, Clean

LEMMA InitRevert == Init => RevertInv
  BY InitLine DEF Init, RevertInv, OfBatches, Idle

(* Requests that begin, end or go on, and leave the rows alone. *)
LEMMA RowsStay ==
  ASSUME NEW b \in DOMAIN batch, Clean(b), tx' = tx,
         batch'[b].status = batch[b].status, batch'[b].staged => batch[b].staged,
         \A w \in Workers : req'[w].op = "commit" /\ req'[w].batch = b =>
                              batch[b].status = "review" \/ Adds(w, b),
         \A w \in Workers : req'[w].op = "revert" /\ req'[w].batch = b => req'[w] = req[w],
         \A w \in Workers : Unstages(w, b) /\ batch'[b].staged => req'[w] = req[w]
  PROVE  Clean(b)'
<1>1. batch'[b].status # "review" =>
        /\ \A w \in Workers : ~ (req'[w].op = "commit" /\ req'[w].batch = b)
        /\ batch'[b].staged => \E w \in Workers : req'[w].op = "unstage" /\ req'[w].batch = b
  BY DEF Clean, Unstages
<1>2. \A i \in DOMAIN tx : tx[i].batch = b =>
        /\ tx[i].touched => /\ tx[i].late /\ tx[i].state # "reverted"
                            /\ batch'[b].status # "review"
        /\ tx[i].state = "live" => batch'[b].status # "reverted"
  BY DEF Clean
<1>3. \A w \in Workers : req'[w].op = "revert" /\ req'[w].batch = b =>
        /\ batch'[b].status # "review"
        /\ \A i \in DOMAIN tx :
             /\ i \in req'[w].todo => ~ tx[i].touched
             /\ tx[i].batch = b /\ tx[i].state = "live" => i \in req'[w].todo
  BY DEF Clean, Reverts
<1>. QED
  BY <1>1, <1>2, <1>3 DEF Clean, Adds, Unstages, Reverts

LEMMA OneRequest ==
  ASSUME LineInv, NEW w \in Workers, NEW q, req' = [req EXCEPT ![w] = q]
  PROVE  \A v \in Workers : req'[v] = IF v = w THEN q ELSE req[v]
  BY DEF LineInv, ImportTypes

LEMMA UploadStaysClean ==
  ASSUME RevertInv, NEW w \in Workers, NEW file, NEW force, Upload(w, file, force), LineInv'
  PROVE  RevertInv'
<1>. DEFINE q == [Idle EXCEPT !.op = "upload", !.file = file]
<1>1. q.op = "upload"
  BY DEF Idle
<1>2. req' = [req EXCEPT ![w] = q] /\ req[w].op = "idle" /\ UNCHANGED <<batch, tx, torn>>
  BY DEF Upload, Idle
<1>. HIDE DEF q
<1>3. \A v \in Workers : req'[v] = IF v = w THEN q ELSE req[v]
  BY <1>2, OneRequest DEF RevertInv
<1>4. ASSUME NEW b \in DOMAIN batch, b \notin torn PROVE Clean(b)'
  <2>1. Clean(b)
    BY <1>4 DEF RevertInv
  <2>. QED
    BY <1>1, <1>2, <1>3, <2>1, RowsStay DEF Adds, Unstages
<1>5. OfBatches'
  BY <1>1, <1>2, <1>3 DEF RevertInv, OfBatches
<1>. QED
  BY <1>2, <1>4, <1>5 DEF RevertInv

LEMMA EndedStaysClean ==
  ASSUME RevertInv, NEW w \in Workers, RefuseRow(w) \/ Unstage(w), LineInv'
  PROVE  RevertInv'
<1>1. /\ req' = [req EXCEPT ![w] = Idle] /\ tx' = tx /\ torn \subseteq torn'
      /\ req[w].op \in Committing
  BY DEF RefuseRow, Unstage, Committing
<1>2. \A v \in Workers : req'[v] = IF v = w THEN Idle ELSE req[v]
  BY <1>1, OneRequest DEF RevertInv
<1>3. req[w].batch \in DOMAIN batch
  BY <1>1 DEF RevertInv, LineInv, Sources
<1>4. /\ DOMAIN batch' = DOMAIN batch
      /\ \A b \in DOMAIN batch : /\ batch'[b].status = batch[b].status
                                 /\ batch'[b].staged => batch[b].staged
                                 /\ Unstages(w, b) => ~ batch'[b].staged
  <2>1. CASE RefuseRow(w)
    BY <2>1 DEF RefuseRow, Unstages
  <2>2. CASE Unstage(w)
    <3>1. batch' = [batch EXCEPT ![req[w].batch] = Gone(batch[req[w].batch])]
      BY <2>2 DEF Unstage, Unstaged
    <3>2. ASSUME NEW b \in DOMAIN batch
          PROVE  Gone(batch[b]).status = batch[b].status /\ ~ Gone(batch[b]).staged
      <4>1. batch[b] \in BatchRow
        BY DEF RevertInv, LineInv, ImportTypes
      <4>. QED
        BY <4>1 DEF BatchRow, Gone
    <3>. QED
      BY <1>3, <3>1, <3>2 DEF Unstages
  <2>. QED
    BY <2>1, <2>2
<1>5. ASSUME NEW b \in DOMAIN batch, b \notin torn' PROVE Clean(b)'
  <2>1. Clean(b)
    BY <1>1, <1>5 DEF RevertInv
  <2>2. \A v \in Workers : req'[v].op = "commit" => Adds(v, req'[v].batch)
    BY <1>2, IdleIsServed DEF Adds
  <2>3. \A v \in Workers : /\ req'[v].op = "revert" => req'[v] = req[v]
                           /\ Unstages(v, b) /\ batch'[b].staged => req'[v] = req[v]
    BY <1>2, <1>4, IdleIsServed
  <2>. QED
    BY <1>1, <1>4, <2>1, <2>2, <2>3, RowsStay
<1>6. OfBatches'
  BY <1>1, <1>2, <1>4, IdleIsServed DEF RevertInv, OfBatches
<1>. QED
  BY <1>1, <1>4, <1>5, <1>6 DEF RevertInv

LEMMA RestartStaysClean ==
  ASSUME RevertInv, Restart, LineInv'
  PROVE  RevertInv'
<1>1. /\ batch' = [b \in DOMAIN batch |-> Gone(batch[b])] /\ req' = [w \in Workers |-> Idle]
      /\ tx' = tx /\ torn \subseteq torn'
  BY DEF Restart
<1>2. ASSUME NEW b \in DOMAIN batch
      PROVE  batch'[b].status = batch[b].status /\ ~ batch'[b].staged
  <2>1. batch[b] \in BatchRow
    BY DEF RevertInv, LineInv, ImportTypes
  <2>. QED
    BY <1>1, <2>1 DEF BatchRow, Gone
<1>3. \A w \in Workers : req'[w].op = "idle"
  BY <1>1, IdleIsServed
<1>4. ASSUME NEW b \in DOMAIN batch, b \notin torn' PROVE Clean(b)'
  <2>1. Clean(b)
    BY <1>1, <1>4 DEF RevertInv
  <2>. QED
    BY <1>1, <1>2, <1>3, <2>1, RowsStay
<1>. QED
  BY <1>1, <1>3, <1>4 DEF RevertInv, OfBatches

LEMMA StageStaysClean ==
  ASSUME RevertInv, NEW w \in Workers, Stage(w), LineInv'
  PROVE  RevertInv'
<1>. DEFINE new == [status |-> "review", file |-> req[w].file, staged |-> TRUE,
                    lines |-> ToImport(req[w].file, Known(Live)), unseen |-> {}]
<1>1. /\ batch' = Append(batch, new) /\ new.status = "review"
      /\ req[w].op = "upload" /\ req' = [req EXCEPT ![w] = Idle] /\ UNCHANGED <<tx, torn>>
  BY DEF Stage
<1>. HIDE DEF new
<1>2. PICK c : /\ c \notin DOMAIN batch /\ c # Manual /\ DOMAIN batch' = DOMAIN batch \union {c}
               /\ batch'[c].status = "review" /\ \A b \in DOMAIN batch : batch'[b] = batch[b]
  <2>. DEFINE d == Len(batch) + 1
  <2>1. /\ d \notin DOMAIN batch /\ d # Manual /\ DOMAIN batch' = DOMAIN batch \union {d}
        /\ batch'[d].status = "review" /\ \A b \in DOMAIN batch : batch'[b] = batch[b]
    BY <1>1 DEF RevertInv, LineInv, ImportTypes, Manual
  <2>. HIDE DEF d
  <2>. QED
    BY <2>1
<1>3. \A v \in Workers : req'[v] = IF v = w THEN Idle ELSE req[v]
  BY <1>1, OneRequest DEF RevertInv
<1>4. \A v \in Workers : req'[v].op # "idle" => req'[v] = req[v] /\ v # w
  BY <1>3, IdleIsServed
<1>5. ASSUME NEW b \in DOMAIN batch, b \notin torn PROVE Clean(b)'
  <2>1. Clean(b)
    BY <1>5 DEF RevertInv
  <2>2. \A v \in Workers : Unstages(v, b) => req'[v] = req[v]
    BY <1>1, <1>3 DEF Unstages
  <2>. QED
    BY <1>1, <1>2, <1>4, <2>1, <2>2, RowsStay DEF Adds
<1>6. Clean(c)'
  <2>1. \A i \in DOMAIN tx : tx[i].batch # c
    BY <1>2 DEF RevertInv, LineInv, Sources
  <2>2. \A v \in Workers : ~ (req'[v].op = "revert" /\ req'[v].batch = c)
    BY <1>2, <1>4 DEF RevertInv, OfBatches
  <2>. QED
    BY <1>1, <1>2, <2>1, <2>2 DEF Clean, Reverts
<1>7. OfBatches'
  BY <1>1, <1>2, <1>4 DEF RevertInv, OfBatches
<1>. QED
  BY <1>1, <1>2, <1>5, <1>6, <1>7 DEF RevertInv

LEMMA CommitStaysClean ==
  ASSUME RevertInv, NEW w \in Workers, NEW b \in DOMAIN batch, NEW excluded, Commit(w, b, excluded),
         LineInv'
  PROVE  RevertInv'
<1>. DEFINE q == [Idle EXCEPT !.op = "commit", !.batch = b, !.todo = batch[b].lines \ excluded]
<1>1. /\ req[w].op = "idle" /\ batch[b].staged /\ req' = [req EXCEPT ![w] = q]
      /\ UNCHANGED <<batch, tx>> /\ torn \subseteq torn'
      /\ b \notin torn' => Serving(Committing, b) = {}
  BY DEF Commit, Idle
<1>2. q.op = "commit" /\ q.batch = b
  BY DEF Idle
<1>. HIDE DEF q
<1>3. \A v \in Workers : req'[v] = IF v = w THEN q ELSE req[v]
  BY <1>1, OneRequest DEF RevertInv
<1>4. ASSUME NEW c \in DOMAIN batch, c \notin torn' PROVE Clean(c)'
  <2>1. Clean(c)
    BY <1>1, <1>4 DEF RevertInv
  <2>2. c = b => batch[b].status = "review"
    BY <1>1, <1>4, <2>1 DEF Clean, Unstages, Serving, Committing
  <2>3. \A v \in Workers : /\ req'[v].op = "revert" => req'[v] = req[v]
                           /\ Unstages(v, c) => req'[v] = req[v]
    BY <1>1, <1>2, <1>3 DEF Unstages
  <2>4. \A v \in Workers : req'[v].op = "commit" /\ req'[v].batch = c =>
                             batch[c].status = "review" \/ Adds(v, c)
    BY <1>2, <1>3, <2>2 DEF Adds
  <2>. QED
    BY <1>1, <2>1, <2>3, <2>4, RowsStay
<1>5. OfBatches'
  BY <1>1, <1>2, <1>3 DEF RevertInv, OfBatches
<1>. QED
  BY <1>1, <1>4, <1>5 DEF RevertInv

(* Rows that were changed after the import stay late until the next        *)
(* completion, and a batch that is complete is not completed again.        *)
LEMMA CompleteStaysClean ==
  ASSUME RevertInv, NEW w \in Workers, Complete(w), LineInv'
  PROVE  RevertInv'
<1>. DEFINE b == req[w].batch
<1>1. /\ req[w].op = "commit" /\ req' = [req EXCEPT ![w].op = "unstage"] /\ torn' = torn
      /\ batch' = [batch EXCEPT ![b].status = "completed"]
      /\ tx' = [i \in DOMAIN tx |-> IF i \in RowsOf(b) THEN [tx[i] EXCEPT !.late = FALSE] ELSE tx[i]]
  BY DEF Complete
<1>2. b \in DOMAIN batch /\ Adds(w, b)
  BY <1>1 DEF RevertInv, LineInv, Sources, Committing, Adds
<1>3. ASSUME NEW v \in Workers
      PROVE  /\ req'[v].batch = req[v].batch /\ req'[v].todo = req[v].todo
             /\ req'[v].op = IF v = w THEN "unstage" ELSE req[v].op
  BY <1>1 DEF RevertInv, LineInv, ImportTypes, Served
<1>. HIDE DEF b
<1>4. /\ DOMAIN batch' = DOMAIN batch
      /\ \A c \in DOMAIN batch : /\ batch'[c].staged = batch[c].staged
                                 /\ batch'[c].status = IF c = b THEN "completed" ELSE batch[c].status
  <2>1. ASSUME NEW c \in DOMAIN batch
        PROVE  /\ batch'[c].staged = batch[c].staged
               /\ batch'[c].status = IF c = b THEN "completed" ELSE batch[c].status
    <3>1. batch[c] \in BatchRow
      BY DEF RevertInv, LineInv, ImportTypes
    <3>. QED
      BY <1>1, <3>1 DEF BatchRow
  <2>. QED
    BY <1>1, <2>1
<1>5. /\ DOMAIN tx' = DOMAIN tx
      /\ \A i \in DOMAIN tx : /\ tx'[i].batch = tx[i].batch /\ tx'[i].state = tx[i].state
                              /\ tx'[i].touched = tx[i].touched
                              /\ tx[i].batch # b => tx'[i].late = tx[i].late
  <2>1. ASSUME NEW i \in DOMAIN tx
        PROVE  /\ tx'[i].batch = tx[i].batch /\ tx'[i].state = tx[i].state
               /\ tx'[i].touched = tx[i].touched
               /\ tx[i].batch # b => tx'[i].late = tx[i].late
    <3>1. tx[i] \in TxRow
      BY DEF RevertInv, LineInv, ImportTypes
    <3>. QED
      BY <1>1, <3>1 DEF TxRow, RowsOf
  <2>. QED
    BY <1>1, <2>1
<1>6. ASSUME NEW c \in DOMAIN batch, c \notin torn' PROVE Clean(c)'
  <2>1. Clean(c)
    BY <1>1, <1>6 DEF RevertInv
  <2>2. CASE c = b
    <3>1. batch[b].status = "review" /\ \A i \in DOMAIN tx : tx[i].batch = b => ~ tx[i].touched
      BY <1>2, <2>1, <2>2 DEF Clean
    <3>2. \A v \in Workers : ~ Reverts(v, b)
      BY <2>1, <2>2, <3>1 DEF Clean
    <3>3. \A v \in Workers : Adds(v, b) => v = w
      BY <1>1, <1>2, <1>6, <2>2 DEF RevertInv, LineInv, Whole, Commits, Adds, Committing
    <3>4. \A v \in Workers : ~ (req'[v].op = "commit" /\ req'[v].batch = b)
      BY <1>3, <3>3 DEF Adds
    <3>5. req'[w].op = "unstage" /\ req'[w].batch = b
      BY <1>3 DEF b
    <3>6. \A v \in Workers : ~ (req'[v].op = "revert" /\ req'[v].batch = b)
      BY <1>3, <3>2 DEF Reverts
    <3>. QED
      BY <1>4, <1>5, <2>2, <3>1, <3>4, <3>5, <3>6 DEF Clean, Adds, Unstages, Reverts
  <2>3. CASE c # b
    <3>1. \A v \in Workers : req'[v].batch = c => req'[v].op = req[v].op
      BY <1>3, <2>3 DEF b
    <3>2. \A i \in DOMAIN tx : tx'[i].batch = c => tx'[i].late = tx[i].late
      BY <1>5, <2>3
    <3>3. batch'[c].status # "review" =>
            /\ \A v \in Workers : ~ (req'[v].op = "commit" /\ req'[v].batch = c)
            /\ batch'[c].staged => \E v \in Workers : req'[v].op = "unstage" /\ req'[v].batch = c
      BY <1>3, <1>4, <2>1, <2>3, <3>1 DEF Clean, Adds, Unstages
    <3>4. \A i \in DOMAIN tx' : tx'[i].batch = c =>
            /\ tx'[i].touched => /\ tx'[i].late /\ tx'[i].state # "reverted"
                                 /\ batch'[c].status # "review"
            /\ tx'[i].state = "live" => batch'[c].status # "reverted"
      BY <1>4, <1>5, <2>1, <2>3, <3>2 DEF Clean
    <3>5. \A v \in Workers : req'[v].op = "revert" /\ req'[v].batch = c =>
            /\ batch'[c].status # "review"
            /\ \A i \in DOMAIN tx' :
                 /\ i \in req'[v].todo => ~ tx'[i].touched
                 /\ tx'[i].batch = c /\ tx'[i].state = "live" => i \in req'[v].todo
      BY <1>3, <1>4, <1>5, <2>1, <2>3, <3>1 DEF Clean, Reverts
    <3>. QED
      BY <3>3, <3>4, <3>5 DEF Clean, Adds, Unstages, Reverts
  <2>. QED
    BY <2>2, <2>3
<1>7. OfBatches'
  BY <1>3, <1>4, <1>5 DEF RevertInv, OfBatches
<1>. QED
  BY <1>1, <1>4, <1>6, <1>7 DEF RevertInv

LEMMA BeginRevertStaysClean ==
  ASSUME RevertInv, NEW w \in Workers, NEW b \in DOMAIN batch, Revert(w, b), LineInv'
  PROVE  RevertInv'
<1>. DEFINE rows == RowsOf(b) \intersect Live
            q == [Idle EXCEPT !.op = "revert", !.batch = b, !.todo = rows]
<1>1. /\ req[w].op = "idle" /\ batch[b].status = "completed" /\ req' = [req EXCEPT ![w] = q]
      /\ \A i \in rows : ~ tx[i].late
      /\ UNCHANGED <<batch, tx, torn>>
  BY DEF Revert, NoneModified, Idle
<1>2. q.op = "revert" /\ q.batch = b /\ q.todo = rows
  BY DEF Idle
<1>3. /\ rows \subseteq DOMAIN tx
      /\ \A i \in DOMAIN tx : i \in rows <=> tx[i].batch = b /\ tx[i].state = "live"
  BY DEF RowsOf, Live
<1>. HIDE DEF q, rows
<1>4. \A v \in Workers : req'[v] = IF v = w THEN q ELSE req[v]
  BY <1>1, OneRequest DEF RevertInv
<1>5. ASSUME NEW c \in DOMAIN batch, c \notin torn PROVE Clean(c)'
  <2>1. Clean(c)
    BY <1>5 DEF RevertInv
  <2>2. \A v \in Workers : /\ req'[v].op = "commit" => req'[v] = req[v]
                           /\ Unstages(v, c) => req'[v] = req[v]
    BY <1>1, <1>2, <1>4 DEF Unstages
  <2>3. \A i \in DOMAIN tx : i \in rows /\ c = b => ~ tx[i].touched
    BY <1>1, <1>3, <2>1 DEF Clean
  <2>4. \A v \in Workers : req'[v].op = "revert" /\ req'[v].batch = c =>
          /\ batch[c].status # "review"
          /\ \A i \in DOMAIN tx :
               /\ i \in req'[v].todo => ~ tx[i].touched
               /\ tx[i].batch = c /\ tx[i].state = "live" => i \in req'[v].todo
    <3>1. ASSUME NEW v \in Workers, v # w, req'[v].op = "revert", req'[v].batch = c
          PROVE  Reverts(v, c) /\ req'[v] = req[v]
      BY <1>4, <3>1 DEF Reverts
    <3>2. c = b => \A i \in DOMAIN tx :
                     /\ i \in rows => ~ tx[i].touched
                     /\ tx[i].batch = c /\ tx[i].state = "live" => i \in rows
      BY <1>3, <2>3
    <3>. QED
      BY <1>1, <1>2, <1>4, <2>1, <3>1, <3>2 DEF Clean
  <2>5. batch[c].status # "review" =>
          /\ \A v \in Workers : ~ (req'[v].op = "commit" /\ req'[v].batch = c)
          /\ batch[c].staged => \E v \in Workers : req'[v].op = "unstage" /\ req'[v].batch = c
    BY <2>1, <2>2 DEF Clean, Adds, Unstages
  <2>6. \A i \in DOMAIN tx : tx[i].batch = c =>
          /\ tx[i].touched => /\ tx[i].late /\ tx[i].state # "reverted"
                              /\ batch[c].status # "review"
          /\ tx[i].state = "live" => batch[c].status # "reverted"
    BY <2>1 DEF Clean
  <2>7. batch' = batch /\ tx' = tx
    BY <1>1
  <2>. QED
    BY <2>4, <2>5, <2>6, <2>7 DEF Clean, Adds, Unstages, Reverts
<1>6. OfBatches'
  BY <1>1, <1>2, <1>3, <1>4 DEF RevertInv, OfBatches
<1>. QED
  BY <1>1, <1>5, <1>6 DEF RevertInv

(* One row is changed, and the requests that take it back know of it. *)
LEMMA OneRowChanges ==
  ASSUME RevertInv, NEW i \in DOMAIN tx, NEW r \in TxRow, tx' = [tx EXCEPT ![i] = r],
         r.batch = tx[i].batch, tx[i].state = "live",
         UNCHANGED torn, DOMAIN batch' = DOMAIN batch,
         \A b \in DOMAIN batch : /\ batch'[b].status = batch[b].status
                                 /\ batch'[b].staged = batch[b].staged,
         \A w \in Workers : /\ req'[w].op = "commit" => req'[w] = req[w]
                            /\ req[w].op = "unstage" => req'[w] = req[w]
                            /\ req'[w].op = "revert" =>
                                 /\ req[w].op = "revert" /\ req'[w].batch = req[w].batch
                                 /\ \/ req'[w].todo = req[w].todo
                                    \/ req'[w].todo = req[w].todo \ {i} /\ r.state # "live",
         r.touched => tx[i].touched \/ (/\ r.late /\ r.state # "reverted"
                                        /\ batch[r.batch].status # "review"
                                        /\ \A w \in Workers : Reverts(w, r.batch) => i \notin req[w].todo),
         r.batch \in DOMAIN batch \ torn /\ tx[i].touched => r.late /\ r.state # "reverted",
         LineInv'
  PROVE  RevertInv'
<1>1. DOMAIN tx' = DOMAIN tx /\ \A j \in DOMAIN tx : tx'[j] = IF j = i THEN r ELSE tx[j]
  OBVIOUS
<1>2. ASSUME NEW b \in DOMAIN batch, b \notin torn PROVE Clean(b)'
  <2>1. Clean(b)
    BY <1>2 DEF RevertInv
  <2>2. batch'[b].status # "review" =>
          /\ \A v \in Workers : ~ (req'[v].op = "commit" /\ req'[v].batch = b)
          /\ batch'[b].staged => \E v \in Workers : req'[v].op = "unstage" /\ req'[v].batch = b
    BY <2>1 DEF Clean, Adds, Unstages
  <2>3. \A j \in DOMAIN tx : tx'[j].batch = b =>
          /\ tx'[j].touched => /\ tx'[j].late /\ tx'[j].state # "reverted"
                               /\ batch'[b].status # "review"
          /\ tx'[j].state = "live" => batch'[b].status # "reverted"
    BY <1>1, <1>2, <2>1 DEF Clean
  <2>4. ASSUME NEW v \in Workers, req'[v].op = "revert", req'[v].batch = b
        PROVE  /\ batch'[b].status # "review"
               /\ \A j \in DOMAIN tx :
                    /\ j \in req'[v].todo => ~ tx'[j].touched
                    /\ tx'[j].batch = b /\ tx'[j].state = "live" => j \in req'[v].todo
    <3>1. Reverts(v, b)
      BY <2>4 DEF Reverts
    <3>2. ASSUME NEW j \in DOMAIN tx, j \in req'[v].todo
          PROVE  ~ tx'[j].touched
      <4>1. j \in req[v].todo
        BY <2>4, <3>2
      <4>2. ~ tx[j].touched /\ tx[j].batch = b
        BY <2>1, <3>1, <4>1 DEF Clean, RevertInv, OfBatches, Reverts
      <4>3. CASE j = i
        BY <1>1, <3>1, <4>1, <4>2, <4>3
      <4>. QED
        BY <1>1, <4>2, <4>3
    <3>3. \A j \in DOMAIN tx : tx'[j].batch = b /\ tx'[j].state = "live" => j \in req'[v].todo
      BY <1>1, <2>1, <2>4, <3>1 DEF Clean
    <3>. QED
      BY <2>1, <3>1, <3>2, <3>3 DEF Clean
  <2>. QED
    BY <1>1, <2>2, <2>3, <2>4 DEF Clean, Adds, Unstages, Reverts
<1>3. OfBatches'
  BY <1>1 DEF RevertInv, OfBatches
<1>. QED
  BY <1>2, <1>3 DEF RevertInv

LEMMA RevertRowStaysClean ==
  ASSUME RevertInv, NEW w \in Workers, NEW i \in DOMAIN tx, RevertRow(w, i), LineInv'
  PROVE  RevertInv'
<1>1. /\ req[w].op = "revert" /\ i \in req[w].todo /\ UNCHANGED <<batch, torn>>
      /\ tx[i] \in TxRow /\ req[w] \in Served
  BY DEF RevertRow, RevertInv, LineInv, ImportTypes
<1>2. CASE i \in Live
  <2>. DEFINE r == [tx[i] EXCEPT !.state = "reverted"]
              q == [req[w] EXCEPT !.todo = @ \ {i}]
  <2>1. tx' = [tx EXCEPT ![i] = r] /\ req' = [req EXCEPT ![w] = q] /\ tx[i].state = "live"
    BY <1>2 DEF RevertRow, Live
  <2>2. /\ r \in TxRow /\ r.batch = tx[i].batch /\ r.touched = tx[i].touched
        /\ r.late = tx[i].late /\ r.state = "reverted"
    BY <1>1 DEF TxRow
  <2>3. q.op = "revert" /\ q.batch = req[w].batch /\ q.todo = req[w].todo \ {i}
    BY <1>1 DEF Served
  <2>. HIDE DEF r, q
  <2>4. \A v \in Workers : req'[v] = IF v = w THEN q ELSE req[v]
    BY <2>1, OneRequest DEF RevertInv
  <2>5. r.batch \notin torn => ~ tx[i].touched
    <3>1. req[w].batch \in DOMAIN batch /\ tx[i].batch = req[w].batch
      BY <1>1 DEF RevertInv, OfBatches
    <3>. QED
      BY <1>1, <2>2, <3>1 DEF RevertInv, Clean, Reverts
  <2>6. \A v \in Workers : /\ req'[v].op = "commit" => req'[v] = req[v]
                           /\ req[v].op = "unstage" => req'[v] = req[v]
                           /\ req'[v].op = "revert" =>
                                /\ req[v].op = "revert" /\ req'[v].batch = req[v].batch
                                /\ \/ req'[v].todo = req[v].todo
                                   \/ req'[v].todo = req[v].todo \ {i} /\ r.state # "live"
    BY <1>1, <2>2, <2>3, <2>4
  <2>7. UNCHANGED torn /\ batch' = batch
    BY <1>1
  <2>8. r.touched => tx[i].touched
    BY <2>2
  <2>9. r.batch \in DOMAIN batch \ torn /\ tx[i].touched => r.late /\ r.state # "reverted"
    BY <2>5
  <2>. QED
    BY <2>1, <2>2, <2>6, <2>7, <2>8, <2>9, OneRowChanges
<1>3. CASE i \notin Live
  <2>1. req' = [req EXCEPT ![w] = Idle] /\ tx' = tx
    BY <1>3 DEF RevertRow
  <2>2. \A v \in Workers : req'[v] = IF v = w THEN Idle ELSE req[v]
    BY <2>1, OneRequest DEF RevertInv
  <2>3. ASSUME NEW b \in DOMAIN batch, b \notin torn PROVE Clean(b)'
    <3>1. Clean(b)
      BY <2>3 DEF RevertInv
    <3>2. \A v \in Workers : /\ req'[v].op \in {"commit", "revert"} => req'[v] = req[v]
                             /\ Unstages(v, b) => req'[v] = req[v]
      BY <1>1, <2>2, IdleIsServed DEF Unstages
    <3>. QED
      BY <1>1, <2>1, <3>1, <3>2, RowsStay DEF Adds
  <2>4. OfBatches'
    BY <1>1, <2>1, <2>2, IdleIsServed DEF RevertInv, OfBatches
  <2>. QED
    BY <1>1, <2>3, <2>4 DEF RevertInv
<1>. QED
  BY <1>2, <1>3

LEMMA EndRevertStaysClean ==
  ASSUME RevertInv, NEW w \in Workers, EndRevert(w), LineInv'
  PROVE  RevertInv'
<1>. DEFINE b == req[w].batch
<1>1. /\ req[w].op = "revert" /\ req[w].todo = {} /\ req' = [req EXCEPT ![w] = Idle]
      /\ batch' = [batch EXCEPT ![b].status = "reverted"] /\ UNCHANGED <<tx, torn>>
  BY DEF EndRevert
<1>2. b \in DOMAIN batch /\ Reverts(w, b)
  BY <1>1 DEF RevertInv, OfBatches, Reverts
<1>. HIDE DEF b
<1>3. \A v \in Workers : req'[v] = IF v = w THEN Idle ELSE req[v]
  BY <1>1, OneRequest DEF RevertInv
<1>4. /\ DOMAIN batch' = DOMAIN batch
      /\ \A c \in DOMAIN batch : /\ batch'[c].staged = batch[c].staged
                                 /\ batch'[c].status = IF c = b THEN "reverted" ELSE batch[c].status
  <2>1. ASSUME NEW c \in DOMAIN batch
        PROVE  /\ batch'[c].staged = batch[c].staged
               /\ batch'[c].status = IF c = b THEN "reverted" ELSE batch[c].status
    <3>1. batch[c] \in BatchRow
      BY DEF RevertInv, LineInv, ImportTypes
    <3>. QED
      BY <1>1, <3>1 DEF BatchRow
  <2>. QED
    BY <1>1, <2>1
<1>5. \A v \in Workers : /\ req'[v].op # "idle" => req'[v] = req[v]
                         /\ req[v].op # "revert" => req'[v] = req[v]
  BY <1>1, <1>3, IdleIsServed
<1>6. ASSUME NEW c \in DOMAIN batch, c \notin torn PROVE Clean(c)'
  <2>1. Clean(c)
    BY <1>6 DEF RevertInv
  <2>2. CASE c = b
    <3>1. batch[b].status # "review" /\ \A i \in DOMAIN tx : tx[i].batch = b => tx[i].state # "live"
      BY <1>1, <1>2, <2>1, <2>2 DEF Clean
    <3>2. \A v \in Workers : ~ (req'[v].op = "commit" /\ req'[v].batch = b)
      BY <1>5, <2>1, <2>2, <3>1 DEF Clean, Adds
    <3>3. batch'[b].staged => \E v \in Workers : req'[v].op = "unstage" /\ req'[v].batch = b
      BY <1>4, <1>5, <2>1, <2>2, <3>1 DEF Clean, Unstages
    <3>4. \A i \in DOMAIN tx : tx[i].batch = b =>
            /\ tx[i].touched => tx[i].late /\ tx[i].state # "reverted"
            /\ tx[i].state # "live"
      BY <2>1, <2>2, <3>1 DEF Clean
    <3>5. ASSUME NEW v \in Workers, req'[v].op = "revert", req'[v].batch = b
          PROVE  \A i \in DOMAIN tx : /\ i \in req'[v].todo => ~ tx[i].touched
                                      /\ tx[i].batch = b => tx[i].state # "live"
      BY <1>5, <2>1, <2>2, <3>1, <3>5 DEF Clean, Reverts
    <3>6. tx' = tx /\ batch'[b].status = "reverted"
      BY <1>1, <1>2, <1>4
    <3>. QED
      BY <2>2, <3>2, <3>3, <3>4, <3>5, <3>6 DEF Clean, Adds, Unstages, Reverts
  <2>3. CASE c # b
    <3>1. batch'[c].status = batch[c].status /\ batch'[c].staged = batch[c].staged
      BY <1>4, <2>3
    <3>. QED
      BY <1>1, <1>5, <2>1, <3>1, RowsStay DEF Adds, Unstages
  <2>. QED
    BY <2>2, <2>3
<1>7. OfBatches'
  BY <1>1, <1>4, <1>5 DEF RevertInv, OfBatches
<1>. QED
  BY <1>1, <1>4, <1>6, <1>7 DEF RevertInv

LEMMA UnseenTells ==
  ASSUME ImportTypes, NEW k \in Keys, NEW source, NEW b \in DOMAIN batch
  PROVE  /\ Unseen(k, source)[b].status = batch[b].status
         /\ batch[b].unseen \subseteq Unseen(k, source)[b].unseen
         /\ b # source /\ batch[b].staged => k \in Unseen(k, source)[b].unseen
<1>1. batch[b] \in BatchRow
  BY DEF ImportTypes
<1>2. Unseen(k, source)[b] = IF b # source /\ batch[b].staged
                             THEN [batch[b] EXCEPT !.unseen = @ \union {k}] ELSE batch[b]
  BY DEF Unseen
<1>. QED
  BY <1>1, <1>2 DEF BatchRow

LEMMA UserStaysClean ==
  ASSUME RevertInv, NEW i \in DOMAIN tx, Remove(i) \/ \E k \in Keys : Update(i, k), LineInv'
  PROVE  RevertInv'
<1>1. /\ UNCHANGED <<req, torn>> /\ tx[i] \in TxRow /\ ImportTypes /\ tx[i].state = "live"
      /\ \A b \in DOMAIN batch \ torn : Clean(b)
  <2>1. tx[i] \in TxRow /\ ImportTypes /\ \A b \in DOMAIN batch \ torn : Clean(b)
    BY DEF RevertInv, LineInv, ImportTypes
  <2>. QED
    BY <2>1 DEF Remove, Update, Live
<1>2. /\ DOMAIN batch' = DOMAIN batch
      /\ \A b \in DOMAIN batch : /\ batch'[b].status = batch[b].status
                                 /\ batch'[b].staged = batch[b].staged
  <2>1. CASE batch' = batch
    BY <2>1
  <2>2. ASSUME NEW k \in Keys, batch' = Unseen(k, Manual)
        PROVE  /\ DOMAIN batch' = DOMAIN batch
               /\ \A b \in DOMAIN batch : /\ batch'[b].status = batch[b].status
                                          /\ batch'[b].staged = batch[b].staged
    BY <1>1, <2>2, UnseenKeeps, UnseenTells
  <2>. QED
    BY <2>1, <2>2 DEF Remove, Update
<1>3. CASE Remove(i)
  <2>. DEFINE r == [tx[i] EXCEPT !.state = "deleted"]
  <2>1. /\ r \in TxRow /\ r.batch = tx[i].batch /\ r.touched = tx[i].touched
        /\ r.late = tx[i].late /\ r.state = "deleted"
    BY <1>1 DEF TxRow
  <2>2. tx' = [tx EXCEPT ![i] = r]
    BY <1>3 DEF Remove
  <2>. HIDE DEF r
  <2>3. r.batch \in DOMAIN batch \ torn /\ tx[i].touched => r.late
    BY <1>1, <2>1 DEF Clean
  <2>. QED
    BY <1>1, <1>2, <2>1, <2>2, <2>3, OneRowChanges
<1>4. ASSUME NEW k \in Keys, Update(i, k) PROVE RevertInv'
  <2>. DEFINE r == Updated(i, k)
              completed == tx[i].batch # Manual /\ batch[tx[i].batch].status # "review"
              quiet == \A w \in Serving({"revert"}, tx[i].batch) : i \notin req[w].todo
  <2>1. r = [tx[i] EXCEPT !.key = k, !.late = @ \/ completed, !.touched = @ \/ (completed /\ quiet)]
    BY DEF Updated
  <2>. HIDE DEF r, completed, quiet
  <2>2. /\ r \in TxRow /\ r.batch = tx[i].batch /\ r.state = tx[i].state
        /\ r.touched = (tx[i].touched \/ (completed /\ quiet))
        /\ r.late = (tx[i].late \/ completed)
    <3>1. completed \in BOOLEAN /\ quiet \in BOOLEAN
      BY DEF completed, quiet
    <3>2. /\ (tx[i].late \/ completed) \in BOOLEAN
          /\ (tx[i].touched \/ (completed /\ quiet)) \in BOOLEAN
      OBVIOUS
    <3>. QED
      BY <1>1, <2>1, <3>2 DEF TxRow
  <2>3. tx' = [tx EXCEPT ![i] = r]
    BY <1>4 DEF Update, r
  <2>4. completed => batch[r.batch].status # "review"
    BY <2>2 DEF completed
  <2>5. quiet => \A w \in Workers : Reverts(w, r.batch) => i \notin req[w].todo
    BY <2>2 DEF quiet, Serving, Reverts
  <2>6. r.batch \in DOMAIN batch \ torn /\ tx[i].touched => r.late
    BY <1>1, <2>2 DEF Clean
  <2>. QED
    BY <1>1, <1>2, <2>2, <2>3, <2>4, <2>5, <2>6, OneRowChanges
<1>. QED
  BY <1>3, <1>4

(* A row that comes in by a commit finds its batch in review. *)
LEMMA NewRowStaysClean ==
  ASSUME RevertInv, NEW new \in TxRow, new.touched = FALSE, tx' = Append(tx, new),
         NEW k \in Keys, NEW source, batch' = Unseen(k, source), torn \subseteq torn',
         new.batch \in DOMAIN batch \ torn' => \E w \in Workers : Adds(w, new.batch),
         \A w \in Workers : /\ req'[w].op = "commit" => Adds(w, req'[w].batch)
                            /\ req'[w].op = "revert" => req'[w] = req[w]
                            /\ req[w].op = "unstage" => req'[w] = req[w],
         LineInv'
  PROVE  RevertInv'
<1>. DEFINE last == Len(tx) + 1
<1>1. /\ DOMAIN batch' = DOMAIN batch /\ ImportTypes
      /\ \A b \in DOMAIN batch : batch'[b].staged = batch[b].staged
      /\ last \notin DOMAIN tx /\ DOMAIN tx' = DOMAIN tx \union {last} /\ tx'[last] = new
      /\ \A i \in DOMAIN tx : tx'[i] = tx[i]
  BY RowComesIn DEF RevertInv, LineInv
<1>2. \A b \in DOMAIN batch : batch'[b].status = batch[b].status
  BY <1>1, UnseenTells
<1>. HIDE DEF last
<1>3. ASSUME NEW b \in DOMAIN batch, b \notin torn' PROVE Clean(b)'
  <2>1. Clean(b)
    BY <1>3 DEF RevertInv
  <2>2. new.batch = b => batch[b].status = "review"
    BY <1>3, <2>1 DEF Clean
  <2>3. \A i \in DOMAIN tx' : tx'[i].batch = b =>
          /\ tx'[i].touched => /\ tx'[i].late /\ tx'[i].state # "reverted"
                               /\ batch'[b].status # "review"
          /\ tx'[i].state = "live" => batch'[b].status # "reverted"
    BY <1>1, <1>2, <2>1, <2>2 DEF Clean
  <2>4. batch'[b].status # "review" =>
          /\ \A v \in Workers : ~ (req'[v].op = "commit" /\ req'[v].batch = b)
          /\ batch'[b].staged => \E v \in Workers : req'[v].op = "unstage" /\ req'[v].batch = b
    BY <1>1, <1>2, <2>1 DEF Clean, Adds, Unstages
  <2>5. ASSUME NEW v \in Workers, req'[v].op = "revert", req'[v].batch = b
        PROVE  /\ batch'[b].status # "review"
               /\ \A i \in DOMAIN tx' :
                    /\ i \in req'[v].todo => ~ tx'[i].touched
                    /\ tx'[i].batch = b /\ tx'[i].state = "live" => i \in req'[v].todo
    <3>1. Reverts(v, b) /\ req'[v] = req[v]
      BY <2>5 DEF Reverts
    <3>2. batch[b].status # "review" /\ new.batch # b
      BY <2>1, <2>2, <3>1 DEF Clean
    <3>. QED
      BY <1>1, <1>2, <2>1, <3>1, <3>2 DEF Clean
  <2>. QED
    BY <2>3, <2>4, <2>5 DEF Clean, Adds, Unstages, Reverts
<1>4. OfBatches'
  BY <1>1 DEF RevertInv, OfBatches
<1>. QED
  BY <1>1, <1>3, <1>4 DEF RevertInv

LEMMA EnterStaysClean ==
  ASSUME RevertInv, NEW k \in Keys, Enter(k), LineInv'
  PROVE  RevertInv'
<1>. DEFINE new == [state |-> "live", key |-> k, batch |-> Manual, line |-> 1,
                    late |-> FALSE, touched |-> FALSE]
<1>1. /\ new \in TxRow /\ new.batch = Manual /\ new.touched = FALSE
      /\ tx' = Append(tx, new) /\ batch' = Unseen(k, Manual) /\ UNCHANGED <<req, torn>>
  BY DEF Enter, TxRow, Manual
<1>. HIDE DEF new
<1>2. Manual \notin DOMAIN batch
  BY DEF RevertInv, LineInv, ImportTypes, Manual
<1>. QED
  BY <1>1, <1>2, NewRowStaysClean DEF Adds

LEMMA ImportRowStaysClean ==
  ASSUME RevertInv, NEW w \in Workers, NEW failed \in BOOLEAN, ImportRow(w, failed), LineInv'
  PROVE  RevertInv'
<1>1. PICK b, n, new : ImportedBy(w, failed, b, n, new)
  BY ImportRowDoes DEF RevertInv
<1>2. \A v \in Workers : /\ req'[v].op = "commit" => Adds(v, req'[v].batch)
                         /\ req'[v].op = "revert" => req'[v] = req[v]
                         /\ req[v].op = "unstage" => req'[v] = req[v]
  BY <1>1 DEF ImportedBy, Adds
<1>3. Adds(w, b) /\ new.batch = b /\ new \in TxRow /\ new.touched = FALSE
  BY <1>1 DEF ImportedBy, Adds
<1>4. /\ batch[b].file[n] \in Keys /\ batch' = Unseen(batch[b].file[n], b)
      /\ tx' = Append(tx, new) /\ torn \subseteq torn'
  BY <1>1 DEF ImportedBy
<1>. QED
  BY <1>2, <1>3, <1>4, NewRowStaysClean

LEMMA StepRevert == RevertInv /\ [Next]_vars => RevertInv'
<1>. SUFFICES ASSUME RevertInv, [Next]_vars PROVE RevertInv'
  OBVIOUS
<1>1. LineInv'
  BY StepLine DEF RevertInv
<1>2. CASE UNCHANGED vars
  BY <1>1, <1>2 DEF vars, RevertInv, OfBatches, Clean, Adds, Unstages, Reverts
<1>. QED
  BY <1>1, <1>2, UploadStaysClean, StageStaysClean, CommitStaysClean, ImportRowStaysClean,
     EndedStaysClean, CompleteStaysClean, BeginRevertStaysClean, RevertRowStaysClean,
     EndRevertStaysClean, EnterStaysClean, UserStaysClean, RestartStaysClean DEF Next

(* RG-I3, for any files, requests and transactions: of a batch that was    *)
(* reverted nothing is left, and a revert takes no transaction the user    *)
(* changed, unless a commit of the batch was torn.                         *)
THEOREM RevertsAreClean == Spec => []RevertIsClean
  BY InitRevert, StepRevert, RevertSuffices, PTL DEF Spec

-----------------------------------------------------------------------------
(* Previews.  The lines of a preview differ from each other, and one that  *)
(* looks like a live row came in before it, or is the line of that row.    *)
LooksLike(i, b, n) == tx[i].state = "live" /\ tx[i].key = batch[b].file[n]

HasRow(b, n) == \E i \in DOMAIN tx : tx[i].batch = b /\ tx[i].line = n

Previewed(b) ==
  /\ batch[b].staged =>
       /\ \A m, n \in batch[b].lines : batch[b].file[m] = batch[b].file[n] => m = n
       /\ \A i \in DOMAIN tx, n \in batch[b].lines :
            LooksLike(i, b, n) => batch[b].file[n] \in batch[b].unseen \/ HasRow(b, n)
  /\ \A w \in Workers : Adds(w, b) => batch[b].staged /\ req[w].todo \subseteq batch[b].lines

PreviewInv == LineInv /\ \A b \in DOMAIN batch \ torn : Previewed(b)

LEMMA InitPreview == Init => PreviewInv
  BY InitLine DEF Init, PreviewInv

(* Steps that add no line, no preview and no row that is new to one.       *)
LEMMA PreviewStays ==
  ASSUME NEW b \in DOMAIN batch, Previewed(b),
         batch'[b].staged => /\ batch[b].staged /\ batch'[b].lines = batch[b].lines
                             /\ batch'[b].file = batch[b].file
                             /\ batch[b].unseen \subseteq batch'[b].unseen,
         \A i \in DOMAIN tx :
           i \in DOMAIN tx' /\ tx'[i].batch = tx[i].batch /\ tx'[i].line = tx[i].line,
         batch'[b].staged => \A i \in DOMAIN tx' : tx'[i].state = "live" =>
           \/ i \in DOMAIN tx /\ tx[i].state = "live" /\ tx'[i].key = tx[i].key
           \/ tx'[i].key \in batch'[b].unseen
           \/ /\ tx'[i].batch = b
              /\ \A n \in batch[b].lines : tx'[i].key = batch[b].file[n] => tx'[i].line = n,
         \A w \in Workers : req'[w].op = "commit" /\ req'[w].batch = b =>
           /\ batch'[b].staged
           /\ \/ Adds(w, b) /\ req'[w].todo \subseteq req[w].todo
              \/ req'[w].todo \subseteq batch[b].lines
  PROVE  Previewed(b)'
<1>1. ASSUME batch'[b].staged, NEW m \in batch'[b].lines, NEW n \in batch'[b].lines,
             batch'[b].file[m] = batch'[b].file[n]
      PROVE  m = n
  BY <1>1 DEF Previewed
<1>2. ASSUME batch'[b].staged, NEW i \in DOMAIN tx', NEW n \in batch'[b].lines,
             tx'[i].state = "live", tx'[i].key = batch'[b].file[n]
      PROVE  \/ batch'[b].file[n] \in batch'[b].unseen
             \/ \E j \in DOMAIN tx' : tx'[j].batch = b /\ tx'[j].line = n
  <2>1. /\ batch[b].staged /\ n \in batch[b].lines /\ batch'[b].file = batch[b].file
        /\ batch[b].unseen \subseteq batch'[b].unseen
    BY <1>2
  <2>2. CASE i \in DOMAIN tx /\ tx[i].state = "live" /\ tx'[i].key = tx[i].key
    <3>1. LooksLike(i, b, n)
      BY <1>2, <2>1, <2>2 DEF LooksLike
    <3>2. batch[b].file[n] \in batch[b].unseen \/ HasRow(b, n)
      BY <2>1, <2>2, <3>1 DEF Previewed
    <3>. QED
      BY <2>1, <3>2 DEF HasRow
  <2>3. CASE tx'[i].key \in batch'[b].unseen
    BY <1>2, <2>3
  <2>4. CASE /\ tx'[i].batch = b
             /\ \A k \in batch[b].lines : tx'[i].key = batch[b].file[k] => tx'[i].line = k
    BY <1>2, <2>1, <2>4
  <2>. QED
    BY <1>2, <2>2, <2>3, <2>4
<1>3. ASSUME NEW w \in Workers, req'[w].op = "commit", req'[w].batch = b
      PROVE  batch'[b].staged /\ req'[w].todo \subseteq batch'[b].lines
  <2>1. batch'[b].staged /\ batch'[b].lines = batch[b].lines
    BY <1>3
  <2>. QED
    BY <1>3, <2>1 DEF Previewed
<1>. QED
  BY <1>1, <1>2, <1>3 DEF Previewed, LooksLike, HasRow, Adds

(* Requests that begin, end or go on, and leave previews and rows alone.   *)
LEMMA OnlyRequests ==
  ASSUME PreviewInv, LineInv', UNCHANGED <<batch, tx>>, torn \subseteq torn',
         \A w \in Workers : req'[w].op = "commit" /\ req'[w].batch \notin torn' =>
           \/ req'[w] = req[w]
           \/ batch[req'[w].batch].staged /\ req'[w].todo \subseteq batch[req'[w].batch].lines
  PROVE  PreviewInv'
<1>1. ASSUME NEW b \in DOMAIN batch, b \notin torn' PROVE Previewed(b)'
  <2>1. Previewed(b)
    BY <1>1 DEF PreviewInv
  <2>2. ASSUME NEW w \in Workers, req'[w].op = "commit", req'[w].batch = b
        PROVE  /\ batch[b].staged
               /\ \/ Adds(w, b) /\ req'[w].todo \subseteq req[w].todo
                  \/ req'[w].todo \subseteq batch[b].lines
    BY <1>1, <2>1, <2>2 DEF Previewed, Adds
  <2>. QED
    BY <2>1, <2>2, PreviewStays
<1>. QED
  BY <1>1 DEF PreviewInv

LEMMA RequestsKeepPreviews ==
  ASSUME PreviewInv, LineInv', NEW w \in Workers,
         \/ RefuseRow(w) \/ \E file \in Files, force \in BOOLEAN : Upload(w, file, force)
         \/ \E b \in DOMAIN batch : Revert(w, b)
  PROVE  PreviewInv'
<1>1. UNCHANGED <<batch, tx>> /\ torn \subseteq torn'
  BY DEF RefuseRow, Upload, Revert
<1>2. PICK q : req' = [req EXCEPT ![w] = q] /\ q.op # "commit"
  <2>1. CASE RefuseRow(w)
    BY <2>1, IdleIsServed DEF RefuseRow
  <2>2. ASSUME NEW file, NEW force, Upload(w, file, force)
        PROVE  \E q : req' = [req EXCEPT ![w] = q] /\ q.op # "commit"
    <3>1. [Idle EXCEPT !.op = "upload", !.file = file].op = "upload"
      BY DEF Idle
    <3>. QED
      BY <2>2, <3>1 DEF Upload
  <2>3. ASSUME NEW b, Revert(w, b)
        PROVE  \E q : req' = [req EXCEPT ![w] = q] /\ q.op # "commit"
    <3>. DEFINE rows == RowsOf(b) \intersect Live
    <3>1. [Idle EXCEPT !.op = "revert", !.batch = b, !.todo = rows].op = "revert"
      BY DEF Idle
    <3>2. req' = [req EXCEPT ![w] = [Idle EXCEPT !.op = "revert", !.batch = b, !.todo = rows]]
      BY <2>3 DEF Revert
    <3>. QED
      BY <3>1, <3>2
  <2>. QED
    BY <2>1, <2>2, <2>3
<1>3. \A v \in Workers : req'[v] = IF v = w THEN q ELSE req[v]
  BY <1>2, OneRequest DEF PreviewInv
<1>. QED
  BY <1>1, <1>2, <1>3, OnlyRequests

LEMMA CommitKeepsPreviews ==
  ASSUME PreviewInv, LineInv', NEW w \in Workers, NEW b \in DOMAIN batch, NEW excluded,
         Commit(w, b, excluded)
  PROVE  PreviewInv'
<1>. DEFINE q == [Idle EXCEPT !.op = "commit", !.batch = b, !.todo = batch[b].lines \ excluded]
<1>1. /\ req' = [req EXCEPT ![w] = q] /\ UNCHANGED <<batch, tx>> /\ torn \subseteq torn'
      /\ batch[b].staged
  BY DEF Commit
<1>2. q.batch = b /\ q.todo \subseteq batch[b].lines
  BY DEF Idle
<1>. HIDE DEF q
<1>3. \A v \in Workers : req'[v] = IF v = w THEN q ELSE req[v]
  BY <1>1, OneRequest DEF PreviewInv
<1>. QED
  BY <1>1, <1>2, <1>3, OnlyRequests

LEMMA StageKeepsPreviews ==
  ASSUME PreviewInv, LineInv', NEW w \in Workers, Stage(w)
  PROVE  PreviewInv'
<1>. DEFINE new == [status |-> "review", file |-> req[w].file, staged |-> TRUE,
                    lines |-> ToImport(req[w].file, Known(Live)), unseen |-> {}]
<1>1. /\ batch' = Append(batch, new) /\ new.file = req[w].file
      /\ new.lines = ToImport(req[w].file, Known(Live))
      /\ req[w].op = "upload" /\ req' = [req EXCEPT ![w] = Idle] /\ UNCHANGED <<tx, torn>>
  BY DEF Stage
<1>2. req[w].file \in Seq(Keys)
  BY <1>1, ImportAssumption DEF PreviewInv, LineInv, Sources
<1>. HIDE DEF new
<1>3. PICK c : /\ c \notin DOMAIN batch /\ DOMAIN batch' = DOMAIN batch \union {c}
               /\ batch'[c].lines = new.lines /\ batch'[c].file = new.file
               /\ \A b \in DOMAIN batch : batch'[b] = batch[b]
  <2>. DEFINE d == Len(batch) + 1
  <2>1. /\ d \notin DOMAIN batch /\ DOMAIN batch' = DOMAIN batch \union {d}
        /\ batch'[d] = new /\ \A b \in DOMAIN batch : batch'[b] = batch[b]
    BY <1>1 DEF PreviewInv, LineInv, ImportTypes
  <2>. HIDE DEF d
  <2>. QED
    BY <2>1
<1>4. \A v \in Workers : req'[v] = IF v = w THEN Idle ELSE req[v]
  BY <1>1, OneRequest DEF PreviewInv
<1>5. \A v \in Workers : req'[v].op = "commit" => req'[v] = req[v]
  BY <1>4, IdleIsServed
<1>6. ASSUME NEW b \in DOMAIN batch, b \notin torn PROVE Previewed(b)'
  <2>1. Previewed(b)
    BY <1>6 DEF PreviewInv
  <2>2. \A v \in Workers : req'[v].op = "commit" /\ req'[v].batch = b =>
          batch[b].staged /\ Adds(v, b) /\ req'[v].todo \subseteq req[v].todo
    BY <1>5, <2>1 DEF Previewed, Adds
  <2>. QED
    BY <1>1, <1>3, <2>1, <2>2, PreviewStays
<1>7. Previewed(c)'
  <2>1. ASSUME NEW m \in new.lines, NEW n \in new.lines, new.file[m] = new.file[n]
        PROVE  m = n
    <3>1. /\ m \in DOMAIN req[w].file /\ n \in DOMAIN req[w].file
          /\ \A k \in 1..m - 1 : req[w].file[k] # req[w].file[m]
          /\ \A k \in 1..n - 1 : req[w].file[k] # req[w].file[n]
      BY <1>1 DEF ToImport
    <3>2. m \in Nat /\ n \in Nat /\ m >= 1 /\ n >= 1
      BY <1>2, <3>1
    <3>3. ~ (m \in 1..n - 1) /\ ~ (n \in 1..m - 1)
      BY <1>1, <2>1, <3>1
    <3>. QED
      BY <3>2, <3>3
  <2>2. ASSUME NEW i \in DOMAIN tx, NEW n \in new.lines, tx[i].state = "live"
        PROVE  tx[i].key # new.file[n]
    BY <1>1, <2>2 DEF ToImport, Known, Live
  <2>3. \A v \in Workers : ~ (req'[v].op = "commit" /\ req'[v].batch = c)
    BY <1>3, <1>5 DEF PreviewInv, LineInv, Sources, Committing
  <2>4. tx' = tx
    BY <1>1
  <2>5. \A m, n \in batch'[c].lines : batch'[c].file[m] = batch'[c].file[n] => m = n
    BY <1>3, <2>1
  <2>6. \A i \in DOMAIN tx, n \in batch'[c].lines : tx[i].state = "live" => tx[i].key # batch'[c].file[n]
    BY <1>3, <2>2
  <2>. QED
    BY <2>3, <2>4, <2>5, <2>6 DEF Previewed, LooksLike, Adds
<1>. QED
  BY <1>1, <1>3, <1>6, <1>7 DEF PreviewInv

(* Rows that go, are completed or change: only a new key is new.           *)
LEMMA RowsKeepPreviews ==
  ASSUME PreviewInv, LineInv', torn' = torn, DOMAIN batch' = DOMAIN batch, DOMAIN tx' = DOMAIN tx,
         \A b \in DOMAIN batch : (/\ batch'[b].staged = batch[b].staged
                                  /\ batch'[b].lines = batch[b].lines /\ batch'[b].file = batch[b].file
                                  /\ batch[b].unseen \subseteq batch'[b].unseen),
         \A i \in DOMAIN tx : tx'[i].batch = tx[i].batch /\ tx'[i].line = tx[i].line,
         \A i \in DOMAIN tx : tx'[i].state = "live" =>
           /\ tx[i].state = "live"
           /\ \/ tx'[i].key = tx[i].key
              \/ \A b \in DOMAIN batch : batch[b].staged => tx'[i].key \in batch'[b].unseen,
         \A w \in Workers : req'[w].op = "commit" => req'[w] = req[w]
  PROVE  PreviewInv'
<1>1. ASSUME NEW b \in DOMAIN batch, b \notin torn PROVE Previewed(b)'
  <2>1. Previewed(b)
    BY <1>1 DEF PreviewInv
  <2>2. \A w \in Workers : req'[w].op = "commit" /\ req'[w].batch = b =>
          batch[b].staged /\ Adds(w, b) /\ req'[w].todo \subseteq req[w].todo
    BY <2>1 DEF Previewed, Adds
  <2>. QED
    BY <2>1, <2>2, PreviewStays
<1>. QED
  BY <1>1 DEF PreviewInv

LEMMA CompleteKeepsPreviews ==
  ASSUME PreviewInv, LineInv', NEW w \in Workers, Complete(w)
  PROVE  PreviewInv'
<1>. DEFINE b == req[w].batch
<1>1. /\ req[w].op = "commit" /\ req' = [req EXCEPT ![w].op = "unstage"] /\ torn' = torn
      /\ batch' = [batch EXCEPT ![b].status = "completed"]
      /\ tx' = [i \in DOMAIN tx |-> IF i \in RowsOf(b) THEN [tx[i] EXCEPT !.late = FALSE] ELSE tx[i]]
  BY DEF Complete
<1>. HIDE DEF b
<1>2. ASSUME NEW c \in DOMAIN batch
      PROVE  /\ batch'[c].staged = batch[c].staged /\ batch'[c].unseen = batch[c].unseen
             /\ batch'[c].lines = batch[c].lines /\ batch'[c].file = batch[c].file
  <2>1. batch[c] \in BatchRow
    BY DEF PreviewInv, LineInv, ImportTypes
  <2>. QED
    BY <1>1, <2>1 DEF BatchRow
<1>3. ASSUME NEW i \in DOMAIN tx
      PROVE  /\ tx'[i].batch = tx[i].batch /\ tx'[i].line = tx[i].line
             /\ tx'[i].state = tx[i].state /\ tx'[i].key = tx[i].key
  <2>1. tx[i] \in TxRow
    BY DEF PreviewInv, LineInv, ImportTypes
  <2>2. tx'[i] = tx[i] \/ tx'[i] = [tx[i] EXCEPT !.late = FALSE]
    BY <1>1
  <2>. QED
    BY <2>1, <2>2 DEF TxRow
<1>4. ASSUME NEW v \in Workers, req'[v].op = "commit"
      PROVE  req'[v] = req[v]
  BY <1>1, <1>4 DEF PreviewInv, LineInv, ImportTypes, Served
<1>. QED
  BY <1>1, <1>2, <1>3, <1>4, RowsKeepPreviews

LEMMA RevertKeepsPreviews ==
  ASSUME PreviewInv, LineInv', NEW w \in Workers, EndRevert(w) \/ \E i \in DOMAIN tx : RevertRow(w, i)
  PROVE  PreviewInv'
<1>1. CASE EndRevert(w)
  <2>. DEFINE b == req[w].batch
  <2>1. /\ req' = [req EXCEPT ![w] = Idle] /\ UNCHANGED <<tx, torn>>
        /\ batch' = [batch EXCEPT ![b].status = "reverted"]
    BY <1>1 DEF EndRevert
  <2>. HIDE DEF b
  <2>2. ASSUME NEW c \in DOMAIN batch
        PROVE  /\ batch'[c].staged = batch[c].staged /\ batch'[c].unseen = batch[c].unseen
               /\ batch'[c].lines = batch[c].lines /\ batch'[c].file = batch[c].file
    <3>1. batch[c] \in BatchRow
      BY DEF PreviewInv, LineInv, ImportTypes
    <3>. QED
      BY <2>1, <3>1 DEF BatchRow
  <2>3. \A v \in Workers : req'[v] = IF v = w THEN Idle ELSE req[v]
    BY <2>1, OneRequest DEF PreviewInv
  <2>. QED
    BY <2>1, <2>2, <2>3, IdleIsServed, RowsKeepPreviews
<1>2. ASSUME NEW i \in DOMAIN tx, RevertRow(w, i) PROVE PreviewInv'
  <2>1. UNCHANGED <<batch, torn>> /\ req[w].op = "revert" /\ tx[i] \in TxRow /\ req[w] \in Served
    BY <1>2 DEF RevertRow, PreviewInv, LineInv, ImportTypes
  <2>2. tx' = tx \/ tx' = [tx EXCEPT ![i] = [tx[i] EXCEPT !.state = "reverted"]]
    BY <1>2 DEF RevertRow
  <2>3. ASSUME NEW j \in DOMAIN tx
        PROVE  /\ tx'[j].batch = tx[j].batch /\ tx'[j].line = tx[j].line
               /\ tx'[j].state = "live" => tx[j].state = "live" /\ tx'[j].key = tx[j].key
    BY <2>1, <2>2 DEF TxRow
  <2>4. PICK q : req' = [req EXCEPT ![w] = q] /\ q.op # "commit"
    <3>1. CASE req' = [req EXCEPT ![w] = Idle]
      BY <3>1, IdleIsServed
    <3>2. CASE req' = [req EXCEPT ![w].todo = @ \ {i}]
      <4>1. [req[w] EXCEPT !.todo = @ \ {i}].op = "revert"
        BY <2>1 DEF Served
      <4>. QED
        BY <3>2, <4>1
    <3>. QED
      BY <1>2, <3>1, <3>2 DEF RevertRow
  <2>5. \A v \in Workers : req'[v] = IF v = w THEN q ELSE req[v]
    BY <2>4, OneRequest DEF PreviewInv
  <2>6. DOMAIN tx' = DOMAIN tx
    BY <2>2
  <2>. QED
    BY <2>1, <2>3, <2>4, <2>5, <2>6, RowsKeepPreviews
<1>. QED
  BY <1>1, <1>2

LEMMA UserKeepsPreviews ==
  ASSUME PreviewInv, LineInv', NEW i \in DOMAIN tx, Remove(i) \/ \E k \in Keys : Update(i, k)
  PROVE  PreviewInv'
<1>1. UNCHANGED <<req, torn>> /\ tx[i] \in TxRow /\ ImportTypes /\ tx[i].state = "live"
  <2>1. tx[i] \in TxRow /\ ImportTypes
    BY DEF PreviewInv, LineInv, ImportTypes
  <2>. QED
    BY <2>1 DEF Remove, Update, Live
<1>2. CASE Remove(i)
  <2>1. batch' = batch /\ tx' = [tx EXCEPT ![i] = [tx[i] EXCEPT !.state = "deleted"]]
    BY <1>2 DEF Remove
  <2>2. ASSUME NEW j \in DOMAIN tx
        PROVE  /\ tx'[j].batch = tx[j].batch /\ tx'[j].line = tx[j].line
               /\ tx'[j].state = "live" => tx[j].state = "live" /\ tx'[j].key = tx[j].key
    BY <1>1, <2>1 DEF TxRow
  <2>3. DOMAIN tx' = DOMAIN tx
    BY <2>1
  <2>. QED
    BY <1>1, <2>1, <2>2, <2>3, RowsKeepPreviews
<1>3. ASSUME NEW k \in Keys, Update(i, k) PROVE PreviewInv'
  <2>1. /\ tx' = [tx EXCEPT ![i] = Updated(i, k)]
        /\ batch' = IF k = tx[i].key THEN batch ELSE Unseen(k, Manual)
    BY <1>3 DEF Update
  <2>2. /\ Updated(i, k).batch = tx[i].batch /\ Updated(i, k).line = tx[i].line
        /\ Updated(i, k).state = tx[i].state /\ Updated(i, k).key = k
    BY <1>1 DEF Updated, TxRow
  <2>3. ASSUME NEW j \in DOMAIN tx
        PROVE  /\ tx'[j].batch = tx[j].batch /\ tx'[j].line = tx[j].line
               /\ tx'[j].state = tx[j].state
               /\ tx'[j].key = IF j = i THEN k ELSE tx[j].key
    BY <2>1, <2>2
  <2>4. DOMAIN tx' = DOMAIN tx
    BY <2>1
  <2>5. CASE k = tx[i].key
    <3>1. batch' = batch /\ \A j \in DOMAIN tx : tx'[j].key = tx[j].key
      BY <2>1, <2>3, <2>5
    <3>. QED
      BY <1>1, <2>3, <2>4, <3>1, RowsKeepPreviews
  <2>6. CASE k # tx[i].key
    <3>1. batch' = Unseen(k, Manual) /\ Manual \notin DOMAIN batch
      BY <1>1, <2>1, <2>6 DEF ImportTypes, Manual
    <3>2. /\ DOMAIN batch' = DOMAIN batch
          /\ \A b \in DOMAIN batch : /\ batch'[b].file = batch[b].file
                                     /\ batch'[b].lines = batch[b].lines
                                     /\ batch'[b].staged = batch[b].staged
      BY <1>1, <3>1, UnseenKeeps
    <3>3. ASSUME NEW b \in DOMAIN batch
          PROVE  /\ batch[b].unseen \subseteq batch'[b].unseen
                 /\ batch[b].staged => k \in batch'[b].unseen
      BY <1>1, <3>1, UnseenTells
    <3>4. \A j \in DOMAIN tx : tx'[j].state = "live" =>
            /\ tx[j].state = "live"
            /\ \/ tx'[j].key = tx[j].key
               \/ \A b \in DOMAIN batch : batch[b].staged => tx'[j].key \in batch'[b].unseen
      BY <1>1, <2>3, <3>3
    <3>. QED
      BY <1>1, <2>3, <2>4, <3>2, <3>3, <3>4, RowsKeepPreviews
  <2>. QED
    BY <2>5, <2>6
<1>. QED
  BY <1>2, <1>3

(* A preview that goes, or all of them.                                    *)
LEMMA UnstageKeepsPreviews ==
  ASSUME PreviewInv, LineInv', NEW w \in Workers, Unstage(w)
  PROVE  PreviewInv'
<1>. DEFINE b == req[w].batch
<1>1. /\ req[w].op = "unstage" /\ req' = [req EXCEPT ![w] = Idle] /\ UNCHANGED <<tx, torn>>
      /\ batch' = [batch EXCEPT ![b] = Gone(batch[b])]
  BY DEF Unstage, Unstaged
<1>2. b \in DOMAIN batch /\ Commits(w, b)
  BY <1>1 DEF PreviewInv, LineInv, Sources, Committing, Commits
<1>. HIDE DEF b
<1>3. \A v \in Workers : req'[v] = IF v = w THEN Idle ELSE req[v]
  BY <1>1, OneRequest DEF PreviewInv
<1>4. DOMAIN batch' = DOMAIN batch /\ ~ Gone(batch[b]).staged
  <2>1. batch[b] \in BatchRow
    BY <1>2 DEF PreviewInv, LineInv, ImportTypes
  <2>. QED
    BY <1>1, <2>1 DEF BatchRow, Gone
<1>5. ASSUME NEW c \in DOMAIN batch, c \notin torn PROVE Previewed(c)'
  <2>1. Previewed(c)
    BY <1>5 DEF PreviewInv
  <2>2. ASSUME NEW v \in Workers, req'[v].op = "commit", req'[v].batch = c
        PROVE  v # w /\ Adds(v, c) /\ req'[v] = req[v] /\ c # b
    <3>1. v # w /\ req'[v] = req[v]
      BY <1>3, <2>2, IdleIsServed
    <3>2. Commits(v, c)
      BY <2>2, <3>1 DEF Commits, Committing
    <3>3. c # b
      BY <1>2, <1>5, <3>1, <3>2 DEF PreviewInv, LineInv, Whole
    <3>. QED
      BY <2>2, <3>1, <3>3 DEF Adds
  <2>3. c # b => batch'[c] = batch[c]
    BY <1>1
  <2>4. c = b => ~ batch'[c].staged
    BY <1>1, <1>4
  <2>5. \A v \in Workers : req'[v].op = "commit" /\ req'[v].batch = c =>
          batch'[c].staged /\ Adds(v, c) /\ req'[v].todo \subseteq req[v].todo
    BY <2>1, <2>2, <2>3 DEF Previewed
  <2>. QED
    BY <1>1, <2>1, <2>3, <2>4, <2>5, PreviewStays
<1>. QED
  BY <1>1, <1>4, <1>5 DEF PreviewInv

LEMMA RestartKeepsPreviews ==
  ASSUME PreviewInv, LineInv', Restart
  PROVE  PreviewInv'
<1>1. /\ batch' = [b \in DOMAIN batch |-> Gone(batch[b])] /\ req' = [w \in Workers |-> Idle]
      /\ torn \subseteq torn'
  BY DEF Restart
<1>2. ASSUME NEW b \in DOMAIN batch PROVE ~ batch'[b].staged
  <2>1. batch[b] \in BatchRow
    BY DEF PreviewInv, LineInv, ImportTypes
  <2>. QED
    BY <1>1, <2>1 DEF BatchRow, Gone
<1>3. \A w \in Workers : req'[w].op = "idle"
  BY <1>1, IdleIsServed
<1>. QED
  BY <1>1, <1>2, <1>3 DEF PreviewInv, Previewed, Adds

(* A row that comes in is new to the other previews, and has its line.     *)
LEMMA NewRowKeepsPreviews ==
  ASSUME PreviewInv, LineInv', NEW new \in TxRow, tx' = Append(tx, new),
         NEW source, batch' = Unseen(new.key, source), torn \subseteq torn',
         source \in DOMAIN batch \ torn' =>
           /\ new.batch = source
           /\ batch[source].staged => \A n \in batch[source].lines :
                                        new.key = batch[source].file[n] => new.line = n,
         \A w \in Workers : req'[w].op = "commit" =>
           /\ Adds(w, req'[w].batch) /\ req'[w].todo \subseteq req[w].todo
  PROVE  PreviewInv'
<1>. DEFINE last == Len(tx) + 1
<1>1. new.key \in Keys
  BY DEF TxRow
<1>2. /\ DOMAIN batch' = DOMAIN batch /\ ImportTypes
      /\ \A b \in DOMAIN batch : /\ batch'[b].file = batch[b].file
                                 /\ batch'[b].lines = batch[b].lines
                                 /\ batch'[b].staged = batch[b].staged
      /\ DOMAIN tx' = DOMAIN tx \union {last} /\ tx'[last] = new
      /\ \A i \in DOMAIN tx : tx'[i] = tx[i]
  BY <1>1, RowComesIn DEF PreviewInv, LineInv
<1>3. ASSUME NEW b \in DOMAIN batch
      PROVE  /\ batch[b].unseen \subseteq batch'[b].unseen
             /\ b # source /\ batch[b].staged => new.key \in batch'[b].unseen
  BY <1>1, <1>2, UnseenTells
<1>. HIDE DEF last
<1>4. ASSUME NEW b \in DOMAIN batch, b \notin torn' PROVE Previewed(b)'
  <2>1. Previewed(b)
    BY <1>4 DEF PreviewInv
  <2>2. ASSUME batch'[b].staged, NEW i \in DOMAIN tx', tx'[i].state = "live"
        PROVE  \/ i \in DOMAIN tx /\ tx[i].state = "live" /\ tx'[i].key = tx[i].key
               \/ tx'[i].key \in batch'[b].unseen
               \/ /\ tx'[i].batch = b
                  /\ \A n \in batch[b].lines : tx'[i].key = batch[b].file[n] => tx'[i].line = n
    <3>1. CASE i \in DOMAIN tx
      BY <1>2, <2>2, <3>1
    <3>2. CASE i = last /\ b # source
      BY <1>2, <1>3, <2>2, <3>2
    <3>3. CASE i = last /\ b = source
      BY <1>2, <1>4, <2>2, <3>3
    <3>. QED
      BY <1>2, <3>1, <3>2, <3>3
  <2>3. \A w \in Workers : req'[w].op = "commit" /\ req'[w].batch = b =>
          batch'[b].staged /\ Adds(w, b) /\ req'[w].todo \subseteq req[w].todo
    BY <1>2, <2>1 DEF Previewed
  <2>. QED
    BY <1>2, <1>3, <2>1, <2>2, <2>3, PreviewStays
<1>. QED
  BY <1>2, <1>4 DEF PreviewInv

LEMMA EnterKeepsPreviews ==
  ASSUME PreviewInv, LineInv', NEW k \in Keys, Enter(k)
  PROVE  PreviewInv'
<1>. DEFINE new == [state |-> "live", key |-> k, batch |-> Manual, line |-> 1,
                    late |-> FALSE, touched |-> FALSE]
<1>1. /\ new \in TxRow /\ new.key = k /\ tx' = Append(tx, new) /\ batch' = Unseen(k, Manual)
      /\ UNCHANGED <<req, torn>>
  BY DEF Enter, TxRow, Manual
<1>. HIDE DEF new
<1>2. Manual \notin DOMAIN batch
  BY DEF PreviewInv, LineInv, ImportTypes, Manual
<1>. QED
  BY <1>1, <1>2, NewRowKeepsPreviews DEF Adds

LEMMA ImportRowKeepsPreviews ==
  ASSUME PreviewInv, LineInv', NEW w \in Workers, NEW failed \in BOOLEAN, ImportRow(w, failed)
  PROVE  PreviewInv'
<1>1. PICK b, n, new : ImportedBy(w, failed, b, n, new)
  BY ImportRowDoes DEF PreviewInv
<1>2. /\ new \in TxRow /\ tx' = Append(tx, new) /\ batch' = Unseen(new.key, b)
      /\ torn \subseteq torn' /\ new.batch = b /\ Adds(w, b) /\ b \in DOMAIN batch
      /\ new.line = n /\ n \in req[w].todo /\ new.key = batch[b].file[n]
  BY <1>1 DEF ImportedBy, Adds
<1>3. ASSUME b \notin torn', batch[b].staged, NEW m \in batch[b].lines, new.key = batch[b].file[m]
      PROVE  new.line = m
  <2>1. Previewed(b)
    BY <1>2, <1>3 DEF PreviewInv
  <2>2. n \in batch[b].lines
    BY <1>2, <2>1 DEF Previewed
  <2>. QED
    BY <1>2, <1>3, <2>1, <2>2 DEF Previewed
<1>4. \A v \in Workers : req'[v].op = "commit" =>
        Adds(v, req'[v].batch) /\ req'[v].todo \subseteq req[v].todo
  BY <1>1 DEF ImportedBy, Adds
<1>. QED
  BY <1>2, <1>3, <1>4, NewRowKeepsPreviews

LEMMA StepPreview == PreviewInv /\ [Next]_vars => PreviewInv'
<1>. SUFFICES ASSUME PreviewInv, [Next]_vars PROVE PreviewInv'
  OBVIOUS
<1>1. LineInv'
  BY StepLine DEF PreviewInv
<1>2. CASE UNCHANGED vars
  BY <1>1, <1>2 DEF vars, PreviewInv, Previewed, LooksLike, HasRow, Adds
<1>. QED
  BY <1>1, <1>2, RequestsKeepPreviews, CommitKeepsPreviews, StageKeepsPreviews, CompleteKeepsPreviews,
     RevertKeepsPreviews, UserKeepsPreviews, UnstageKeepsPreviews, RestartKeepsPreviews,
     EnterKeepsPreviews, ImportRowKeepsPreviews DEF Next

(* What PreviewHolds says of a step.                                       *)
NewRowIsNew ==
  \A i \in DOMAIN tx' \ DOMAIN tx :
    LET b == tx'[i].batch IN
    b # Manual /\ tx'[i].key \in Known(Live) => tx'[i].key \in batch[b].unseen \/ b \in torn

LEMMA OnlyNewRows == PreviewInv /\ [Next]_vars => [NewRowIsNew]_vars
<1>. SUFFICES ASSUME PreviewInv, Next PROVE NewRowIsNew
  OBVIOUS
<1>1. ASSUME NEW w \in Workers, NEW failed \in BOOLEAN, ImportRow(w, failed)
      PROVE  NewRowIsNew
  <2>1. PICK b, n, new : ImportedBy(w, failed, b, n, new)
    BY <1>1, ImportRowDoes DEF PreviewInv
  <2>2. tx \in Seq(TxRow) /\ new \in TxRow /\ tx' = Append(tx, new)
    BY <2>1 DEF ImportedBy, PreviewInv, LineInv, ImportTypes
  <2>3. \A i \in DOMAIN tx' \ DOMAIN tx : tx'[i] = new
    BY <2>2, OneMore
  <2>4. ASSUME new.key \in Known(Live), b \notin torn
        PROVE  new.key \in batch[b].unseen
    <3>1. b \in DOMAIN batch /\ n \in req[w].todo /\ new.key = batch[b].file[n] /\ Adds(w, b)
      BY <2>1 DEF ImportedBy, Adds
    <3>2. Previewed(b) /\ Whole(b)
      BY <2>4, <3>1 DEF PreviewInv, LineInv
    <3>3. batch[b].staged /\ n \in batch[b].lines
      BY <3>1, <3>2 DEF Previewed
    <3>4. PICK i \in DOMAIN tx : LooksLike(i, b, n)
      BY <2>4, <3>1 DEF Known, Live, LooksLike
    <3>5. ~ HasRow(b, n)
      BY <3>1, <3>2 DEF HasRow, Whole, Commits, Adds, Committing
    <3>. QED
      BY <3>1, <3>2, <3>3, <3>4, <3>5 DEF Previewed
  <2>5. new.batch = b
    BY <2>1 DEF ImportedBy
  <2>. QED
    BY <2>3, <2>4, <2>5 DEF NewRowIsNew
<1>2. ASSUME NEW k \in Keys, Enter(k)
      PROVE  NewRowIsNew
  <2>. DEFINE new == [state |-> "live", key |-> k, batch |-> Manual, line |-> 1,
                      late |-> FALSE, touched |-> FALSE]
  <2>1. new \in TxRow /\ new.batch = Manual /\ tx' = Append(tx, new)
    BY <1>2 DEF Enter, TxRow, Manual
  <2>. HIDE DEF new
  <2>2. tx \in Seq(TxRow)
    BY DEF PreviewInv, LineInv, ImportTypes
  <2>3. \A i \in DOMAIN tx' \ DOMAIN tx : tx'[i] = new
    BY <2>1, <2>2, OneMore
  <2>. QED
    BY <2>1, <2>3 DEF NewRowIsNew
<1>3. ASSUME DOMAIN tx' = DOMAIN tx
      PROVE  NewRowIsNew
  BY <1>3 DEF NewRowIsNew
<1>4. ASSUME NEW w \in Workers, NEW i \in DOMAIN tx, RevertRow(w, i)
      PROVE  DOMAIN tx' = DOMAIN tx
  BY <1>4 DEF RevertRow
<1>5. ASSUME NEW i \in DOMAIN tx, Remove(i) \/ \E k \in Keys : Update(i, k)
      PROVE  DOMAIN tx' = DOMAIN tx
  BY <1>5 DEF Remove, Update
<1>6. ASSUME NEW w \in Workers, Complete(w)
      PROVE  DOMAIN tx' = DOMAIN tx
  BY <1>6 DEF Complete
<1>7. ASSUME NEW w \in Workers,
             \/ RefuseRow(w) \/ Unstage(w) \/ Stage(w) \/ EndRevert(w)
             \/ \E file \in Files, force \in BOOLEAN : Upload(w, file, force)
             \/ \E b \in DOMAIN batch : Revert(w, b)
             \/ \E b \in DOMAIN batch : \E excluded \in SUBSET batch[b].lines : Commit(w, b, excluded)
      PROVE  tx' = tx
  BY <1>7 DEF RefuseRow, Unstage, Stage, EndRevert, Upload, Revert, Commit
<1>8. Restart => tx' = tx
  BY DEF Restart
<1>. QED
  BY <1>1, <1>2, <1>3, <1>4, <1>5, <1>6, <1>7, <1>8 DEF Next

(* For any files: a commit adds a row that looks like a live one only if   *)
(* that one came in after the preview, or the batch was torn.              *)
THEOREM CommitsKeepToThePreview == Spec => PreviewHolds
  BY InitPreview, StepPreview, OnlyNewRows, PTL DEF Spec, PreviewHolds, NewRowIsNew

-----------------------------------------------------------------------------
(* The pages.  What is known of a wish depends on what was submitted       *)
(* before it ended, on what was lost, and on the requests on their way;    *)
(* and a flag that is set by confirmations only is set while one of them   *)
(* is.                                                                     *)
Forms == DOMAIN AllPages[page]

WishRow == [form : Forms, told : {"nothing", "done", "failed"}, done : Nat, tried : Nat,
            why : SUBSET {"hasty", "lost", "skipped"}]

Kinds == {"asked", "checked", "done", "refused", "reload", "lists"}

Packet == [wish : Nat, try : Nat, kind : Kinds, seen : Nat]

PageTypes ==
  /\ page \in DOMAIN AllPages
  /\ wishes \in Seq(WishRow) /\ current \in {0} \union DOMAIN wishes
  /\ busy \in [Flags -> Nat]
  /\ wire \subseteq Packet /\ \A r \in wire : r.wish \in DOMAIN wishes
  /\ version \in Nat /\ shown \in Nat /\ behind \in BOOLEAN

(* A form that is sent once at a time. *)
Exclusive(form) == ~ form.quick /\ form.key = "on"

(* What the table of the forms is relied on for. *)
GoodPage(P) ==
  \A f, g \in DOMAIN P :
    /\ P[f].flag \in Flags
    /\ Exclusive(P[f]) /\ P[f].flag = P[g].flag => Exclusive(P[g])

FlagsHold ==
  \A r, s \in wire :
    Exclusive(FormOf(r.wish)) /\ FormOf(r.wish).flag = FormOf(s.wish).flag =>
      r = s /\ busy[FormOf(r.wish).flag] # 0

Earned(n) == \A r \in wire : r.wish = n =>
  /\ r.kind \in {"done", "reload", "lists"} => wishes[n].done > 0
  /\ r.kind \in {"reload", "lists"} => FormOf(n).reloads

(* Of a wish that was not submitted twice at a time. *)
Calm(n) == "hasty" \notin wishes[n].why =>
  /\ \A r, s \in wire : r.wish = n /\ s.wish = n => r = s
  /\ \A r \in wire : r.wish = n /\ r.kind = "checked" => wishes[n].done = 0

(* Of a wish nothing went wrong with. *)
Smooth(n) == wishes[n].why = {} =>
  /\ \A r \in wire : r.wish = n /\ r.kind \in {"asked", "checked", "refused"} => wishes[n].done = 0
  /\ ~ Underway(n) /\ wishes[n].done > 0 => wishes[n].told = "done"

Told(n) ==
  /\ ~ Underway(n) /\ wishes[n].tried > 0 /\ wishes[n].told = "nothing" =>
       FormOf(n).silent /\ "lost" \in wishes[n].why
  /\ wishes[n].told = "done" /\ wishes[n].done = 0 => "skipped" \in wishes[n].why

Repeated(n) ==
  /\ "hasty" \in wishes[n].why => ~ Exclusive(FormOf(n))
  /\ wishes[n].done > 1 =>
       \/ FormOf(n).again = "more" /\ wishes[n].why # {}
       \/ FormOf(n).again = "checked" /\ "hasty" \in wishes[n].why

WishInv(n) == Earned(n) /\ Calm(n) /\ Smooth(n) /\ Told(n) /\ Repeated(n)

(* Lists that are newer than those on the screen are on their way. *)
Brings(r) ==
  /\ FormOf(r.wish).reloads
  /\ r.kind \in {"done", "reload"} \/ (r.kind = "lists" /\ r.seen = version)

ListInv ==
  /\ shown <= version /\ \A r \in wire : r.seen <= version
  /\ ~ behind /\ shown < version => \E r \in wire : Brings(r)

FormsInv == PageTypes /\ FlagsHold /\ ListInv /\ \A n \in DOMAIN wishes : WishInv(n)

(* Only the dialogs with details, or only the forms. *)
OneSide ==
  \/ page = "details" /\ wire = {} /\ wishes = <<>> /\ shown = version
  \/ page # "details" /\ dialog = NoTarget /\ obeyed = {} /\ FormsInv

PagesInv == OneSide /\ DetailsApart

-----------------------------------------------------------------------------
LEMMA FormsSuffice == FormsInv => SentAgainByHaste /\ DoneOnce /\ ToldTheEnd /\ ListsFollow
<1>. SUFFICES ASSUME FormsInv PROVE SentAgainByHaste /\ DoneOnce /\ ToldTheEnd /\ ListsFollow
  OBVIOUS
<1>1. SentAgainByHaste /\ DoneOnce
  BY DEF SentAgainByHaste, DoneOnce, FormsInv, WishInv, Repeated, Exclusive
<1>2. ASSUME wire = {}, NEW n \in DOMAIN wishes
      PROVE  /\ wishes[n].tried > 0 /\ wishes[n].told = "nothing" =>
                  FormOf(n).silent /\ "lost" \in wishes[n].why
             /\ wishes[n].told = "done" /\ wishes[n].done = 0 => "skipped" \in wishes[n].why
             /\ wishes[n].told = "failed" /\ wishes[n].done > 0 => wishes[n].why # {}
  <2>1. ~ Underway(n) /\ Told(n) /\ Smooth(n)
    BY <1>2 DEF Underway, FormsInv, WishInv
  <2>. QED
    BY <2>1 DEF Told, Smooth
<1>3. ListsFollow
  BY DEF ListsFollow, FormsInv, ListInv, PageTypes
<1>. QED
  BY <1>1, <1>2, <1>3 DEF ToldTheEnd

LEMMA PagesSuffice == PagesInv => PageTells
<1>. SUFFICES ASSUME PagesInv PROVE PageTells
  OBVIOUS
<1>1. CASE page = "details" /\ wire = {} /\ wishes = <<>> /\ shown = version
  <2>1. DOMAIN wishes = {}
    BY <1>1
  <2>. QED
    BY <1>1, <2>1 DEF PagesInv, PageTells, SentAgainByHaste, DoneOnce, ToldTheEnd, ListsFollow
<1>. QED
  BY <1>1, FormsSuffice DEF PagesInv, OneSide, PageTells

LEMMA InitPages == PgInit => PagesInv
<1>. SUFFICES ASSUME PgInit PROVE PagesInv
  OBVIOUS
<1>1. DetailsApart
  BY DEF PgInit, DetailsApart
<1>2. wishes = <<>> /\ DOMAIN wishes = {} /\ wire = {} /\ shown = 0 /\ version = 0
  BY DEF PgInit
<1>3. CASE page \in DOMAIN AllPages
  <2>1. PageTypes
    <3>1. wishes \in Seq(WishRow)
      BY <1>2
    <3>2. busy \in [Flags -> Nat] /\ current = 0 /\ behind = FALSE
      BY DEF PgInit
    <3>. QED
      BY <1>2, <1>3, <3>1, <3>2 DEF PageTypes
  <2>2. FormsInv
    BY <1>2, <2>1 DEF FormsInv, FlagsHold, ListInv
  <2>3. page # "details"
    BY <1>3 DEF AllPages
  <2>. QED
    BY <1>1, <2>2, <2>3 DEF PgInit, PagesInv, OneSide
<1>4. CASE page = "details"
  BY <1>1, <1>2, <1>4 DEF PagesInv, OneSide
<1>. QED
  BY <1>3, <1>4 DEF PgInit

(* The table, by the flag, the haste and the key of its forms. *)
Shape(form, flag, quick, key) == form.flag = flag /\ form.quick = quick /\ form.key = key

LEMMA Shapes ==
  ASSUME NEW again
  PROVE  /\ Shape(Form(again), "submit", TRUE, "on") /\ Shape(Second(again), "second", TRUE, "on")
         /\ Shape(Confirm(again), "delete", FALSE, "on") /\ Shape(Unguarded(again), "delete", TRUE, "on")
         /\ Shape(Button(again), "submit", FALSE, "on") /\ Shape(RowButton(again), "submit", FALSE, "row")
         /\ Shape(Alone(Form(again)), "submit", TRUE, "on")
  BY DEF Shape, Form, Second, Confirm, Unguarded, Button, RowButton, Alone

LEMMA OtherShapes ==
  /\ Shape(Debts.revert, "revert", FALSE, "on")
  /\ Shape(Recurrences.materialize, "second", FALSE, "row")
  /\ Shape(Notifications.markAll, "second", FALSE, "on")
  /\ Shape(Attachments.upload, "submit", FALSE, "on")
  /\ Shape(Import.upload, "submit", TRUE, "on") /\ Shape(Import.commit, "second", FALSE, "on")
  /\ Shape(Export.csv, "submit", FALSE, "form") /\ Shape(Export.backup, "submit", FALSE, "form")
  /\ Shape(Register.resend, "second", FALSE, "on")
  BY DEF Shape, Form, Second, Confirm, Unguarded, Button, RowButton, Preference, Alone, Debts,
         Recurrences, Notifications, Attachments, Import, Export, Register

LEMMA GoodPages ==
  ASSUME NEW p \in DOMAIN AllPages
  PROVE  GoodPage(AllPages[p])
<1>1. GoodPage(Accounts)
  <2>1. DOMAIN Accounts = {"create", "edit", "remove", "reconcile"}
    BY DEF Accounts
  <2>2. /\ Shape(Accounts["create"], "submit", TRUE, "on")
        /\ Shape(Accounts["edit"], "submit", TRUE, "on")
        /\ Shape(Accounts["remove"], "delete", FALSE, "on")
        /\ Shape(Accounts["reconcile"], "second", TRUE, "on")
    BY Shapes DEF Accounts
  <2>3. \A f \in DOMAIN Accounts :
          \/ Shape(Accounts[f], "submit", TRUE, "on") \/ Shape(Accounts[f], "delete", FALSE, "on")
          \/ Shape(Accounts[f], "second", TRUE, "on")
    BY <2>1, <2>2
  <2>. QED
    BY <2>3 DEF GoodPage, Shape, Exclusive, Flags
<1>2. GoodPage(Goals)
  <2>1. DOMAIN Goals = {"create", "edit", "remove", "contribute"}
    BY DEF Goals
  <2>2. /\ Shape(Goals["create"], "submit", TRUE, "on")
        /\ Shape(Goals["edit"], "submit", TRUE, "on")
        /\ Shape(Goals["remove"], "delete", FALSE, "on")
        /\ Shape(Goals["contribute"], "second", TRUE, "on")
    BY Shapes DEF Goals
  <2>3. \A f \in DOMAIN Goals :
          \/ Shape(Goals[f], "submit", TRUE, "on") \/ Shape(Goals[f], "delete", FALSE, "on")
          \/ Shape(Goals[f], "second", TRUE, "on")
    BY <2>1, <2>2
  <2>. QED
    BY <2>3 DEF GoodPage, Shape, Exclusive, Flags
<1>3. GoodPage(Debts)
  <2>1. DOMAIN Debts = {"create", "edit", "remove", "pay", "revert"}
    BY DEF Debts
  <2>2. /\ Shape(Debts["create"], "submit", TRUE, "on")
        /\ Shape(Debts["edit"], "submit", TRUE, "on")
        /\ Shape(Debts["remove"], "delete", FALSE, "on")
        /\ Shape(Debts["pay"], "second", TRUE, "on")
        /\ Shape(Debts["revert"], "revert", FALSE, "on")
    BY Shapes, OtherShapes DEF Debts
  <2>3. \A f \in DOMAIN Debts :
          \/ Shape(Debts[f], "submit", TRUE, "on") \/ Shape(Debts[f], "delete", FALSE, "on")
          \/ Shape(Debts[f], "second", TRUE, "on") \/ Shape(Debts[f], "revert", FALSE, "on")
    BY <2>1, <2>2
  <2>. QED
    BY <2>3 DEF GoodPage, Shape, Exclusive, Flags
<1>4. GoodPage(Budgets)
  <2>1. DOMAIN Budgets = {"create", "edit", "remove"}
    BY DEF Budgets
  <2>2. /\ Shape(Budgets["create"], "submit", TRUE, "on")
        /\ Shape(Budgets["edit"], "submit", TRUE, "on")
        /\ Shape(Budgets["remove"], "delete", FALSE, "on")
    BY Shapes DEF Budgets
  <2>3. \A f \in DOMAIN Budgets :
          \/ Shape(Budgets[f], "submit", TRUE, "on") \/ Shape(Budgets[f], "delete", FALSE, "on")
    BY <2>1, <2>2
  <2>. QED
    BY <2>3 DEF GoodPage, Shape, Exclusive, Flags
<1>5. GoodPage(Tags)
  <2>1. DOMAIN Tags = {"create", "remove"}
    BY DEF Tags
  <2>2. /\ Shape(Tags["create"], "submit", TRUE, "on")
        /\ Shape(Tags["remove"], "delete", FALSE, "on")
    BY Shapes DEF Tags
  <2>3. \A f \in DOMAIN Tags :
          \/ Shape(Tags[f], "submit", TRUE, "on") \/ Shape(Tags[f], "delete", FALSE, "on")
    BY <2>1, <2>2
  <2>. QED
    BY <2>3 DEF GoodPage, Shape, Exclusive, Flags
<1>6. GoodPage(Recurrences)
  <2>1. DOMAIN Recurrences = {"create", "remove", "materialize"}
    BY DEF Recurrences
  <2>2. /\ Shape(Recurrences["create"], "submit", TRUE, "on")
        /\ Shape(Recurrences["remove"], "delete", FALSE, "on")
        /\ Shape(Recurrences["materialize"], "second", FALSE, "row")
    BY Shapes, OtherShapes DEF Recurrences
  <2>3. \A f \in DOMAIN Recurrences :
          \/ Shape(Recurrences[f], "submit", TRUE, "on")
          \/ Shape(Recurrences[f], "delete", FALSE, "on")
          \/ Shape(Recurrences[f], "second", FALSE, "row")
    BY <2>1, <2>2
  <2>. QED
    BY <2>3 DEF GoodPage, Shape, Exclusive, Flags
<1>7. GoodPage(Notifications)
  <2>1. DOMAIN Notifications = {"mark", "markAll"}
    BY DEF Notifications
  <2>2. /\ Shape(Notifications["mark"], "submit", FALSE, "row")
        /\ Shape(Notifications["markAll"], "second", FALSE, "on")
    BY Shapes, OtherShapes DEF Notifications
  <2>3. \A f \in DOMAIN Notifications :
          \/ Shape(Notifications[f], "submit", FALSE, "row")
          \/ Shape(Notifications[f], "second", FALSE, "on")
    BY <2>1, <2>2
  <2>. QED
    BY <2>3 DEF GoodPage, Shape, Exclusive, Flags
<1>8. GoodPage(Attachments)
  <2>1. DOMAIN Attachments = {"upload", "remove"}
    BY DEF Attachments
  <2>2. /\ Shape(Attachments["upload"], "submit", FALSE, "on")
        /\ Shape(Attachments["remove"], "delete", TRUE, "on")
    BY Shapes, OtherShapes DEF Attachments
  <2>3. \A f \in DOMAIN Attachments :
          \/ Shape(Attachments[f], "submit", FALSE, "on")
          \/ Shape(Attachments[f], "delete", TRUE, "on")
    BY <2>1, <2>2
  <2>. QED
    BY <2>3 DEF GoodPage, Shape, Exclusive, Flags
<1>9. GoodPage(Searches)
  <2>1. DOMAIN Searches = {"save", "remove"}
    BY DEF Searches
  <2>2. /\ Shape(Searches["save"], "submit", FALSE, "on")
        /\ Shape(Searches["remove"], "delete", TRUE, "on")
    BY Shapes DEF Searches
  <2>3. \A f \in DOMAIN Searches :
          \/ Shape(Searches[f], "submit", FALSE, "on") \/ Shape(Searches[f], "delete", TRUE, "on")
    BY <2>1, <2>2
  <2>. QED
    BY <2>3 DEF GoodPage, Shape, Exclusive, Flags
<1>10. GoodPage(Import)
  <2>1. DOMAIN Import = {"upload", "commit"}
    BY DEF Import
  <2>2. /\ Shape(Import["upload"], "submit", TRUE, "on")
        /\ Shape(Import["commit"], "second", FALSE, "on")
    BY Shapes, OtherShapes DEF Import
  <2>3. \A f \in DOMAIN Import :
          \/ Shape(Import[f], "submit", TRUE, "on") \/ Shape(Import[f], "second", FALSE, "on")
    BY <2>1, <2>2
  <2>. QED
    BY <2>3 DEF GoodPage, Shape, Exclusive, Flags
<1>11. GoodPage(Export)
  <2>1. DOMAIN Export = {"csv", "backup"}
    BY DEF Export
  <2>2. /\ Shape(Export["csv"], "submit", FALSE, "form")
        /\ Shape(Export["backup"], "submit", FALSE, "form")
    BY Shapes, OtherShapes DEF Export
  <2>3. \A f \in DOMAIN Export :
          \/ Shape(Export[f], "submit", FALSE, "form")
    BY <2>1, <2>2
  <2>. QED
    BY <2>3 DEF GoodPage, Shape, Exclusive, Flags
<1>12. GoodPage(Register)
  <2>1. DOMAIN Register = {"register", "resend"}
    BY DEF Register
  <2>2. /\ Shape(Register["register"], "submit", TRUE, "on")
        /\ Shape(Register["resend"], "second", FALSE, "on")
    BY Shapes, OtherShapes DEF Register
  <2>3. \A f \in DOMAIN Register :
          \/ Shape(Register[f], "submit", TRUE, "on") \/ Shape(Register[f], "second", FALSE, "on")
    BY <2>1, <2>2
  <2>. QED
    BY <2>3 DEF GoodPage, Shape, Exclusive, Flags
<1>13. GoodPage(Preferences)
  <2>1. DOMAIN Preferences = {"profile", "setPin", "removePin", "unlink", "enablePush", "removeDevice", "deleteAccount", "testPush"}
    BY DEF Preferences
  <2>2. /\ Shape(Preferences["profile"], "submit", TRUE, "form")
        /\ Shape(Preferences["setPin"], "submit", TRUE, "form")
        /\ Shape(Preferences["removePin"], "submit", FALSE, "form")
        /\ Shape(Preferences["unlink"], "submit", FALSE, "form")
        /\ Shape(Preferences["enablePush"], "submit", FALSE, "form")
        /\ Shape(Preferences["removeDevice"], "submit", FALSE, "row")
        /\ Shape(Preferences["deleteAccount"], "submit", FALSE, "form")
        /\ Shape(Preferences["testPush"], "submit", FALSE, "form")
    BY DEF Shape, Form, Button, Preference, Alone, Preferences
  <2>3. \A f \in DOMAIN Preferences :
          \/ Shape(Preferences[f], "submit", TRUE, "form")
          \/ Shape(Preferences[f], "submit", FALSE, "form")
          \/ Shape(Preferences[f], "submit", FALSE, "row")
    BY <2>1, <2>2
  <2>. QED
    BY <2>3 DEF GoodPage, Shape, Exclusive, Flags
<1>14. ASSUME NEW P, NEW name, DOMAIN P = {name}, P[name].flag \in Flags
      PROVE  GoodPage(P)
  BY <1>14 DEF GoodPage
<1>15. /\ GoodPage(Scenario) /\ GoodPage(Login) /\ GoodPage(Forgot) /\ GoodPage(Reset)
      /\ GoodPage(OAuthComplete) /\ GoodPage(Verify) /\ GoodPage(OAuthLogin)
  <2>1. /\ DOMAIN Scenario = {"scenario"} /\ DOMAIN Login = {"login"} /\ DOMAIN Forgot = {"forgot"}
        /\ DOMAIN Reset = {"reset"} /\ DOMAIN OAuthComplete = {"complete"}
        /\ DOMAIN Verify = {"verify"} /\ DOMAIN OAuthLogin = {"exchange"}
    BY DEF Scenario, Login, Forgot, Reset, OAuthComplete, Verify, OAuthLogin
  <2>2. /\ Scenario["scenario"].flag = "submit" /\ Login["login"].flag = "submit"
        /\ Forgot["forgot"].flag = "submit" /\ Reset["reset"].flag = "submit"
        /\ OAuthComplete["complete"].flag = "submit" /\ Verify["verify"].flag = "submit"
        /\ OAuthLogin["exchange"].flag = "submit"
    BY DEF Form, Button, Alone, Scenario, Login, Forgot, Reset, OAuthComplete, Verify, OAuthLogin
  <2>. QED
    BY <1>14, <2>1, <2>2 DEF Flags
<1>. QED
  BY <1>1, <1>2, <1>3, <1>4, <1>5, <1>6, <1>7, <1>8, <1>9, <1>10, <1>11, <1>12, <1>13, <1>15 DEF AllPages, CategoryForms

LEMMA TheTable ==
  ASSUME PageTypes, NEW n \in DOMAIN wishes
  PROVE  /\ FormOf(n).flag \in Flags
         /\ \A m \in DOMAIN wishes : Exclusive(FormOf(n)) /\ FormOf(n).flag = FormOf(m).flag =>
              Exclusive(FormOf(m))
<1>1. GoodPage(AllPages[page])
  BY GoodPages DEF PageTypes
<1>2. \A m \in DOMAIN wishes : wishes[m] \in WishRow
  BY DEF PageTypes
<1>3. \A m \in DOMAIN wishes : wishes[m].form \in DOMAIN AllPages[page]
  BY <1>2 DEF WishRow, Forms
<1>. QED
  BY <1>1, <1>3 DEF GoodPage, FormOf

(* What changes of one wish, and of its form nothing. *)
LEMMA OneWish ==
  ASSUME PageTypes, NEW n \in DOMAIN wishes, NEW w \in WishRow, w.form = wishes[n].form,
         wishes' = [wishes EXCEPT ![n] = w], page' = page
  PROVE  /\ wishes' \in Seq(WishRow) /\ DOMAIN wishes' = DOMAIN wishes /\ wishes'[n] = w
         /\ \A m \in DOMAIN wishes : m # n => wishes'[m] = wishes[m]
         /\ \A m \in DOMAIN wishes : FormOf(m)' = FormOf(m)
<1>1. \A m \in DOMAIN wishes : wishes'[m] = IF m = n THEN w ELSE wishes[m]
  OBVIOUS
<1>2. wishes' = [m \in DOMAIN wishes |-> wishes'[m]]
  OBVIOUS
<1>3. \A m \in DOMAIN wishes : wishes'[m] \in WishRow
  BY <1>1 DEF PageTypes
<1>4. wishes' \in Seq(WishRow) /\ DOMAIN wishes' = DOMAIN wishes
  BY <1>2, <1>3, SameLength DEF PageTypes
<1>5. \A m \in DOMAIN wishes : wishes'[m].form = wishes[m].form
  BY <1>1
<1>6. \A m \in DOMAIN wishes : FormOf(m)' = FormOf(m)
  BY <1>5 DEF FormOf
<1>. QED
  BY <1>1, <1>4, <1>6

LEMMA OtherWish ==
  ASSUME NEW n \in DOMAIN wishes, WishInv(n), wishes'[n] = wishes[n], FormOf(n)' = FormOf(n),
         \A r \in wire : r.wish = n => r \in wire', \A r \in wire' : r.wish = n => r \in wire
  PROVE  WishInv(n)'
<1>1. Underway(n)' <=> Underway(n)
  BY DEF Underway
<1>2. Earned(n)' /\ Calm(n)'
  BY DEF WishInv, Earned, Calm
<1>3. Smooth(n)'
  BY <1>1 DEF WishInv, Smooth
<1>4. Told(n)' /\ Repeated(n)'
  BY <1>1 DEF WishInv, Told, Repeated
<1>. QED
  BY <1>2, <1>3, <1>4 DEF WishInv

(* A request is answered, or lost, and the page tells it. *)
LEMMA MessageLeaves ==
  ASSUME FormsInv, NEW r \in wire, wire' = wire \ {r}, page' = page,
         NEW w \in WishRow, wishes' = [wishes EXCEPT ![r.wish] = w],
         w.form = wishes[r.wish].form, w.done = wishes[r.wish].done, w.tried = wishes[r.wish].tried,
         \/ w.why = wishes[r.wish].why /\ w.told = "done" /\ r.kind \in {"done", "lists"}
         \/ w.why = wishes[r.wish].why /\ w.told = "failed" /\ r.kind = "refused"
         \/ /\ w.why = wishes[r.wish].why \union {"lost"}
            /\ \/ w.told = "failed"
               \/ w.told = wishes[r.wish].told /\ FormOf(r.wish).silent,
         Clears(r.wish), current' \in {0, current},
         version' \in Nat, shown' \in Nat, behind' \in BOOLEAN, ListInv'
  PROVE  FormsInv'
<1>. DEFINE n == r.wish
<1>1. n \in DOMAIN wishes /\ PageTypes /\ WishInv(n) /\ FlagsHold
  BY DEF FormsInv, PageTypes
<1>2. /\ wishes' \in Seq(WishRow) /\ DOMAIN wishes' = DOMAIN wishes /\ wishes'[n] = w
      /\ \A m \in DOMAIN wishes : m # n => wishes'[m] = wishes[m]
      /\ \A m \in DOMAIN wishes : FormOf(m)' = FormOf(m)
  BY <1>1, OneWish
<1>3. FormOf(n).flag \in Flags /\ busy' = [busy EXCEPT ![FormOf(n).flag] = 0]
  BY <1>1, TheTable DEF Clears
<1>. HIDE DEF n
<1>4. PageTypes'
  <2>1. wishes' \in Seq(WishRow)'
    BY <1>2 DEF WishRow, Forms
  <2>2. busy' \in [Flags -> Nat]
    BY <1>1, <1>3 DEF PageTypes
  <2>. QED
    BY <1>1, <1>2, <2>1, <2>2 DEF PageTypes
<1>5. FlagsHold'
  <2>1. SUFFICES ASSUME NEW p \in wire', NEW q \in wire', Exclusive(FormOf(p.wish)),
                        FormOf(p.wish).flag = FormOf(q.wish).flag
                 PROVE  p = q /\ busy'[FormOf(p.wish).flag] # 0
    BY <1>1, <1>2 DEF FlagsHold, PageTypes
  <2>2. p = q /\ busy[FormOf(p.wish).flag] # 0
    BY <1>1, <2>1 DEF FlagsHold
  <2>3. FormOf(p.wish).flag # FormOf(n).flag
    BY <1>1, <2>1 DEF FlagsHold, n
  <2>4. FormOf(p.wish).flag \in Flags
    BY <1>1, TheTable DEF PageTypes
  <2>. QED
    BY <1>1, <1>3, <2>2, <2>3, <2>4 DEF PageTypes
<1>6. WishInv(n)'
  <2>1. w.done \in Nat
    BY DEF WishRow
  <2>2. Earned(n)'
    BY <1>1, <1>2 DEF WishInv, Earned, n
  <2>3. Calm(n)'
    BY <1>1, <1>2 DEF WishInv, Calm, n
  <2>4. Smooth(n)'
    BY <1>1, <1>2, <2>1 DEF WishInv, Smooth, Underway, n
  <2>5. Told(n)'
    <3>1. w.told = "done" /\ w.done = 0 => "skipped" \in w.why
      BY <1>1, <2>1 DEF WishInv, Told, Earned, n
    <3>2. w.told = "nothing" => FormOf(n).silent /\ "lost" \in w.why
      BY DEF n
    <3>. QED
      BY <1>1, <1>2, <3>1, <3>2 DEF Told
  <2>6. Repeated(n)'
    BY <1>1, <1>2 DEF WishInv, Repeated, n
  <2>. QED
    BY <2>2, <2>3, <2>4, <2>5, <2>6 DEF WishInv
<1>7. ASSUME NEW m \in DOMAIN wishes, m # n PROVE WishInv(m)'
  <2>1. WishInv(m)
    BY DEF FormsInv
  <2>. QED
    BY <1>2, <1>7, <2>1, OtherWish DEF n
<1>. QED
  BY <1>2, <1>4, <1>5, <1>6, <1>7 DEF FormsInv

(* A request goes a step further, at the server or back to the page.       *)
LEMMA MessageAdvances ==
  ASSUME FormsInv, NEW r \in wire, NEW s \in Packet, s.wish = r.wish,
         wire' = (wire \ {r}) \union {s}, page' = page, busy' = busy,
         NEW w \in WishRow, wishes' = [wishes EXCEPT ![r.wish] = w],
         w.form = wishes[r.wish].form, w.told = wishes[r.wish].told,
         w.tried = wishes[r.wish].tried, w.why = wishes[r.wish].why,
         \/ w.done = wishes[r.wish].done
         \/ /\ w.done = wishes[r.wish].done + 1 /\ s.kind = "done"
            /\ wishes[r.wish].done > 0 =>
                 \/ FormOf(r.wish).again = "more" /\ r.kind = "asked"
                 \/ FormOf(r.wish).again = "checked" /\ r.kind = "checked",
         s.kind \in {"done", "reload", "lists"} => w.done > 0,
         s.kind \in {"reload", "lists"} => FormOf(r.wish).reloads,
         s.kind = "checked" => w.done = 0,
         s.kind \in {"asked", "checked", "refused"} => r.kind \in {"asked", "checked", "refused"},
         current' \in {0, current},
         version' \in Nat, shown' \in Nat, behind' \in BOOLEAN, ListInv'
  PROVE  FormsInv'
<1>. DEFINE n == r.wish
<1>1. n \in DOMAIN wishes /\ PageTypes /\ WishInv(n) /\ FlagsHold
  BY DEF FormsInv, PageTypes
<1>2. /\ wishes' \in Seq(WishRow) /\ DOMAIN wishes' = DOMAIN wishes /\ wishes'[n] = w
      /\ \A m \in DOMAIN wishes : m # n => wishes'[m] = wishes[m]
      /\ \A m \in DOMAIN wishes : FormOf(m)' = FormOf(m)
  BY <1>1, OneWish
<1>. HIDE DEF n
<1>3. PageTypes'
  <2>1. wishes' \in Seq(WishRow)'
    BY <1>2 DEF WishRow, Forms
  <2>. QED
    BY <1>1, <1>2, <2>1 DEF PageTypes, n
<1>4. FlagsHold'
  <2>1. SUFFICES ASSUME NEW p \in wire', NEW q \in wire', Exclusive(FormOf(p.wish)),
                        FormOf(p.wish).flag = FormOf(q.wish).flag
                 PROVE  p = q /\ busy'[FormOf(p.wish).flag] # 0
    BY <1>1, <1>2 DEF FlagsHold, PageTypes, n
  <2>2. CASE p = s /\ q = s
    BY <1>1, <2>1, <2>2 DEF FlagsHold
  <2>3. CASE p = s /\ q # s
    BY <1>1, <2>1, <2>3 DEF FlagsHold
  <2>4. CASE p # s /\ q = s
    BY <1>1, <2>1, <2>4 DEF FlagsHold
  <2>5. CASE p # s /\ q # s
    BY <1>1, <2>1, <2>5 DEF FlagsHold
  <2>. QED
    BY <2>2, <2>3, <2>4, <2>5
<1>5. WishInv(n)'
  <2>1. w.done \in Nat /\ wishes[n].done \in Nat
    <3>1. wishes[n] \in WishRow
      BY <1>1 DEF PageTypes
    <3>. QED
      BY <3>1 DEF WishRow
  <2>2. Earned(n)'
    BY <1>1, <1>2, <2>1 DEF WishInv, Earned, n
  <2>3. Calm(n)'
    <3>1. SUFFICES ASSUME "hasty" \notin w.why
                   PROVE  /\ \A p, q \in wire' : p.wish = n /\ q.wish = n => p = q
                          /\ \A p \in wire' : p.wish = n /\ p.kind = "checked" => w.done = 0
      BY <1>2 DEF Calm
    <3>2. \A p \in wire' : p.wish = n => p = s
      BY <1>1, <3>1 DEF WishInv, Calm, n
    <3>. QED
      BY <3>2
  <2>4. Smooth(n)'
    <3>1. SUFFICES ASSUME w.why = {}
                   PROVE  \A p \in wire' : p.wish = n /\ p.kind \in {"asked", "checked", "refused"} =>
                            w.done = 0
      BY <1>2 DEF Smooth, Underway, n
    <3>2. \A p \in wire' : p.wish = n => p = s
      BY <1>1, <3>1 DEF WishInv, Calm, n
    <3>3. s.kind \in {"asked", "checked", "refused"} => w.done = 0
      BY <1>1, <3>1 DEF WishInv, Smooth, n
    <3>. QED
      BY <3>2, <3>3
  <2>5. Told(n)'
    BY <1>1, <1>2, <2>1 DEF WishInv, Told, Underway, n
  <2>6. Repeated(n)'
    <3>1. ASSUME w.done > 1
          PROVE  \/ FormOf(n).again = "more" /\ w.why # {}
                 \/ FormOf(n).again = "checked" /\ "hasty" \in w.why
      <4>1. CASE w.done = wishes[n].done
        BY <1>1, <3>1, <4>1 DEF WishInv, Repeated, n
      <4>2. CASE w.done # wishes[n].done
        BY <1>1, <2>1, <3>1, <4>2 DEF WishInv, Smooth, Calm, n
      <4>. QED
        BY <4>1, <4>2
    <3>2. "hasty" \in w.why => ~ Exclusive(FormOf(n))
      BY <1>1 DEF WishInv, Repeated, n
    <3>. QED
      BY <1>1, <1>2, <3>1, <3>2 DEF Repeated
  <2>. QED
    BY <2>2, <2>3, <2>4, <2>5, <2>6 DEF WishInv
<1>6. ASSUME NEW m \in DOMAIN wishes, m # n PROVE WishInv(m)'
  <2>1. WishInv(m)
    BY DEF FormsInv
  <2>. QED
    BY <1>2, <1>6, <2>1, OtherWish DEF n
<1>. QED
  BY <1>2, <1>3, <1>4, <1>5, <1>6 DEF FormsInv

(* What reaches the screen follows from the requests that bring lists.     *)
LEMMA ListsGoOn ==
  ASSUME FormsInv, UNCHANGED <<version, shown, behind>>,
         \A r \in wire' : r.seen <= version,
         \A r \in wire : Brings(r) => \E s \in wire' : Brings(s)'
  PROVE  ListInv'
  BY DEF FormsInv, ListInv

LEMMA StillBrings ==
  ASSUME FormsInv, version' = version, NEW r \in wire, FormOf(r.wish)' = FormOf(r.wish), Brings(r)
  PROVE  Brings(r)'
  BY DEF Brings

LEMMA OpenKeeps ==
  ASSUME FormsInv, NEW f \in Forms, Open(f)
  PROVE  FormsInv'
<1>1. PICK k \in Nat : k = Len(wishes) + 1
  <2>1. Len(wishes) + 1 \in Nat
    BY DEF FormsInv, PageTypes
  <2>. QED
    BY <2>1
<1>2. /\ wishes' = Append(wishes, Wish(f)) /\ current' = k
      /\ UNCHANGED <<page, busy, wire, version, shown, behind>>
  BY <1>1 DEF Open
<1>3. Wish(f) \in WishRow
  BY DEF Wish, WishRow
<1>4. /\ wishes' \in Seq(WishRow) /\ DOMAIN wishes' = DOMAIN wishes \union {k} /\ wishes'[k] = Wish(f)
      /\ \A m \in DOMAIN wishes : m # k /\ wishes'[m] = wishes[m]
  BY <1>1, <1>2, <1>3, AppendProperties DEF FormsInv, PageTypes
<1>5. \A m \in DOMAIN wishes : FormOf(m)' = FormOf(m)
  BY <1>2, <1>4 DEF FormOf
<1>6. PageTypes'
  <2>1. wishes' \in Seq(WishRow)'
    BY <1>2, <1>4 DEF WishRow, Forms
  <2>. QED
    BY <1>2, <1>4, <2>1 DEF FormsInv, PageTypes
<1>7. FlagsHold'
  BY <1>2, <1>5 DEF FormsInv, PageTypes, FlagsHold
<1>8. ListInv'
  <2>1. \A r \in wire : Brings(r) => Brings(r)'
    BY <1>2, <1>5, StillBrings DEF FormsInv, PageTypes
  <2>. QED
    BY <1>2, <2>1, ListsGoOn DEF FormsInv, ListInv
<1>9. WishInv(k)'
  <2>1. \A r \in wire' : r.wish # k
    BY <1>2, <1>4 DEF FormsInv, PageTypes
  <2>2. /\ wishes'[k].done = 0 /\ wishes'[k].tried = 0 /\ wishes'[k].told = "nothing"
        /\ wishes'[k].why = {}
    BY <1>4 DEF Wish
  <2>. QED
    BY <2>1, <2>2 DEF WishInv, Earned, Calm, Smooth, Told, Repeated, Underway
<1>10. ASSUME NEW m \in DOMAIN wishes PROVE WishInv(m)'
  BY <1>2, <1>4, <1>5, OtherWish DEF FormsInv
<1>. QED
  BY <1>4, <1>6, <1>7, <1>8, <1>9, <1>10 DEF FormsInv

(* The dialog is left, or opened for what has failed. *)
LEMMA DialogKeeps ==
  ASSUME FormsInv, current' \in {0} \union DOMAIN wishes,
         UNCHANGED <<page, wishes, busy, wire, version, shown, behind>>
  PROVE  FormsInv'
<1>1. \A m : FormOf(m)' = FormOf(m)
  BY DEF FormOf
<1>2. PageTypes'
  <2>1. wishes' \in Seq(WishRow)'
    BY DEF FormsInv, PageTypes, WishRow, Forms
  <2>. QED
    BY <2>1 DEF FormsInv, PageTypes
<1>3. FlagsHold'
  BY <1>1 DEF FormsInv, FlagsHold
<1>4. ListInv'
  BY <1>1, ListsGoOn, StillBrings DEF FormsInv, ListInv
<1>5. ASSUME NEW m \in DOMAIN wishes PROVE WishInv(m)'
  BY <1>1, OtherWish DEF FormsInv
<1>. QED
  BY <1>2, <1>3, <1>4, <1>5 DEF FormsInv

(* A button that can be clicked has no request of its flag on its way,     *)
(* unless the flag lets others through.                                    *)
LEMMA NoneUnderway ==
  ASSUME FormsInv, NEW n \in DOMAIN wishes, FormOf(n).quick \/ Enabled(n),
         NEW r \in wire, FormOf(r.wish).flag = FormOf(n).flag
  PROVE  ~ Exclusive(FormOf(n)) /\ ~ Exclusive(FormOf(r.wish))
<1>. SUFFICES ASSUME Exclusive(FormOf(n)) \/ Exclusive(FormOf(r.wish)) PROVE FALSE
  OBVIOUS
<1>1. r.wish \in DOMAIN wishes
  BY DEF FormsInv, PageTypes
<1>2. Exclusive(FormOf(n)) /\ Exclusive(FormOf(r.wish))
  BY <1>1, TheTable DEF FormsInv
<1>3. busy[FormOf(n).flag] # 0
  BY <1>2 DEF FormsInv, FlagsHold
<1>. QED
  BY <1>2, <1>3 DEF Enabled, Exclusive

LEMMA PressKeeps ==
  ASSUME FormsInv, Press
  PROVE  FormsInv'
<1>1. PICK n \in DOMAIN wishes : n = current
  BY DEF FormsInv, PageTypes, Press
<1>2. PICK w : w = [wishes[n] EXCEPT !.tried = @ + 1,
                                     !.why = @ \union IF Underway(n) THEN {"hasty"} ELSE {}]
  OBVIOUS
<1>3. wishes[n] \in WishRow
  BY DEF FormsInv, PageTypes
<1>4. /\ w \in WishRow /\ w.form = wishes[n].form /\ w.done = wishes[n].done
      /\ w.told = wishes[n].told /\ w.tried = wishes[n].tried + 1
      /\ w.why = wishes[n].why \union IF Underway(n) THEN {"hasty"} ELSE {}
  <2>1. wishes[n].tried + 1 \in Nat
    BY <1>3 DEF WishRow
  <2>2. (wishes[n].why \union IF Underway(n) THEN {"hasty"} ELSE {})
          \in SUBSET {"hasty", "lost", "skipped"}
    BY <1>3 DEF WishRow
  <2>3. PICK tried \in Nat : tried = wishes[n].tried + 1
    BY <2>1
  <2>4. PICK why \in SUBSET {"hasty", "lost", "skipped"} :
          why = wishes[n].why \union IF Underway(n) THEN {"hasty"} ELSE {}
    BY <2>2
  <2>5. w = [wishes[n] EXCEPT !.tried = tried, !.why = why]
    BY <1>2, <2>3, <2>4
  <2>6. /\ w \in WishRow /\ w.form = wishes[n].form /\ w.done = wishes[n].done
        /\ w.told = wishes[n].told /\ w.tried = tried /\ w.why = why
    BY <1>3, <2>5 DEF WishRow
  <2>. QED
    BY <2>3, <2>4, <2>6
<1>5. /\ wishes' = [wishes EXCEPT ![n] = w] /\ n # 0 /\ (FormOf(n).quick \/ Enabled(n))
      /\ wishes[n].told # "done" /\ busy' = [busy EXCEPT ![FormOf(n).flag] = n]
      /\ UNCHANGED <<page, current, version, shown, behind>>
  BY <1>1, <1>2 DEF Press
<1>6. PICK s : s = Message(n)
  OBVIOUS
<1>7. wire' = wire \union {s}
  BY <1>1, <1>6 DEF Press
<1>8. s \in Packet /\ s.wish = n /\ s.kind = "asked" /\ s.seen = 0
  <2>1. n \in Nat /\ wishes[n].tried \in Nat
    <3>1. wishes \in Seq(WishRow)
      BY DEF FormsInv, PageTypes
    <3>2. n \in Nat
      BY <3>1
    <3>. QED
      BY <1>3, <3>2 DEF WishRow
  <2>. QED
    BY <1>6, <2>1 DEF Message, Packet, Kinds
<1>9. PageTypes /\ WishInv(n)
  BY DEF FormsInv
<1>10. /\ wishes' \in Seq(WishRow) /\ DOMAIN wishes' = DOMAIN wishes /\ wishes'[n] = w
       /\ \A m \in DOMAIN wishes : m # n => wishes'[m] = wishes[m]
       /\ \A m \in DOMAIN wishes : FormOf(m)' = FormOf(m)
  BY <1>4, <1>5, <1>9, OneWish
<1>11. FormOf(n).flag \in Flags
  BY <1>9, TheTable
<1>12. PageTypes'
  <2>1. wishes' \in Seq(WishRow)'
    BY <1>5, <1>10 DEF WishRow, Forms
  <2>2. busy' \in [Flags -> Nat]
    BY <1>5, <1>9, <1>11 DEF PageTypes
  <2>. QED
    BY <1>5, <1>7, <1>8, <1>9, <1>10, <2>1, <2>2 DEF PageTypes
<1>13. FlagsHold'
  <2>1. SUFFICES ASSUME NEW p \in wire', NEW q \in wire', Exclusive(FormOf(p.wish)),
                        FormOf(p.wish).flag = FormOf(q.wish).flag
                 PROVE  p = q /\ busy'[FormOf(p.wish).flag] # 0
    BY <1>7, <1>8, <1>9, <1>10 DEF FlagsHold, PageTypes
  <2>2. CASE p = s
    BY <1>5, <1>7, <1>8, <1>9, <1>11, <2>1, <2>2, NoneUnderway DEF PageTypes
  <2>3. CASE p # s /\ q = s
    BY <1>5, <1>7, <1>8, <2>1, <2>3, NoneUnderway
  <2>4. CASE p # s /\ q # s
    <3>1. p = q /\ busy[FormOf(p.wish).flag] # 0
      BY <1>7, <2>1, <2>4 DEF FormsInv, FlagsHold
    <3>. QED
      BY <1>5, <1>9, <1>11, <3>1 DEF PageTypes
  <2>. QED
    BY <2>2, <2>3, <2>4
<1>14. ListInv'
  <2>1. \A r \in wire : Brings(r) => Brings(r)' /\ r \in wire'
    BY <1>5, <1>7, <1>10, StillBrings DEF FormsInv, PageTypes
  <2>. QED
    BY <1>5, <1>7, <1>8, <1>9, <2>1, ListsGoOn DEF FormsInv, ListInv, PageTypes
<1>15. WishInv(n)'
  <2>1. Underway(n)'
    BY <1>7, <1>8 DEF Underway
  <2>2. Earned(n)'
    BY <1>4, <1>7, <1>8, <1>9, <1>10 DEF WishInv, Earned
  <2>3. Calm(n)'
    BY <1>4, <1>7, <1>8, <1>10 DEF Calm, Underway
  <2>4. Smooth(n)'
    <3>1. w.done \in Nat
      BY <1>4 DEF WishRow
    <3>2. w.why = {} => w.done = 0
      BY <1>4, <1>5, <1>9, <3>1 DEF WishInv, Smooth
    <3>. QED
      BY <1>10, <2>1, <3>2 DEF Smooth
  <2>5. Told(n)'
    BY <1>4, <1>5, <1>10, <2>1 DEF Told
  <2>6. Repeated(n)'
    <3>1. Underway(n) => ~ Exclusive(FormOf(n))
      BY <1>5, NoneUnderway DEF Underway
    <3>. QED
      BY <1>4, <1>9, <1>10, <3>1 DEF WishInv, Repeated
  <2>. QED
    BY <2>2, <2>3, <2>4, <2>5, <2>6 DEF WishInv
<1>16. ASSUME NEW m \in DOMAIN wishes, m # n PROVE WishInv(m)'
  BY <1>7, <1>8, <1>10, <1>16, OtherWish DEF FormsInv
<1>. QED
  BY <1>10, <1>12, <1>13, <1>14, <1>15, <1>16 DEF FormsInv

LEMMA SkipKeeps ==
  ASSUME FormsInv, Skip
  PROVE  FormsInv'
<1>1. PICK n \in DOMAIN wishes : n = current
  BY DEF FormsInv, PageTypes, Skip
<1>2. PICK w : w = [wishes[n] EXCEPT !.tried = @ + 1, !.told = "done", !.why = @ \union {"skipped"}]
  OBVIOUS
<1>3. wishes[n] \in WishRow
  BY DEF FormsInv, PageTypes
<1>4. /\ w \in WishRow /\ w.form = wishes[n].form /\ w.done = wishes[n].done
      /\ w.told = "done" /\ w.why = wishes[n].why \union {"skipped"}
  <2>1. PICK tried \in Nat : tried = wishes[n].tried + 1
    BY <1>3 DEF WishRow
  <2>2. PICK why \in SUBSET {"hasty", "lost", "skipped"} : why = wishes[n].why \union {"skipped"}
    BY <1>3 DEF WishRow
  <2>3. w = [wishes[n] EXCEPT !.tried = tried, !.told = "done", !.why = why]
    BY <1>2, <2>1, <2>2
  <2>4. /\ w \in WishRow /\ w.form = wishes[n].form /\ w.done = wishes[n].done
        /\ w.told = "done" /\ w.why = why
    BY <1>3, <2>3 DEF WishRow
  <2>. QED
    BY <2>2, <2>4
<1>5. /\ wishes' = [wishes EXCEPT ![n] = w] /\ (FormOf(n).quick \/ Enabled(n))
      /\ busy' = [busy EXCEPT ![FormOf(n).flag] = 0]
      /\ UNCHANGED <<page, current, wire, version, shown, behind>>
  BY <1>1, <1>2 DEF Skip, Clears
<1>6. PageTypes /\ WishInv(n)
  BY DEF FormsInv
<1>7. /\ wishes' \in Seq(WishRow) /\ DOMAIN wishes' = DOMAIN wishes /\ wishes'[n] = w
      /\ \A m \in DOMAIN wishes : m # n => wishes'[m] = wishes[m]
      /\ \A m \in DOMAIN wishes : FormOf(m)' = FormOf(m)
  BY <1>4, <1>5, <1>6, OneWish
<1>8. FormOf(n).flag \in Flags
  BY <1>6, TheTable
<1>9. PageTypes'
  <2>1. wishes' \in Seq(WishRow)'
    BY <1>5, <1>7 DEF WishRow, Forms
  <2>2. busy' \in [Flags -> Nat]
    BY <1>5, <1>6, <1>8 DEF PageTypes
  <2>. QED
    BY <1>5, <1>6, <1>7, <2>1, <2>2 DEF PageTypes
<1>10. FlagsHold'
  <2>1. SUFFICES ASSUME NEW p \in wire, NEW q \in wire, Exclusive(FormOf(p.wish)),
                        FormOf(p.wish).flag = FormOf(q.wish).flag
                 PROVE  p = q /\ busy'[FormOf(p.wish).flag] # 0
    BY <1>5, <1>6, <1>7 DEF FlagsHold, PageTypes
  <2>2. p = q /\ busy[FormOf(p.wish).flag] # 0
    BY <2>1 DEF FormsInv, FlagsHold
  <2>3. FormOf(p.wish).flag # FormOf(n).flag
    BY <1>5, <2>1, NoneUnderway
  <2>. QED
    BY <1>5, <1>6, <1>8, <2>2, <2>3 DEF PageTypes
<1>11. ListInv'
  <2>1. \A r \in wire : Brings(r) => Brings(r)'
    BY <1>5, <1>7, StillBrings DEF FormsInv, PageTypes
  <2>. QED
    BY <1>5, <2>1, ListsGoOn DEF FormsInv, ListInv
<1>12. WishInv(n)'
  <2>1. Earned(n)' /\ Calm(n)'
    BY <1>4, <1>5, <1>6, <1>7 DEF WishInv, Earned, Calm
  <2>2. Smooth(n)' /\ Told(n)'
    BY <1>4, <1>7 DEF Smooth, Told
  <2>3. Repeated(n)'
    BY <1>4, <1>6, <1>7 DEF WishInv, Repeated
  <2>. QED
    BY <2>1, <2>2, <2>3 DEF WishInv
<1>13. ASSUME NEW m \in DOMAIN wishes, m # n PROVE WishInv(m)'
  BY <1>5, <1>7, <1>13, OtherWish DEF FormsInv
<1>. QED
  BY <1>7, <1>9, <1>10, <1>11, <1>12, <1>13 DEF FormsInv

(* What a request becomes. *)
LEMMA BecameKind ==
  ASSUME NEW r \in Packet, NEW kind \in Kinds, NEW s, s = [r EXCEPT !.kind = kind]
  PROVE  s \in Packet /\ s.wish = r.wish /\ s.kind = kind /\ s.seen = r.seen
  BY DEF Packet

LEMMA NoChange ==
  ASSUME FormsInv, NEW n \in DOMAIN wishes
  PROVE  wishes[n] \in WishRow /\ [wishes EXCEPT ![n] = wishes[n]] = wishes
  BY DEF FormsInv, PageTypes

(* The lists on the screen, and those at the server, stay. *)
LEMMA ListsStay ==
  ASSUME FormsInv, UNCHANGED <<page, version, shown, behind>>, NEW r \in wire, NEW S,
         wire' = (wire \ {r}) \union S, \A s \in S : s.seen <= version,
         \A n \in DOMAIN wishes : FormOf(n)' = FormOf(n),
         Brings(r) => \E s \in S : Brings(s)'
  PROVE  ListInv'
<1>1. ASSUME NEW x \in wire, Brings(x), x # r PROVE x \in wire' /\ Brings(x)'
  BY <1>1, StillBrings DEF FormsInv, PageTypes
<1>2. \A x \in wire : Brings(x) => \E s \in wire' : Brings(s)'
  BY <1>1
<1>3. \A x \in wire' : x.seen <= version
  BY DEF FormsInv, ListInv
<1>. QED
  BY <1>2, <1>3, ListsGoOn

(* The requests the server did nothing for, and those it refused. *)
LEMMA LooksOnlyKeeps ==
  ASSUME FormsInv, NEW r \in wire, Check(r) \/ DoNothing(r) \/ Refuse(r)
  PROVE  FormsInv'
<1>1. r \in Packet /\ r.wish \in DOMAIN wishes /\ PageTypes
  BY DEF FormsInv, PageTypes
<1>2. PICK n \in DOMAIN wishes : n = r.wish
  BY <1>1
<1>3. wishes[n] \in WishRow /\ wishes' = [wishes EXCEPT ![n] = wishes[n]] /\ wishes' = wishes
  BY NoChange DEF Check, DoNothing, Refuse
<1>4. /\ UNCHANGED <<page, current, busy, version, shown, behind>> /\ r.kind = "asked"
  BY DEF Check, DoNothing, Refuse, Serves
<1>5. PICK kind \in {"checked", "done", "refused"} :
        /\ wire' = (wire \ {r}) \union {[r EXCEPT !.kind = kind]}
        /\ kind = "checked" => ~ Before(r)
        /\ kind = "done" => Before(r)
  BY DEF Check, DoNothing, Refuse, Serves, Becomes
<1>6. PICK s : s = [r EXCEPT !.kind = kind]
  OBVIOUS
<1>7. kind \in Kinds /\ s \in Packet /\ s.wish = r.wish /\ s.kind = kind /\ s.seen = r.seen
  <2>1. kind \in Kinds
    BY DEF Kinds
  <2>. QED
    BY <1>1, <1>6, <2>1, BecameKind
<1>8. wishes[n].done \in Nat
  BY <1>3 DEF WishRow
<1>9. wire' = (wire \ {r}) \union {s}
  BY <1>5, <1>6
<1>10. ListInv'
  <2>1. \A m \in DOMAIN wishes : FormOf(m)' = FormOf(m)
    BY <1>3, <1>4 DEF FormOf
  <2>2. ~ Brings(r)
    BY <1>4 DEF Brings
  <2>3. r.seen <= version
    BY DEF FormsInv, ListInv
  <2>4. PICK S : S = {s}
    OBVIOUS
  <2>5. wire' = (wire \ {r}) \union S /\ \A x \in S : x.seen <= version
    BY <1>7, <1>9, <2>3, <2>4
  <2>6. UNCHANGED <<page, version, shown, behind>>
    BY <1>4
  <2>. QED
    BY <2>1, <2>2, <2>5, <2>6, ListsStay
<1>11. /\ version' \in Nat /\ shown' \in Nat /\ behind' \in BOOLEAN /\ current' \in {0, current}
  BY <1>1, <1>4 DEF PageTypes
<1>12. /\ s.kind \in {"done", "reload", "lists"} => wishes[n].done > 0
       /\ s.kind \in {"reload", "lists"} => FormOf(n).reloads
       /\ s.kind = "checked" => wishes[n].done = 0
  BY <1>2, <1>5, <1>7, <1>8 DEF Before
<1>. QED
  BY <1>2, <1>3, <1>4, <1>7, <1>9, <1>10, <1>11, <1>12, MessageAdvances

LEMMA DoKeeps ==
  ASSUME FormsInv, NEW r \in wire, Do(r)
  PROVE  FormsInv'
<1>1. r \in Packet /\ r.wish \in DOMAIN wishes /\ PageTypes
  BY DEF FormsInv, PageTypes
<1>2. PICK n \in DOMAIN wishes : n = r.wish
  BY <1>1
<1>3. wishes[n] \in WishRow
  BY <1>1 DEF PageTypes
<1>4. PICK done \in Nat : done = wishes[n].done + 1
  BY <1>3 DEF WishRow
<1>5. PICK w : w = [wishes[n] EXCEPT !.done = done]
  OBVIOUS
<1>6. /\ w \in WishRow /\ w.form = wishes[n].form /\ w.told = wishes[n].told
      /\ w.tried = wishes[n].tried /\ w.why = wishes[n].why /\ w.done = done
  BY <1>3, <1>5 DEF WishRow
<1>7. wishes' = [wishes EXCEPT ![n] = w]
  BY <1>2, <1>4, <1>5 DEF Do
<1>8. PICK s : s = [r EXCEPT !.kind = "done"]
  OBVIOUS
<1>9. s \in Packet /\ s.wish = r.wish /\ s.kind = "done" /\ s.seen = r.seen
  <2>1. "done" \in Kinds
    BY DEF Kinds
  <2>. QED
    BY <1>1, <1>8, <2>1, BecameKind
<1>10. /\ UNCHANGED <<page, current, busy, shown, behind>> /\ wire' = (wire \ {r}) \union {s}
       /\ version' = IF FormOf(n).reloads THEN version + 1 ELSE version
       /\ r.kind = IF FormOf(n).again = "checked" THEN "checked" ELSE "asked"
       /\ wishes[n].done > 0 => FormOf(n).again \in {"more", "checked"}
  BY <1>2, <1>8 DEF Do, Serves, Becomes, Again, Before
<1>11. \A m \in DOMAIN wishes : FormOf(m)' = FormOf(m)
  BY <1>1, <1>6, <1>7, <1>10, OneWish
<1>12. /\ version' \in Nat /\ shown' \in Nat /\ behind' \in BOOLEAN /\ current' \in {0, current}
       /\ version <= version' /\ (FormOf(n).reloads \/ version' = version)
  BY <1>1, <1>10 DEF PageTypes
<1>13. ListInv'
  <2>1. /\ \A x \in wire' : x.seen \in Nat /\ x.seen <= version
    BY <1>1, <1>9, <1>10 DEF FormsInv, ListInv, PageTypes, Packet
  <2>2. shown' <= version' /\ \A x \in wire' : x.seen <= version'
    BY <1>1, <1>10, <1>12, <2>1 DEF FormsInv, ListInv, PageTypes
  <2>3. CASE FormOf(n).reloads
    <3>1. Brings(s)' /\ s \in wire'
      BY <1>2, <1>9, <1>10, <1>11, <2>3 DEF Brings
    <3>. QED
      BY <2>2, <3>1 DEF ListInv
  <2>4. CASE ~ FormOf(n).reloads
    BY <1>2, <1>9, <1>10, <1>11, <2>1, <2>4, ListsStay DEF Brings
  <2>. QED
    BY <2>3, <2>4
<1>14. w.done > 0
  BY <1>4, <1>6, <1>3 DEF WishRow
<1>. QED
  BY <1>2, <1>4, <1>6, <1>7, <1>9, <1>10, <1>12, <1>13, <1>14, MessageAdvances

(* The lists are asked for, and read. *)
LEMMA ListsAskedKeeps ==
  ASSUME FormsInv, NEW r \in wire, ReadLists(r) \/ (Succeed(r) /\ FormOf(r.wish).reloads)
  PROVE  FormsInv'
<1>1. r \in Packet /\ r.wish \in DOMAIN wishes /\ PageTypes
  BY DEF FormsInv, PageTypes
<1>2. PICK n \in DOMAIN wishes : n = r.wish
  BY <1>1
<1>3. wishes[n] \in WishRow /\ wishes' = [wishes EXCEPT ![n] = wishes[n]] /\ wishes' = wishes
  BY NoChange DEF ReadLists, Succeed
<1>4. Earned(n) /\ r.seen <= version
  BY DEF FormsInv, WishInv, ListInv
<1>5. /\ UNCHANGED <<page, busy, version, shown, behind>> /\ current' \in {0, current}
      /\ r.kind \in {"done", "reload"}
  BY DEF ReadLists, Succeed, Closes
<1>6. FormOf(n).reloads /\ wishes[n].done > 0
  BY <1>2, <1>4, <1>5 DEF ReadLists, Earned
<1>7. PICK s \in Packet :
        /\ wire' = (wire \ {r}) \union {s} /\ s.wish = r.wish /\ s.seen <= version
        /\ s.kind = "reload" \/ (s.kind = "lists" /\ s.seen = version)
  <2>1. CASE ReadLists(r)
    <3>1. PICK seen \in Nat : seen = version
      BY <1>1 DEF PageTypes
    <3>2. PICK s : s = [r EXCEPT !.kind = "lists", !.seen = seen]
      OBVIOUS
    <3>3. "lists" \in Kinds
      BY DEF Kinds
    <3>4. s \in Packet /\ s.wish = r.wish /\ s.kind = "lists" /\ s.seen = seen
      BY <1>1, <3>2, <3>3 DEF Packet
    <3>5. wire' = (wire \ {r}) \union {s}
      BY <2>1, <3>1, <3>2 DEF ReadLists
    <3>. QED
      BY <1>1, <3>1, <3>4, <3>5 DEF PageTypes
  <2>2. CASE Succeed(r) /\ FormOf(r.wish).reloads
    <3>1. PICK s : s = [r EXCEPT !.kind = "reload"]
      OBVIOUS
    <3>2. "reload" \in Kinds
      BY DEF Kinds
    <3>3. s \in Packet /\ s.wish = r.wish /\ s.kind = "reload" /\ s.seen = r.seen
      BY <1>1, <3>1, <3>2, BecameKind
    <3>. QED
      BY <1>4, <2>2, <3>1, <3>3 DEF Succeed, Becomes
  <2>. QED
    BY <2>1, <2>2
<1>8. ListInv'
  <2>1. \A m \in DOMAIN wishes : FormOf(m)' = FormOf(m)
    BY <1>3, <1>5 DEF FormOf
  <2>2. Brings(s)'
    BY <1>2, <1>5, <1>6, <1>7, <2>1 DEF Brings
  <2>. QED
    BY <1>5, <1>7, <2>1, <2>2, ListsStay
<1>9. version' \in Nat /\ shown' \in Nat /\ behind' \in BOOLEAN
  BY <1>1, <1>5 DEF PageTypes
<1>. QED
  BY <1>2, <1>3, <1>5, <1>6, <1>7, <1>8, <1>9, MessageAdvances

LEMMA AnswerKeeps ==
  ASSUME FormsInv, NEW r \in wire, Fail(r) \/ (Succeed(r) /\ ~ FormOf(r.wish).reloads)
  PROVE  FormsInv'
<1>1. r.wish \in DOMAIN wishes /\ PageTypes
  BY DEF FormsInv, PageTypes
<1>2. PICK n \in DOMAIN wishes : n = r.wish
  BY <1>1
<1>3. PICK told \in {"done", "failed"} :
        /\ wishes' = [wishes EXCEPT ![n].told = told]
        /\ told = "done" => r.kind = "done" /\ ~ FormOf(n).reloads
        /\ told = "failed" => r.kind = "refused"
  BY <1>2 DEF Fail, Succeed, Tells
<1>4. PICK w : w = [wishes[n] EXCEPT !.told = told]
  OBVIOUS
<1>5. wishes[n] \in WishRow
  BY <1>1 DEF PageTypes
<1>6. /\ w \in WishRow /\ w.form = wishes[n].form /\ w.done = wishes[n].done
      /\ w.tried = wishes[n].tried /\ w.why = wishes[n].why /\ w.told = told
  BY <1>4, <1>5 DEF WishRow
<1>7. wishes' = [wishes EXCEPT ![n] = w]
  BY <1>3, <1>4
<1>8. /\ UNCHANGED <<page, version, shown, behind>> /\ wire' = wire \ {r} /\ Clears(n)
      /\ current' \in {0, current}
  BY <1>2 DEF Fail, Succeed, Closes
<1>9. \A m \in DOMAIN wishes : FormOf(m)' = FormOf(m)
  BY <1>1, <1>6, <1>7, <1>8, OneWish
<1>10. ListInv'
  <2>1. ~ Brings(r)
    BY <1>2, <1>3 DEF Brings
  <2>2. PICK S : S = {}
    OBVIOUS
  <2>3. wire' = (wire \ {r}) \union S /\ \A x \in S : x.seen <= version
    BY <1>8, <2>2
  <2>4. UNCHANGED <<page, version, shown, behind>>
    BY <1>8
  <2>. QED
    BY <1>9, <2>1, <2>3, <2>4, ListsStay
<1>11. version' \in Nat /\ shown' \in Nat /\ behind' \in BOOLEAN
  BY <1>1, <1>8 DEF PageTypes
<1>. QED
  BY <1>2, <1>3, <1>6, <1>7, <1>8, <1>10, <1>11, MessageLeaves

LEMMA ShowListsKeeps ==
  ASSUME FormsInv, NEW r \in wire, ShowLists(r)
  PROVE  FormsInv'
<1>1. r.wish \in DOMAIN wishes /\ PageTypes
  BY DEF FormsInv, PageTypes
<1>2. PICK n \in DOMAIN wishes : n = r.wish
  BY <1>1
<1>3. PICK w : w = [wishes[n] EXCEPT !.told = "done"]
  OBVIOUS
<1>4. wishes[n] \in WishRow
  BY <1>1 DEF PageTypes
<1>5. /\ w \in WishRow /\ w.form = wishes[n].form /\ w.done = wishes[n].done
      /\ w.tried = wishes[n].tried /\ w.why = wishes[n].why /\ w.told = "done"
  BY <1>3, <1>4 DEF WishRow
<1>6. wishes' = [wishes EXCEPT ![n] = w]
  BY <1>2, <1>3 DEF ShowLists, Tells
<1>7. /\ UNCHANGED <<page, version>> /\ wire' = wire \ {r} /\ Clears(n) /\ r.kind = "lists"
      /\ shown' = r.seen /\ behind' = (r.seen < shown \/ (behind /\ r.seen < version))
      /\ current' \in {0, current}
  BY <1>2 DEF ShowLists, Closes
<1>8. \A m \in DOMAIN wishes : FormOf(m)' = FormOf(m)
  BY <1>1, <1>5, <1>6, <1>7, OneWish
<1>9. r.seen \in Nat /\ version \in Nat /\ shown \in Nat /\ r.seen <= version
  BY DEF FormsInv, PageTypes, ListInv, Packet
<1>10. ListInv'
  <2>1. shown' <= version' /\ \A x \in wire' : x.seen <= version'
    BY <1>7, <1>9 DEF FormsInv, ListInv
  <2>2. ASSUME ~ behind', shown' < version' PROVE \E x \in wire' : Brings(x)'
    <3>1. ~ behind /\ shown < version /\ r.seen < version
      <4>1. ~ (r.seen < shown) /\ ~ (behind /\ r.seen < version) /\ r.seen < version
        BY <1>7, <2>2
      <4>. QED
        BY <1>9, <4>1
    <3>2. PICK x \in wire : Brings(x)
      BY <3>1 DEF FormsInv, ListInv
    <3>3. x # r
      BY <1>7, <1>9, <3>1, <3>2 DEF Brings
    <3>4. FormOf(x.wish)' = FormOf(x.wish)
      BY <1>1, <1>8 DEF PageTypes
    <3>5. Brings(x)'
      BY <1>7, <3>2, <3>4, StillBrings
    <3>. QED
      BY <1>7, <3>3, <3>5
  <2>. QED
    BY <2>1, <2>2 DEF ListInv
<1>11. version' \in Nat /\ shown' \in Nat /\ behind' \in BOOLEAN
  BY <1>1, <1>7, <1>9 DEF PageTypes
<1>. QED
  BY <1>2, <1>5, <1>6, <1>7, <1>10, <1>11, MessageLeaves

LEMMA VanishKeeps ==
  ASSUME FormsInv, NEW r \in wire, Vanish(r)
  PROVE  FormsInv'
<1>1. r.wish \in DOMAIN wishes /\ PageTypes
  BY DEF FormsInv, PageTypes
<1>2. PICK n \in DOMAIN wishes : n = r.wish
  BY <1>1
<1>3. wishes[n] \in WishRow
  BY <1>1 DEF PageTypes
<1>4. PICK told \in {"nothing", "done", "failed"} :
        told = IF FormOf(n).silent THEN wishes[n].told ELSE "failed"
  BY <1>3 DEF WishRow
<1>5. PICK why \in SUBSET {"hasty", "lost", "skipped"} : why = wishes[n].why \union {"lost"}
  BY <1>3 DEF WishRow
<1>6. PICK w : w = [wishes[n] EXCEPT !.told = told, !.why = why]
  OBVIOUS
<1>7. /\ w \in WishRow /\ w.form = wishes[n].form /\ w.done = wishes[n].done
      /\ w.tried = wishes[n].tried /\ w.why = why /\ w.told = told
  BY <1>3, <1>6 DEF WishRow
<1>8. wishes' = [wishes EXCEPT ![n] = w]
  BY <1>2, <1>4, <1>5, <1>6 DEF Vanish
<1>9. /\ UNCHANGED <<page, version, shown>> /\ wire' = wire \ {r} /\ Clears(n)
      /\ behind' = (behind \/ (FormOf(n).reloads /\ shown < version))
      /\ current' \in {0, current}
  BY <1>2 DEF Vanish, Closes
<1>10. \A m \in DOMAIN wishes : FormOf(m)' = FormOf(m)
  BY <1>1, <1>7, <1>8, <1>9, OneWish
<1>11. ListInv'
  <2>1. shown' <= version' /\ \A x \in wire' : x.seen <= version'
    BY <1>9 DEF FormsInv, ListInv
  <2>2. ASSUME ~ behind', shown' < version' PROVE \E x \in wire' : Brings(x)'
    <3>1. ~ behind /\ shown < version /\ ~ FormOf(n).reloads
      BY <1>9, <2>2
    <3>2. PICK x \in wire : Brings(x)
      BY <3>1 DEF FormsInv, ListInv
    <3>3. x # r
      BY <1>2, <3>1, <3>2 DEF Brings
    <3>4. FormOf(x.wish)' = FormOf(x.wish)
      BY <1>1, <1>10 DEF PageTypes
    <3>5. Brings(x)'
      BY <1>9, <3>2, <3>4, StillBrings
    <3>. QED
      BY <1>9, <3>3, <3>5
  <2>. QED
    BY <2>1, <2>2 DEF ListInv
<1>12. version' \in Nat /\ shown' \in Nat /\ behind' \in BOOLEAN
  BY <1>1, <1>9 DEF PageTypes
<1>. QED
  BY <1>2, <1>4, <1>5, <1>7, <1>8, <1>9, <1>11, <1>12, MessageLeaves

-----------------------------------------------------------------------------
LEMMA FormStepKeeps ==
  ASSUME FormsInv, FormStep
  PROVE  FormsInv'
<1>1. ASSUME NEW f \in DOMAIN AllPages[page], Open(f) PROVE FormsInv'
  BY <1>1, OpenKeeps DEF Forms
<1>2. ASSUME NEW n \in DOMAIN wishes, Retry(n) PROVE FormsInv'
  BY <1>2, DialogKeeps DEF Retry
<1>3. CASE Cancel
  BY <1>3, DialogKeeps DEF Cancel
<1>4. CASE Press \/ Skip
  BY <1>4, PressKeeps, SkipKeeps
<1>5. ASSUME NEW r \in wire,
             \/ Check(r) \/ Do(r) \/ DoNothing(r) \/ Refuse(r) \/ ReadLists(r)
             \/ Succeed(r) \/ ShowLists(r) \/ Fail(r) \/ Vanish(r)
      PROVE  FormsInv'
  BY <1>5, LooksOnlyKeeps, DoKeeps, ListsAskedKeeps, AnswerKeeps, ShowListsKeeps, VanishKeeps
<1>. QED
  BY <1>1, <1>2, <1>3, <1>4, <1>5 DEF FormStep

LEMMA DetailStepKeeps ==
  ASSUME DetailsApart, DetailStep
  PROVE  DetailsApart'
<1>1. CASE (\E t \in Targets : Look(t)) /\ UNCHANGED dropped
  <2>1. PICK t \in Targets : Look(t)
    BY <1>1
  <2>2. [no |-> presses', kind |-> "load", under |-> t, of |-> t] \in fetches'
    BY <2>1 DEF Look
  <2>. QED
    BY <2>1, <2>2 DEF Look, DetailsApart
<1>2. CASE LookAway
  BY <1>2 DEF LookAway, DetailsApart
<1>3. CASE Act
  BY <1>3 DEF Act, DetailsApart
<1>4. ASSUME NEW r \in fetches, Accept(r) PROVE DetailsApart'
  BY <1>4 DEF Accept, Matches, DetailsApart
<1>5. ASSUME NEW r \in fetches, Arrive(r) PROVE DetailsApart'
  BY <1>5 DEF Arrive, DetailsApart
<1>6. ASSUME NEW r \in fetches, Miss(r) PROVE DetailsApart'
  BY <1>6 DEF Miss, DetailsApart
<1>. QED
  BY <1>1, <1>2, <1>3, <1>4, <1>5, <1>6 DEF DetailStep

LEMMA StepPages == PagesInv /\ [PgNext]_pgVars => PagesInv'
<1>. SUFFICES ASSUME PagesInv, [PgNext]_pgVars PROVE PagesInv'
  OBVIOUS
<1>1. CASE FormStep
  <2>1. FormsInv
    BY <1>1 DEF PagesInv, OneSide, FormStep
  <2>2. page' = page
    BY <1>1 DEF FormStep, Open, Retry, Cancel, Press, Skip, Check, Do, DoNothing, Refuse, Serves,
               ReadLists, Succeed, ShowLists, Fail, Vanish
  <2>3. UNCHANGED detailVars
    BY <1>1 DEF FormStep
  <2>4. OneSide'
    BY <1>1, <2>1, <2>2, <2>3, FormStepKeeps DEF OneSide, PagesInv, FormStep, detailVars
  <2>. QED
    BY <2>3, <2>4 DEF PagesInv, DetailsApart, detailVars
<1>2. CASE DetailStep
  <2>1. UNCHANGED <<page, wishes, wire, version, shown>>
    BY <1>2 DEF DetailStep
  <2>2. OneSide'
    BY <1>2, <2>1 DEF PagesInv, OneSide, DetailStep
  <2>. QED
    BY <1>2, <2>2, DetailStepKeeps DEF PagesInv
<1>3. CASE UNCHANGED pgVars
  <2>1. UNCHANGED <<page, wishes, current, busy, wire, version, shown, behind>>
    BY <1>3 DEF pgVars, formVars
  <2>2. UNCHANGED detailVars
    BY <1>3 DEF pgVars
  <2>3. FormsInv => FormsInv'
    <3>1. FormsInv => current' \in {0} \union DOMAIN wishes
      BY <2>1 DEF FormsInv, PageTypes
    <3>. QED
      BY <2>1, <3>1, DialogKeeps
  <2>4. OneSide'
    BY <2>1, <2>2, <2>3 DEF PagesInv, OneSide, detailVars
  <2>. QED
    BY <2>2, <2>4 DEF PagesInv, DetailsApart, detailVars
<1>. QED
  BY <1>1, <1>2, <1>3 DEF PgNext

(* PageTells: what the pages tell, show, and let be done twice, whatever   *)
(* the order of the requests, of their answers and of the lists, and       *)
(* whichever of them is lost (the forms of apps/web/src/app).              *)
THEOREM PagesTell == PgSpec => []PageTells
<1>. QED
  BY InitPages, StepPages, PagesSuffice, PTL DEF PgSpec

-----------------------------------------------------------------------------
(* The PIN.  A gate that shows was opened in this page, and while no two   *)
(* entries were compared together the one that is compared counts from the *)
(* present number of wrong ones.                                           *)
GateInv ==
  /\ ~ checked => ~ had /\ ~ enabled
  /\ checked /\ had => enabled
  /\ enabled /\ ~ locked => armed /\ opened
  /\ enabled => stored # NoPin \/ withdrawn

CountInv ==
  \/ crossed
  \/ /\ attempts = wrong
     /\ wrong >= MaxAttempts => leaving # "no"
     /\ \A e, f \in entries : e.attempts = wrong /\ e = f

PinInv == GateInv /\ CountInv /\ EndsTheSession /\ (leaving = "clear" => ~ signedIn \/ kept)

LEMMA PinSuffices == PinInv => PinHolds
  BY DEF PinInv, GateInv, CountInv, PinHolds, LocksWhenItShould, CanBeOpened, WrongAreCounted,
         Shows

LEMMA InitPin == PinInit => PinInv
  BY DEF PinInit, PinInv, GateInv, CountInv, EndsTheSession, MaxAttempts

(* A page that is loaded has counted nothing and found nothing. *)
LEMMA FreshPage ==
  ASSUME Fresh
  PROVE  GateInv' /\ CountInv' /\ leaving' = "no"
  BY DEF Fresh, GateInv, CountInv, MaxAttempts

LEMMA StepPin == PinInv /\ [PinNext]_pinVars => PinInv'
<1>. SUFFICES ASSUME PinInv, [PinNext]_pinVars PROVE PinInv'
  OBVIOUS
<1>. USE DEF PinInv, EndsTheSession
<1>1. CASE Load
  BY <1>1, FreshPage DEF Load
<1>2. CASE LogIn \/ LogOut
  <2>1. GateInv' /\ CountInv'
    BY <1>2 DEF LogIn, LogOut, GateInv, CountInv, gateVars, pageHistory
  <2>2. CASE LogIn
    <3>1. ~ forced' /\ (leaving' = "clear" => kept')
      BY <2>2, ZenonT(60) DEF LogIn
    <3>. QED
      BY <2>1, <3>1
  <2>3. CASE LogOut
    <3>1. ~ signedIn'
      BY <2>3 DEF LogOut
    <3>. QED
      BY <2>1, <3>1
  <2>. QED
    BY <1>2, <2>2, <2>3
<1>3. CASE CheckStore
  BY <1>3 DEF CheckStore, hasLocalPin, GateInv, CountInv, countVars
<1>4. CASE CannotCheck
  BY <1>4 DEF CannotCheck, Unread, GateInv, CountInv
<1>5. CASE TimeOut
  BY <1>5 DEF TimeOut, GateInv, CountInv, countVars, pageHistory
<1>6. ASSUME NEW p \in Pins, EnterPin(p) PROVE PinInv'
  <2>1. GateInv'
    BY <1>6 DEF EnterPin, GateInv, gateVars
  <2>2. CountInv'
    <3>1. CASE crossed'
      BY <3>1 DEF CountInv
    <3>2. CASE ~ crossed'
      <4>1. /\ ~ crossed /\ entries = {} /\ UNCHANGED <<attempts, wrong, leaving>>
            /\ entries' = {[no |-> entered', pin |-> p, attempts |-> attempts]}
        BY <1>6, <3>2 DEF EnterPin, gateVars
      <4>. QED
        BY <4>1 DEF CountInv
    <3>. QED
      BY <3>1, <3>2
  <2>. QED
    BY <1>6, <2>1, <2>2 DEF EnterPin
<1>7. ASSUME NEW p \in Pins, SetPin(p) PROVE PinInv'
  BY <1>7 DEF SetPin, GateInv, CountInv, gateVars, pageHistory
<1>8. ASSUME NEW e \in entries, Right(e) PROVE PinInv'
  <2>1. GateInv'
    BY <1>8 DEF Right, GateInv
  <2>2. CountInv'
    <3>1. crossed \/ entries' = {}
      BY <1>8 DEF Right, CountInv
    <3>. QED
      BY <1>8, <3>1 DEF Right, CountInv, MaxAttempts
  <2>. QED
    BY <1>8, <2>1, <2>2 DEF Right
<1>9. ASSUME NEW e \in entries, Wrong(e) PROVE PinInv'
  <2>1. GateInv'
    BY <1>9 DEF Wrong, GateInv
  <2>2. CountInv'
    <3>1. CASE crossed
      BY <1>9, <3>1 DEF Wrong, CountInv
    <3>2. CASE ~ crossed
      <4>1. entries' = {} /\ attempts' = wrong'
        BY <1>9, <3>2 DEF Wrong, CountInv
      <4>2. wrong' >= MaxAttempts => leaving' # "no"
        BY <1>9, <4>1 DEF Wrong
      <4>. QED
        BY <4>1, <4>2 DEF CountInv
    <3>. QED
      BY <3>1, <3>2
  <2>3. leaving' = "clear" => leaving = "clear"
    BY <1>9 DEF Wrong
  <2>. QED
    BY <1>9, <2>1, <2>2, <2>3 DEF Wrong
<1>16. ASSUME NEW e \in entries, CannotCompare(e) PROVE PinInv'
  BY <1>16 DEF CannotCompare, Unread, GateInv, CountInv, gateVars, pageHistory
<1>10. CASE LeaveSession
  BY <1>10 DEF LeaveSession, Unread, GateInv, CountInv, gateVars, pageHistory, countVars
<1>11. CASE LeavePage
  BY <1>11, FreshPage DEF LeavePage
<1>17. CASE CannotLeave
  BY <1>17 DEF CannotLeave, Unread, GateInv, CountInv, gateVars
<1>18. CASE CannotSave
  BY <1>18 DEF CannotSave, Unread, GateInv, CountInv, gateVars, pageHistory
<1>12. CASE RemovePin
  BY <1>12 DEF RemovePin, GateInv, CountInv, gateVars, pageHistory
<1>13. CASE DeleteMe
  BY <1>13 DEF DeleteMe, GateInv, CountInv, gateVars, pageHistory
<1>14. CASE SaveLocal
  BY <1>14 DEF SaveLocal, GateInv, CountInv, gateVars, countVars
<1>15. CASE UNCHANGED pinVars
  BY <1>15 DEF pinVars, GateInv, CountInv, gateVars, pageHistory
<1>. QED
  BY <1>1, <1>2, <1>3, <1>4, <1>5, <1>6, <1>7, <1>8, <1>9, <1>10, <1>11, <1>12, <1>13, <1>14,
     <1>15, <1>16, <1>17, <1>18 DEF PinNext

(* For every PIN and however often a page is loaded, locked and opened:    *)
(* the gate locks when it should, can be opened, counts what is entered    *)
(* one at a time, and the fifth wrong one leaves neither PIN nor session,  *)
(* unless its logout was lost.                                             *)
THEOREM TheGateHolds == PinSpec => []PinHolds
  BY InitPin, StepPin, PinSuffices, PTL DEF PinSpec

-----------------------------------------------------------------------------
(* Photos.  Until its row is written a photo belongs to one handler; from  *)
(* then on its file is there until a removal has deleted it, and nothing   *)
(* brings it back.                                                         *)
Steps == {"save", "create", "delete", "mark", "stream"}

Handling == {Free} \union {Does(s, p) : s \in Steps, p \in Photos}

PhotoTypes ==
  /\ handling \in [Handlers -> Handling]
  /\ attachment \in [Photos -> {"none", "live", "removed"}]

Uploading(h, p) == handling[h] = Does("save", p) \/ handling[h] = Does("create", p)

Owning(p) ==
  \A h \in Handlers : Uploading(h, p) =>
    /\ attachment[p] = "none"
    /\ \A g \in Handlers \ {h}, s \in Steps : handling[g] # Does(s, p)

Filed(p) ==
  /\ \A h \in Handlers :
       /\ handling[h] = Does("create", p) => p \in disk
       /\ handling[h] = Does("mark", p) => p \notin disk
       /\ \A s \in {"delete", "mark", "stream"} : handling[h] = Does(s, p) => attachment[p] # "none"
       /\ \A s \in {"delete", "mark"} : handling[h] = Does(s, p) => p \in asked
  /\ attachment[p] # "none" /\ p \notin disk => p \in asked

(* ListedIsThere and NoFileForgotten, of one photo. *)
Accounted(p) ==
  /\ attachment[p] = "live" /\ p \notin disk =>
       p \in tornRemoval \/ \E h \in Handlers : handling[h] = Does("mark", p)
  /\ attachment[p] # "live" /\ p \in disk =>
       p \in tornUpload \/ \E h \in Handlers : handling[h] = Does("create", p)

PhotoInv ==
  /\ PhotoTypes /\ disk \subseteq Photos /\ missed \subseteq asked
  /\ \A p \in Photos : Owning(p) /\ Filed(p) /\ Accounted(p)

LEMMA PhotosSuffice == PhotoInv => AttachmentsKept
  BY DEF PhotoInv, Accounted, AttachmentsKept, ListedIsThere, NoFileForgotten,
         OnlyRemovedAreMissed, Doing

LEMMA InitPhotos == AttInit => PhotoInv
<1>1. \A s, p : Free # Does(s, p) \/ s = "idle"
  BY DEF Free, Does
<1>. QED
  BY <1>1 DEF AttInit, PhotoInv, PhotoTypes, Handling, Owning, Filed, Accounted, Uploading, Steps

(* What a handler does tells its step and its photo. *)
LEMMA DoesTells ==
  /\ \A s \in Steps, p \in Photos : Does(s, p) # Free /\ Does(s, p).step = s /\ Does(s, p).photo = p
  /\ \A s, t \in Steps, p, q \in Photos : Does(s, p) = Does(t, q) => s = t /\ p = q
<1>1. \A s \in Steps : s # "idle"
  BY DEF Steps
<1>. QED
  BY <1>1 DEF Does, Free

LEMMA Handled ==
  ASSUME PhotoTypes, NEW h \in Handlers, NEW s \in Steps, handling[h].step = s
  PROVE  \E p \in Photos :
           /\ handling[h] = Does(s, p) /\ handling[h].photo = p
           /\ \A t \in Steps : Continues(h, t) => handling' = [handling EXCEPT ![h] = Does(t, p)]
<1>1. s # "idle" /\ handling[h] \in Handling
  BY DEF Steps, PhotoTypes
<1>2. PICK p \in Photos : handling[h] = Does(s, p)
  BY <1>1 DEF Handling, Free, Does
<1>3. \A t \in Steps : [handling[h] EXCEPT !.step = t] = Does(t, p)
  BY <1>2 DEF Does
<1>4. handling[h].photo = p
  BY <1>2 DEF Does
<1>. QED
  BY <1>2, <1>3, <1>4 DEF Continues, PhotoTypes

(* One handler goes on to another step, and nothing else is cut off. *)
LEMMA NextStep ==
  ASSUME PhotoTypes, NEW h \in Handlers, NEW x \in Handling, handling' = [handling EXCEPT ![h] = x]
  PROVE  /\ handling' \in [Handlers -> Handling]
         /\ \A g \in Handlers : handling'[g] = IF g = h THEN x ELSE handling[g]
  BY DEF PhotoTypes

LEMMA DoesIsHandling == \A s \in Steps, p \in Photos : Does(s, p) \in Handling
  BY DEF Handling

LEMMA FreeIsHandling == Free \in Handling
  BY DEF Handling

LEMMA AttachKeeps ==
  ASSUME PhotoInv, NEW h \in Handlers, NEW q \in Photos, Attach(h, q)
  PROVE  PhotoInv'
<1>1. /\ handling[h] = Free /\ attachment[q] = "none" /\ q \notin disk
      /\ handling' = [handling EXCEPT ![h] = Does("save", q)]
      /\ \A g \in Handlers, s \in Steps : handling[g] # Does(s, q)
      /\ UNCHANGED <<attachment, disk, tornUpload, tornRemoval, asked, missed>>
  BY DoesTells DEF Attach, tornVars
<1>2. /\ handling' \in [Handlers -> Handling]
      /\ \A g \in Handlers : handling'[g] = IF g = h THEN Does("save", q) ELSE handling[g]
  BY <1>1, NextStep, DoesIsHandling DEF PhotoInv, Steps
<1>3. ASSUME NEW p \in Photos
      PROVE  Owning(p)' /\ Filed(p)' /\ Accounted(p)'
  <2>1. Owning(p) /\ Filed(p) /\ Accounted(p)
    BY DEF PhotoInv
  <2>2. Owning(p)'
    BY <1>1, <1>2, <2>1, DoesTells DEF Owning, Uploading, Steps
  <2>3. Filed(p)'
    BY <1>1, <1>2, <2>1, DoesTells DEF Filed, Steps
  <2>4. Accounted(p)'
    BY <1>1, <1>2, <2>1, DoesTells DEF Accounted, Steps
  <2>. QED
    BY <2>2, <2>3, <2>4
<1>. QED
  BY <1>1, <1>2, <1>3 DEF PhotoInv, PhotoTypes

LEMMA SavePhotoKeeps ==
  ASSUME PhotoInv, NEW h \in Handlers, SavePhoto(h)
  PROVE  PhotoInv'
<1>1. PICK q \in Photos :
        /\ handling[h] = Does("save", q) /\ disk' = disk \union {q}
        /\ handling' = [handling EXCEPT ![h] = Does("create", q)]
  BY Handled DEF SavePhoto, PhotoInv, Steps
<1>2. UNCHANGED <<attachment, tornUpload, tornRemoval, asked, missed>>
  BY DEF SavePhoto, tornVars
<1>3. /\ handling' \in [Handlers -> Handling]
      /\ \A g \in Handlers : handling'[g] = IF g = h THEN Does("create", q) ELSE handling[g]
  BY <1>1, NextStep, DoesIsHandling DEF PhotoInv, Steps
<1>4. attachment[q] = "none" /\ \A g \in Handlers \ {h}, s \in Steps : handling[g] # Does(s, q)
  BY <1>1 DEF PhotoInv, Owning, Uploading
<1>5. ASSUME NEW p \in Photos
      PROVE  Owning(p)' /\ Filed(p)' /\ Accounted(p)'
  <2>1. Owning(p) /\ Filed(p) /\ Accounted(p)
    BY DEF PhotoInv
  <2>2. Owning(p)'
    BY <1>1, <1>2, <1>3, <1>4, <2>1, DoesTells DEF Owning, Uploading, Steps
  <2>3. Filed(p)'
    BY <1>1, <1>2, <1>3, <1>4, <2>1, DoesTells DEF Filed, Steps
  <2>4. Accounted(p)'
    BY <1>1, <1>2, <1>3, <1>4, <2>1, DoesTells DEF Accounted, Steps
  <2>. QED
    BY <2>2, <2>3, <2>4
<1>. QED
  BY <1>1, <1>2, <1>3, <1>5 DEF PhotoInv, PhotoTypes

LEMMA CreateRowKeeps ==
  ASSUME PhotoInv, NEW h \in Handlers, CreateRow(h)
  PROVE  PhotoInv'
<1>0. PICK q \in Photos : handling[h] = Does("create", q) /\ handling[h].photo = q
  BY Handled DEF CreateRow, PhotoInv, Steps
<1>1. /\ handling[h] = Does("create", q) /\ attachment' = [attachment EXCEPT ![q] = "live"]
      /\ handling' = [handling EXCEPT ![h] = Free]
  BY <1>0 DEF CreateRow, Answers
<1>2. UNCHANGED <<disk, tornUpload, tornRemoval, asked, missed>>
  BY DEF CreateRow, tornVars
<1>3. /\ handling' \in [Handlers -> Handling]
      /\ \A g \in Handlers : handling'[g] = IF g = h THEN Free ELSE handling[g]
  BY <1>1, NextStep, FreeIsHandling DEF PhotoInv
<1>4. /\ attachment' \in [Photos -> {"none", "live", "removed"}]
      /\ \A p \in Photos : attachment'[p] = IF p = q THEN "live" ELSE attachment[p]
  BY <1>1 DEF PhotoInv, PhotoTypes
<1>5. q \in disk /\ \A g \in Handlers \ {h}, s \in Steps : handling[g] # Does(s, q)
  BY <1>1 DEF PhotoInv, Owning, Uploading, Filed
<1>6. ASSUME NEW p \in Photos
      PROVE  Owning(p)' /\ Filed(p)' /\ Accounted(p)'
  <2>1. Owning(p) /\ Filed(p) /\ Accounted(p)
    BY DEF PhotoInv
  <2>2. Owning(p)'
    BY <1>1, <1>2, <1>3, <1>4, <1>5, <2>1, DoesTells DEF Owning, Uploading, Steps
  <2>3. Filed(p)'
    BY <1>1, <1>2, <1>3, <1>4, <1>5, <2>1, DoesTells DEF Filed, Steps
  <2>4. Accounted(p)'
    BY <1>1, <1>2, <1>3, <1>4, <1>5, <2>1, DoesTells DEF Accounted, Steps
  <2>. QED
    BY <2>2, <2>3, <2>4
<1>. QED
  BY <1>2, <1>3, <1>4, <1>6 DEF PhotoInv, PhotoTypes

LEMMA DetachKeeps ==
  ASSUME PhotoInv, NEW h \in Handlers, NEW q \in Photos, Detach(h, q)
  PROVE  PhotoInv'
<1>1. /\ handling[h] = Free /\ attachment[q] = "live" /\ asked' = asked \union {q}
      /\ handling' = [handling EXCEPT ![h] = Does("delete", q)]
      /\ UNCHANGED <<attachment, disk, tornUpload, tornRemoval, missed>>
  BY DEF Detach, tornVars
<1>2. /\ handling' \in [Handlers -> Handling]
      /\ \A g \in Handlers : handling'[g] = IF g = h THEN Does("delete", q) ELSE handling[g]
  BY <1>1, NextStep, DoesIsHandling DEF PhotoInv, Steps
<1>3. ASSUME NEW p \in Photos
      PROVE  Owning(p)' /\ Filed(p)' /\ Accounted(p)'
  <2>1. Owning(p) /\ Filed(p) /\ Accounted(p)
    BY DEF PhotoInv
  <2>2. Owning(p)'
    BY <1>1, <1>2, <2>1, DoesTells DEF Owning, Uploading, Steps
  <2>3. Filed(p)'
    BY <1>1, <1>2, <2>1, DoesTells DEF Filed, Steps
  <2>4. Accounted(p)'
    BY <1>1, <1>2, <2>1, DoesTells DEF Accounted, Steps
  <2>. QED
    BY <2>2, <2>3, <2>4
<1>. QED
  BY <1>1, <1>2, <1>3 DEF PhotoInv, PhotoTypes

LEMMA DeletePhotoKeeps ==
  ASSUME PhotoInv, NEW h \in Handlers, DeletePhoto(h)
  PROVE  PhotoInv'
<1>1. PICK q \in Photos :
        /\ handling[h] = Does("delete", q) /\ disk' = disk \ {q}
        /\ handling' = [handling EXCEPT ![h] = Does("mark", q)]
  BY Handled DEF DeletePhoto, PhotoInv, Steps
<1>2. UNCHANGED <<attachment, tornUpload, tornRemoval, asked, missed>>
  BY DEF DeletePhoto, tornVars
<1>3. /\ handling' \in [Handlers -> Handling]
      /\ \A g \in Handlers : handling'[g] = IF g = h THEN Does("mark", q) ELSE handling[g]
  BY <1>1, NextStep, DoesIsHandling DEF PhotoInv, Steps
<1>4. attachment[q] # "none" /\ q \in asked
  BY <1>1 DEF PhotoInv, Filed
<1>5. \A g \in Handlers : ~ Uploading(g, q)
  BY <1>4 DEF PhotoInv, Owning
<1>6. ASSUME NEW p \in Photos
      PROVE  Owning(p)' /\ Filed(p)' /\ Accounted(p)'
  <2>1. Owning(p) /\ Filed(p) /\ Accounted(p)
    BY DEF PhotoInv
  <2>2. Owning(p)'
    BY <1>1, <1>2, <1>3, <1>5, <2>1, DoesTells DEF Owning, Uploading, Steps
  <2>3. Filed(p)'
    BY <1>1, <1>2, <1>3, <1>4, <1>5, <2>1, DoesTells DEF Filed, Uploading, Steps
  <2>4. Accounted(p)'
    BY <1>1, <1>2, <1>3, <1>5, <2>1, DoesTells DEF Accounted, Uploading, Steps
  <2>. QED
    BY <2>2, <2>3, <2>4
<1>. QED
  BY <1>1, <1>2, <1>3, <1>6 DEF PhotoInv, PhotoTypes

LEMMA MarkRemovedKeeps ==
  ASSUME PhotoInv, NEW h \in Handlers, MarkRemoved(h)
  PROVE  PhotoInv'
<1>0. PICK q \in Photos : handling[h] = Does("mark", q) /\ handling[h].photo = q
  BY Handled DEF MarkRemoved, PhotoInv, Steps
<1>1. /\ handling[h] = Does("mark", q) /\ attachment' = [attachment EXCEPT ![q] = "removed"]
      /\ handling' = [handling EXCEPT ![h] = Free]
  BY <1>0 DEF MarkRemoved, Answers
<1>2. UNCHANGED <<disk, tornUpload, tornRemoval, asked, missed>>
  BY DEF MarkRemoved, tornVars
<1>3. /\ handling' \in [Handlers -> Handling]
      /\ \A g \in Handlers : handling'[g] = IF g = h THEN Free ELSE handling[g]
  BY <1>1, NextStep, FreeIsHandling DEF PhotoInv
<1>4. /\ attachment' \in [Photos -> {"none", "live", "removed"}]
      /\ \A p \in Photos : attachment'[p] = IF p = q THEN "removed" ELSE attachment[p]
  BY <1>1 DEF PhotoInv, PhotoTypes
<1>5. q \notin disk /\ attachment[q] # "none" /\ q \in asked
  BY <1>1 DEF PhotoInv, Filed
<1>6. \A g \in Handlers : ~ Uploading(g, q)
  BY <1>5 DEF PhotoInv, Owning
<1>7. ASSUME NEW p \in Photos
      PROVE  Owning(p)' /\ Filed(p)' /\ Accounted(p)'
  <2>1. Owning(p) /\ Filed(p) /\ Accounted(p)
    BY DEF PhotoInv
  <2>2. Owning(p)'
    BY <1>1, <1>2, <1>3, <1>4, <1>6, <2>1, DoesTells DEF Owning, Uploading, Steps
  <2>3. Filed(p)'
    BY <1>1, <1>2, <1>3, <1>4, <1>5, <1>6, <2>1, DoesTells DEF Filed, Uploading, Steps
  <2>4. Accounted(p)'
    BY <1>1, <1>2, <1>3, <1>4, <1>5, <2>1, DoesTells DEF Accounted, Steps
  <2>. QED
    BY <2>2, <2>3, <2>4
<1>. QED
  BY <1>2, <1>3, <1>4, <1>7 DEF PhotoInv, PhotoTypes

LEMMA ViewKeeps ==
  ASSUME PhotoInv, NEW h \in Handlers, NEW q \in Photos, View(h, q)
  PROVE  PhotoInv'
<1>1. /\ handling[h] = Free /\ attachment[q] = "live"
      /\ handling' = [handling EXCEPT ![h] = Does("stream", q)]
      /\ UNCHANGED <<attachment, disk, tornUpload, tornRemoval, asked, missed>>
  BY DEF View, tornVars
<1>2. /\ handling' \in [Handlers -> Handling]
      /\ \A g \in Handlers : handling'[g] = IF g = h THEN Does("stream", q) ELSE handling[g]
  BY <1>1, NextStep, DoesIsHandling DEF PhotoInv, Steps
<1>3. ASSUME NEW p \in Photos
      PROVE  Owning(p)' /\ Filed(p)' /\ Accounted(p)'
  <2>1. Owning(p) /\ Filed(p) /\ Accounted(p)
    BY DEF PhotoInv
  <2>2. Owning(p)'
    BY <1>1, <1>2, <2>1, DoesTells DEF Owning, Uploading, Steps
  <2>3. Filed(p)'
    BY <1>1, <1>2, <2>1, DoesTells DEF Filed, Steps
  <2>4. Accounted(p)'
    BY <1>1, <1>2, <2>1, DoesTells DEF Accounted, Steps
  <2>. QED
    BY <2>2, <2>3, <2>4
<1>. QED
  BY <1>1, <1>2, <1>3 DEF PhotoInv, PhotoTypes

LEMMA StreamKeeps ==
  ASSUME PhotoInv, NEW h \in Handlers, Stream(h)
  PROVE  PhotoInv'
<1>1. /\ handling[h].step = "stream" /\ handling' = [handling EXCEPT ![h] = Free]
      /\ UNCHANGED <<attachment, disk, tornUpload, tornRemoval, asked, missed>>
  BY DEF Stream, Answers, tornVars
<1>2. /\ handling' \in [Handlers -> Handling]
      /\ \A g \in Handlers : handling'[g] = IF g = h THEN Free ELSE handling[g]
  BY <1>1, NextStep, FreeIsHandling DEF PhotoInv
<1>3. ASSUME NEW p \in Photos
      PROVE  Owning(p)' /\ Filed(p)' /\ Accounted(p)'
  <2>1. Owning(p) /\ Filed(p) /\ Accounted(p)
    BY DEF PhotoInv
  <2>2. Owning(p)'
    BY <1>1, <1>2, <2>1, DoesTells DEF Owning, Uploading, Steps
  <2>3. Filed(p)'
    BY <1>1, <1>2, <2>1, DoesTells DEF Filed, Steps
  <2>4. Accounted(p)'
    BY <1>1, <1>2, <2>1, DoesTells DEF Accounted, Steps
  <2>. QED
    BY <2>2, <2>3, <2>4
<1>. QED
  BY <1>1, <1>2, <1>3 DEF PhotoInv, PhotoTypes

(* Whoever is cut off is remembered, and so is what it leaves. *)
LEMMA CutOffKeeps ==
  ASSUME PhotoInv, NEW handlers \in SUBSET Handlers, CutOff(handlers),
         UNCHANGED <<attachment, asked>>, missed' \subseteq asked
  PROVE  PhotoInv'
<1>1. PICK partial \in SUBSET {p \in Photos : Doing("save", p) \intersect handlers # {}} :
        /\ handling' = [h \in Handlers |-> IF h \in handlers THEN Free ELSE handling[h]]
        /\ disk' = disk \union partial
        /\ tornUpload' = tornUpload \union {p \in Photos : Doing("create", p) \intersect handlers # {}}
                           \union partial
        /\ tornRemoval' = tornRemoval \union {p \in Photos : Doing("mark", p) \intersect handlers # {}}
  BY DEF CutOff
<1>2. \A p \in partial : p \in Photos /\ \E h \in handlers : handling[h] = Does("save", p)
  BY <1>1 DEF Doing
<1>3. /\ handling' \in [Handlers -> Handling]
      /\ \A g \in Handlers : handling'[g] = IF g \in handlers THEN Free ELSE handling[g]
  BY <1>1 DEF PhotoInv, PhotoTypes, Handling
<1>4. \A p \in Photos, h \in handlers : /\ handling[h] = Does("create", p) => p \in tornUpload'
                                        /\ handling[h] = Does("mark", p) => p \in tornRemoval'
  BY <1>1 DEF Doing
<1>5. ASSUME NEW p \in Photos
      PROVE  Owning(p)' /\ Filed(p)' /\ Accounted(p)'
  <2>1. Owning(p) /\ Filed(p) /\ Accounted(p)
    BY DEF PhotoInv
  <2>2. p \in partial => \A g \in Handlers : handling[g] # Does("mark", p)
    BY <1>2, <2>1, DoesTells DEF Owning, Uploading, Steps
  <2>3. Owning(p)'
    BY <1>3, <2>1, DoesTells DEF Owning, Uploading, Steps
  <2>4. Filed(p)'
    BY <1>1, <1>3, <2>1, <2>2, DoesTells DEF Filed, Steps
  <2>5. Accounted(p)'
    BY <1>1, <1>3, <1>4, <2>1, DoesTells DEF Accounted, Steps
  <2>. QED
    BY <2>3, <2>4, <2>5
<1>. QED
  BY <1>1, <1>2, <1>3, <1>5 DEF PhotoInv, PhotoTypes

LEMMA StreamMissingKeeps ==
  ASSUME PhotoInv, NEW h \in Handlers, StreamMissing(h)
  PROVE  PhotoInv'
<1>1. PICK q \in Photos : handling[h] = Does("stream", q) /\ handling[h].photo = q
  BY Handled DEF StreamMissing, PhotoInv, Steps
<1>2. q \in asked
  BY <1>1 DEF StreamMissing, PhotoInv, Filed
<1>. QED
  BY <1>1, <1>2, CutOffKeeps DEF StreamMissing, PhotoInv

LEMMA StepPhotos == PhotoInv /\ [AttNext]_attVars => PhotoInv'
<1>. SUFFICES ASSUME PhotoInv, [AttNext]_attVars PROVE PhotoInv'
  OBVIOUS
<1>1. ASSUME NEW h \in Handlers, NEW p \in Photos, Attach(h, p) \/ Detach(h, p) \/ View(h, p)
      PROVE  PhotoInv'
  BY <1>1, AttachKeeps, DetachKeeps, ViewKeeps
<1>2. ASSUME NEW h \in Handlers, SavePhoto(h) \/ CreateRow(h) \/ DeletePhoto(h) \/ MarkRemoved(h)
      PROVE  PhotoInv'
  BY <1>2, SavePhotoKeeps, CreateRowKeeps, DeletePhotoKeeps, MarkRemovedKeeps
<1>3. ASSUME NEW h \in Handlers, Stream(h) \/ StreamMissing(h)
      PROVE  PhotoInv'
  BY <1>3, StreamKeeps, StreamMissingKeeps
<1>4. ASSUME NEW handlers \in SUBSET Handlers, Fault(handlers)
      PROVE  PhotoInv'
  BY <1>4, CutOffKeeps DEF Fault, PhotoInv
<1>5. CASE RemoveEntry \/ UNCHANGED attVars
  BY <1>5 DEF RemoveEntry, attVars, tornVars, PhotoInv, PhotoTypes, Owning, Uploading, Filed, Accounted
<1>6. \A h \in Handlers : {h} \in SUBSET Handlers
  OBVIOUS
<1>. QED
  BY <1>1, <1>2, <1>3, <1>4, <1>5, <1>6 DEF AttNext

(* For any photos, handlers, failures and restarts: a photo that is listed *)
(* has its file unless a removal was begun; a file nobody can see was left *)
(* by an upload that was cut off; and only a photo somebody removed can    *)
(* stop the server.                                                        *)
THEOREM PhotosAreKept == AttSpec => []AttachmentsKept
  BY InitPhotos, StepPhotos, PhotosSuffice, PTL DEF AttSpec

-----------------------------------------------------------------------------
(* The parts together *)
LEMMA PartsOfSubmissions == SubmissionsSpec => Spec /\ PgSpec /\ PinSpec /\ AttSpec
<1>1. SubmissionsInit => Init /\ PgInit /\ PinInit /\ AttInit
  BY DEF SubmissionsInit
<1>2. [SubmissionsNext]_submissionVars =>
        [Next]_vars /\ [PgNext]_pgVars /\ [PinNext]_pinVars /\ [AttNext]_attVars
  BY DEF SubmissionsNext, submissionVars
<1>. QED
  BY <1>1, <1>2, PTL DEF SubmissionsSpec, Spec, PgSpec, PinSpec, AttSpec

(* HandedInIsKept: of every form and of every photo, what was handed in is *)
(* told of as it is.                                                       *)
THEOREM WhatIsHandedInIsKept == SubmissionsSpec => []HandedInIsKept
  BY PartsOfSubmissions, PagesTell, PhotosAreKept, PTL DEF HandedInIsKept

(* Whatever the user hands in, the five hold.                              *)
THEOREM SubmissionsHold ==
  SubmissionsSpec => [](LineOnce /\ RevertIsClean /\ HandedInIsKept /\ PinHolds) /\ PreviewHolds
  BY PartsOfSubmissions, EachLineOnce, RevertsAreClean, CommitsKeepToThePreview, TheGateHolds,
     WhatIsHandedInIsKept, PTL

=============================================================================
