------------------------------ MODULE Imports ------------------------------
(***************************************************************************)
(* The module `import`: a file is uploaded and previewed, the preview is   *)
(* committed line by line through the facade of transactions, and a batch  *)
(* can be taken back.  Requests are served together and give way at every  *)
(* access to the database; a preview is only in the memory of the process. *)
(*                                                                         *)
(* A file is the sequence of the fingerprints of its lines: those that     *)
(* could not be mapped are left out, and so are the probable duplicates,   *)
(* which look like any line a client excludes.  All is about one account.  *)
(***************************************************************************)
EXTENDS Naturals, Sequences, FiniteSets

CONSTANTS
  Workers,     \* requests served together
  Keys,        \* fingerprints
  Files,       \* sequences of keys
  MaxBatches,  \* bound: uploads
  MaxRows,     \* bound: transactions
  MaxEvents    \* bound: failures, restarts, and what the user does by hand

ASSUME ImportAssumption ==
  /\ {MaxBatches, MaxRows, MaxEvents} \subseteq Nat
  /\ \A f \in Files : f \in Seq(Keys)

VARIABLES
  batch,   \* ImportBatch rows and stagedBatches, in the order of their creation
  tx,      \* Transaction rows
  req,     \* worker -> the request it serves
  events,
  torn     \* history: batches one commit of which failed, or overlapped another

vars == <<batch, tx, req, events, torn>>

Manual == 0   \* importBatchId of the rows entered by hand

Idle == [op |-> "idle", batch |-> Manual, file |-> <<>>, todo |-> {}]

-----------------------------------------------------------------------------
(* Queries *)

RowsOf(b) == {i \in DOMAIN tx : tx[i].batch = b}

Live == {i \in DOMAIN tx : tx[i].state = "live"}

Known(rows) == {tx[i].key : i \in rows}

Serving(op, b) == {w \in Workers : req[w].op \in op /\ req[w].batch = b}

Committing == {"commit", "unstage"}

Happens == events < MaxEvents /\ events' = events + 1

(* A row came in, or was given the fingerprint k: the previews made before *)
(* do not know it, but the one it comes from.                              *)
Unseen(k, source) == [b \in DOMAIN batch |->
  IF b # source /\ batch[b].staged THEN [batch[b] EXCEPT !.unseen = @ \union {k}] ELSE batch[b]]

-----------------------------------------------------------------------------
(* upload() *)

(* The same file was imported already, and the client does not force it. *)
AlreadyImported(file) == \E b \in DOMAIN batch : batch[b].file = file /\ batch[b].status = "completed"

Upload(w, file, force) ==
  /\ req[w] = Idle
  /\ Len(batch) + Cardinality({v \in Workers : req[v].op = "upload"}) < MaxBatches
  /\ force \/ ~AlreadyImported(file)
  /\ req' = [req EXCEPT ![w] = [Idle EXCEPT !.op = "upload", !.file = file]]
  /\ UNCHANGED <<batch, tx, events, torn>>

EveryLine(file, existing) == {n \in DOMAIN file : file[n] \notin existing}

(* Exact duplicates, of a transaction or of an earlier line. *)
ToImport(file, existing) ==
  {n \in DOMAIN file : file[n] \notin existing /\ \A m \in 1..n - 1 : file[m] # file[n]}

Stage(w) ==
  /\ req[w].op = "upload"
  /\ batch' = Append(batch, [status |-> "review", file |-> req[w].file, staged |-> TRUE,
                             lines |-> ToImport(req[w].file, Known(Live)), unseen |-> {}])
  /\ req' = [req EXCEPT ![w] = Idle]
  /\ UNCHANGED <<tx, events, torn>>

-----------------------------------------------------------------------------
(* commit() *)

Commit(w, b, excluded) ==
  /\ req[w] = Idle
  /\ batch[b].staged
  /\ req' = [req EXCEPT ![w] = [Idle EXCEPT !.op = "commit", !.batch = b,
                                            !.todo = batch[b].lines \ excluded]]
  /\ torn' = IF Serving(Committing, b) # {} THEN torn \union {b} ELSE torn
  /\ UNCHANGED <<batch, tx, events>>

NextLine(todo) == CHOOSE n \in todo : \A m \in todo : n <= m

Imported(b, n) ==
  [state |-> "live", key |-> batch[b].file[n], batch |-> b, line |-> n,
   late |-> batch[b].status # "review", touched |-> FALSE]

(* One transaction of the ledger for each line.  What create() does after  *)
(* its own commit, counting the use of a rule, may still fail.             *)
ImportRow(w, failed) ==
  LET b == req[w].batch
      n == NextLine(req[w].todo) IN
  /\ req[w].op = "commit" /\ req[w].todo # {} /\ Len(tx) < MaxRows
  /\ tx' = Append(tx, Imported(b, n))
  /\ batch' = Unseen(batch[b].file[n], b)
  /\ \/ failed /\ Happens /\ req' = [req EXCEPT ![w] = Idle] /\ torn' = torn \union {b}
     \/ ~failed /\ req' = [req EXCEPT ![w].todo = @ \ {n}] /\ UNCHANGED <<events, torn>>

(* A line the ledger refuses (RG-T1, RG-T3) ends the request; the lines    *)
(* before it stay, and so does the preview.                                *)
RefuseRow(w) ==
  /\ req[w].op = "commit" /\ req[w].todo # {} /\ Happens
  /\ req' = [req EXCEPT ![w] = Idle]
  /\ torn' = torn \union {req[w].batch}
  /\ UNCHANGED <<batch, tx>>

(* completedAt is now: no row of the batch is younger. *)
Complete(w) ==
  LET b == req[w].batch IN
  /\ req[w].op = "commit" /\ req[w].todo = {}
  /\ batch' = [batch EXCEPT ![b].status = "completed"]
  /\ tx' = [i \in DOMAIN tx |-> IF i \in RowsOf(b) THEN [tx[i] EXCEPT !.late = FALSE] ELSE tx[i]]
  /\ req' = [req EXCEPT ![w].op = "unstage"]
  /\ UNCHANGED <<events, torn>>

StaysStaged(b) == batch

Gone(row) == [row EXCEPT !.staged = FALSE, !.lines = {}, !.unseen = {}]

Unstaged(b) == [batch EXCEPT ![b] = Gone(@)]

Unstage(w) ==
  /\ req[w].op = "unstage"
  /\ batch' = Unstaged(req[w].batch)
  /\ req' = [req EXCEPT ![w] = Idle]
  /\ UNCHANGED <<tx, events, torn>>

-----------------------------------------------------------------------------
(* revert() *)

RefusesNothing(rows) == TRUE

(* RG-I3: updatedAt > completedAt. *)
NoneModified(rows) == \A i \in rows : ~tx[i].late

(* The batch and its rows are read one after the other: a completion in    *)
(* between can only make a row look modified, a refusal.                   *)
Revert(w, b) ==
  LET rows == RowsOf(b) \intersect Live IN
  /\ req[w] = Idle
  /\ batch[b].status = "completed"
  /\ NoneModified(rows)
  /\ req' = [req EXCEPT ![w] = [Idle EXCEPT !.op = "revert", !.batch = b, !.todo = rows]]
  /\ UNCHANGED <<batch, tx, events, torn>>

(* A row that is gone already ends the request. *)
RevertRow(w, i) ==
  /\ req[w].op = "revert" /\ i \in req[w].todo
  /\ IF i \in Live
     THEN /\ tx' = [tx EXCEPT ![i].state = "reverted"]
          /\ req' = [req EXCEPT ![w].todo = @ \ {i}]
     ELSE /\ req' = [req EXCEPT ![w] = Idle]
          /\ UNCHANGED tx
  /\ UNCHANGED <<batch, events, torn>>

EndRevert(w) ==
  /\ req[w].op = "revert" /\ req[w].todo = {}
  /\ batch' = [batch EXCEPT ![req[w].batch].status = "reverted"]
  /\ req' = [req EXCEPT ![w] = Idle]
  /\ UNCHANGED <<tx, events, torn>>

-----------------------------------------------------------------------------
(* What else happens *)

Enter(k) ==
  /\ Happens /\ Len(tx) < MaxRows
  /\ tx' = Append(tx, [state |-> "live", key |-> k, batch |-> Manual, line |-> 1,
                       late |-> FALSE, touched |-> FALSE])
  /\ batch' = Unseen(k, Manual)
  /\ UNCHANGED <<req, torn>>

(* An update changes updatedAt, and the fingerprint if it changes what it  *)
(* is made of.  touched: while no request was taking the row back.         *)
Updated(i, k) ==
  LET b == tx[i].batch
      completed == b # Manual /\ batch[b].status # "review"
      quiet == \A w \in Serving({"revert"}, b) : i \notin req[w].todo IN
  [tx[i] EXCEPT !.key = k, !.late = @ \/ completed, !.touched = @ \/ (completed /\ quiet)]

Update(i, k) ==
  /\ i \in Live /\ Happens
  /\ tx' = [tx EXCEPT ![i] = Updated(i, k)]
  /\ batch' = IF k = tx[i].key THEN batch ELSE Unseen(k, Manual)
  /\ UNCHANGED <<req, torn>>

Remove(i) ==
  /\ i \in Live /\ Happens
  /\ tx' = [tx EXCEPT ![i].state = "deleted"]
  /\ UNCHANGED <<batch, req, torn>>

(* The process restarts: previews and requests are gone. *)
Restart ==
  /\ Happens
  /\ batch' = [b \in DOMAIN batch |-> Gone(batch[b])]
  /\ req' = [w \in Workers |-> Idle]
  /\ torn' = torn \union {b \in DOMAIN batch : Serving(Committing, b) # {}}
  /\ UNCHANGED tx

-----------------------------------------------------------------------------
Init ==
  /\ batch = <<>> /\ tx = <<>>
  /\ req = [w \in Workers |-> Idle]
  /\ events = 0 /\ torn = {}

Next ==
  \/ \E w \in Workers :
       \/ \E file \in Files, force \in BOOLEAN : Upload(w, file, force)
       \/ Stage(w)
       \/ \E b \in DOMAIN batch : \E excluded \in SUBSET batch[b].lines : Commit(w, b, excluded)
       \/ \E failed \in BOOLEAN : ImportRow(w, failed)
       \/ RefuseRow(w) \/ Complete(w) \/ Unstage(w)
       \/ \E b \in DOMAIN batch : Revert(w, b)
       \/ \E i \in DOMAIN tx : RevertRow(w, i)
       \/ EndRevert(w)
  \/ \E k \in Keys : Enter(k)
  \/ \E i \in DOMAIN tx : Remove(i) \/ \E k \in Keys : Update(i, k)
  \/ Restart

Spec == Init /\ [][Next]_vars

-----------------------------------------------------------------------------
(* Properties *)

(* A commit adds a row that looks like a live one only if that one came    *)
(* after the preview, or was added by the same batch, committed again.     *)
PreviewHolds ==
  [][\A i \in DOMAIN tx' \ DOMAIN tx :
       LET b == tx'[i].batch IN
       b # Manual /\ tx'[i].key \in Known(Live) => tx'[i].key \in batch[b].unseen \/ b \in torn]_vars

(* No line is imported twice, unless the batch was committed again during  *)
(* a commit or after one that failed: a batch remembers nothing of its     *)
(* lines but that it was completed.                                        *)
LineOnce ==
  \A i, j \in DOMAIN tx :
    i < j /\ tx[i].batch = tx[j].batch /\ tx[i].line = tx[j].line =>
      tx[i].batch \in torn \union {Manual}

(* Of a batch that was reverted nothing is left; and RG-I3, a revert takes *)
(* no transaction the user changed since the import.  Both unless a commit *)
(* was torn: its rows come after the revert, or it moves completedAt.      *)
RevertIsClean ==
  \A i \in DOMAIN tx : tx[i].batch \notin torn \union {Manual} =>
    /\ tx[i].state = "live" => batch[tx[i].batch].status # "reverted"
    /\ tx[i].touched => tx[i].state # "reverted"

=============================================================================
