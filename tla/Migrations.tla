------------------------------- MODULE Migrations -------------------------------
(***************************************************************************)
(* The migrations of the database (database/src/migrate.ts). Every start   *)
(* of a deployed image runs them under an advisory lock, so runs come one  *)
(* after the other; a run can end at any file, by an error of the file, a  *)
(* crash before its COMMIT or a COMMIT whose answer is lost. A file is     *)
(* [name, sql]; what the database holds is the record of applied files     *)
(* and, in order, the effects their statements had.                        *)
(***************************************************************************)
EXTENDS Naturals, Sequences, SequencesExt

CONSTANTS None

Empty == [applied |-> <<>>, effects |-> <<>>]

Recorded(db, name) == IF name \in DOMAIN db.applied THEN db.applied[name] ELSE None

\* The statements and the record of the file are committed together.
Apply(db, file) ==
  [applied |-> [n \in DOMAIN db.applied \union {file.name} |->
                  IF n = file.name THEN file.sql ELSE db.applied[n]],
   effects |-> Append(db.effects, file)]

\* One file of a run: skipped if it was applied as it is, refused if it has changed,
\* else applied, unless this is where the run ends.
Step(run, file, ends) ==
  LET recorded == Recorded(run.db, file.name) IN
  IF run.status # "running" THEN run
  ELSE IF recorded = file.sql THEN run
  ELSE IF recorded # None THEN [run EXCEPT !.status = "changed"]
  ELSE IF ends.at = file.name
       THEN [db |-> IF ends.how = "unanswered" THEN Apply(run.db, file) ELSE run.db, status |-> ends.how]
  ELSE [run EXCEPT !.db = Apply(run.db, file)]

\* runMigrations(): the files of an image in the order of their names.
runMigrations(db, image, ends) ==
  LET run == FoldLeft(LAMBDA r, file : Step(r, file, ends), [db |-> db, status |-> "running"], image)
  IN  [run EXCEPT !.status = IF @ = "running" THEN "done" ELSE @]
=============================================================================
