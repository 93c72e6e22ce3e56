------------------------------ MODULE Migrations ------------------------------
(***************************************************************************)
(* The migration runner of a release (backend/app/ops/migrate.py): several *)
(* processes, of several releases and with or without --baseline, may      *)
(* start at any time and die at any point.  A release is the sequence of   *)
(* its files' contents, which stand for their checksums too.               *)
(*                                                                         *)
(* The connection is in autocommit mode: each statement is a transaction   *)
(* except for those of one file.  The advisory lock belongs to the         *)
(* session, and is free when the process has died.                         *)
(***************************************************************************)
EXTENDS Naturals, Sequences, SequencesExt

CONSTANTS
  Contents,
  Releases,   \* sequences of contents
  Required,   \* numbers of the files that create the tables a baseline looks for
  Untracked,  \* sequences of contents an existing database may come from
  Runners, NoRunner

Files(release) == {<<n, release[n]>> : n \in DOMAIN release}

ASSUME MigrationsAssumption ==
  /\ NoRunner \notin Runners
  /\ Releases \subseteq Seq(Contents) \ {<<>>} /\ Untracked \subseteq Seq(Contents)

VARIABLES
  schema,   \* the files whose statements the database has, in their order
  tracked,  \* whether schema_migrations exists
  recorded, \* its rows: <<number, content>>
  holder,   \* who holds the advisory lock
  runner,   \* where each process stands, and what it has read
  flaws     \* "misjudged": a baseline was accepted though its release is not
            \* what the database has; "halfway": it died before its last record

mvars == <<schema, tracked, recorded, holder, runner, flaws>>

Off == [pc |-> "off", files |-> <<>>, baseline |-> FALSE, at |-> 0]
Applied == Range(schema)

MigrationsTypeOK ==
  /\ tracked \in BOOLEAN /\ flaws \subseteq {"misjudged", "halfway"}
  /\ holder \in Runners \cup {NoRunner}
  /\ recorded \subseteq UNION {Files(release) : release \in Releases}
  /\ \A r \in Runners : runner[r].pc \in {"off", "lock", "create", "read", "loop", "file"}

Set(r, pc) == runner' = [runner EXCEPT ![r].pc = pc]

\* The process ends: unlock in the finally clause, or the session is gone.
Leave(r) ==
  /\ runner' = [runner EXCEPT ![r] = Off]
  /\ holder' = IF holder = r THEN NoRunner ELSE holder

\* An operator starts a run.  A baseline should follow a review that found the
\* release's migrations in the database (deploy/README.md:11), and may be
\* started without.
Start(r, release, baseline) ==
  /\ runner[r].pc = "off"
  /\ runner' = [runner EXCEPT ![r] =
       [pc |-> "lock", files |-> release, baseline |-> baseline, at |-> 1]]
  /\ UNCHANGED <<schema, tracked, recorded, holder, flaws>>

Lock(r) ==
  /\ runner[r].pc = "lock" /\ holder = NoRunner
  /\ holder' = r
  /\ Set(r, "create")
  /\ UNCHANGED <<schema, tracked, recorded, flaws>>

(***************************************************************************)
(* The checks of an untracked database, and the table.  Of what a baseline *)
(* is about to record they see the names of six tables only: another       *)
(* version of a file creates a table of the same name, and other files are *)
(* not looked for.                                                         *)
(***************************************************************************)
LacksTable == \E n \in Required : \A f \in Applied : f[1] # n

Refused(r) ==
  IF ~tracked /\ schema # <<>>
  THEN ~runner[r].baseline \/ LacksTable
  ELSE runner[r].baseline

Misjudged(r) == runner[r].baseline /\ Files(runner[r].files) # Applied

CreateTable(r) ==
  /\ runner[r].pc = "create"
  /\ IF Refused(r)
     THEN Leave(r) /\ UNCHANGED <<tracked, flaws>>
     ELSE /\ tracked' = TRUE
          /\ Set(r, "read")
          /\ flaws' = flaws \cup IF Misjudged(r) THEN {"misjudged"} ELSE {}
          /\ UNCHANGED holder
  /\ UNCHANGED <<schema, recorded>>

\* The rows are read once; a row without a file is an error, and so is, when
\* the loop reaches it, a row with another checksum.
ReadApplied(r) ==
  /\ runner[r].pc = "read"
  /\ IF \E f \in recorded : f[1] \notin DOMAIN runner[r].files
     THEN Leave(r)
     ELSE Set(r, "loop") /\ UNCHANGED holder
  /\ UNCHANGED <<schema, tracked, recorded, flaws>>

Current(r) == <<runner[r].at, runner[r].files[runner[r].at]>>
Known(r) == \E f \in recorded : f[1] = runner[r].at

Mismatch(r) == Known(r) /\ Current(r) \notin recorded

Skip(r) ==
  /\ runner[r].pc = "loop" /\ runner[r].at \in DOMAIN runner[r].files
  /\ Known(r)
  /\ IF Mismatch(r)
     THEN Leave(r)
     ELSE runner' = [runner EXCEPT ![r].at = @ + 1] /\ UNCHANGED holder
  /\ UNCHANGED <<schema, tracked, recorded, flaws>>

\* The file's statements, in a transaction that is not committed yet.
Execute(r) ==
  /\ runner[r].pc = "loop" /\ runner[r].at \in DOMAIN runner[r].files
  /\ ~Known(r)
  /\ schema' = IF runner[r].baseline THEN schema ELSE Append(schema, Current(r))
  /\ Set(r, "file")
  /\ UNCHANGED <<tracked, recorded, holder, flaws>>

Commit(r) ==
  /\ runner[r].pc = "file"
  /\ recorded' = recorded \cup {Current(r)}
  /\ runner' = [runner EXCEPT ![r].pc = "loop", ![r].at = @ + 1]
  /\ UNCHANGED <<schema, tracked, holder, flaws>>

Finish(r) ==
  /\ runner[r].pc = "loop" /\ runner[r].at \notin DOMAIN runner[r].files
  /\ Leave(r)
  /\ UNCHANGED <<schema, tracked, recorded, flaws>>

\* Mutant of RolledBack: the file's statements are not in the transaction.
Autocommitted(r) == schema

RolledBack(r) ==
  IF runner[r].pc = "file" /\ ~runner[r].baseline THEN Front(schema) ELSE schema

\* The process dies, its connection is lost, or a statement fails.
Die(r) ==
  /\ runner[r].pc # "off"
  /\ schema' = RolledBack(r)
  /\ flaws' = flaws \cup IF runner[r].baseline /\ runner[r].pc \in {"read", "loop", "file"}
                         THEN {"halfway"} ELSE {}
  /\ Leave(r)
  /\ UNCHANGED <<tracked, recorded>>

-----------------------------------------------------------------------------

MigrationsInit ==
  /\ schema \in {[n \in DOMAIN s |-> <<n, s[n]>>] : s \in Untracked \cup {<<>>}}
  /\ tracked = FALSE /\ recorded = {} /\ holder = NoRunner
  /\ runner = [r \in Runners |-> Off]
  /\ flaws = {}

MigrationsNext ==
  \E r \in Runners :
    \/ \E release \in Releases, baseline \in BOOLEAN : Start(r, release, baseline)
    \/ Lock(r) \/ CreateTable(r) \/ ReadApplied(r)
    \/ Skip(r) \/ Execute(r) \/ Commit(r) \/ Finish(r) \/ Die(r)

MigrationsSpec == MigrationsInit /\ [][MigrationsNext]_mvars

-----------------------------------------------------------------------------
(***************************************************************************)
(* Properties                                                              *)
(***************************************************************************)

\* Whatever is recorded is in the database, unless a baseline was accepted of a
\* release the database has not, which the names of its tables do not always
\* show; and between files nothing else is in the database once the table
\* exists and no baseline is under way.
RecordIsTrue ==
  /\ "misjudged" \in flaws \/ recorded \subseteq Applied
  /\ tracked /\ flaws = {} /\ (\A r \in Runners : runner[r].pc # "file" /\ ~runner[r].baseline)
       => Applied = recorded

\* No file is executed in a database that has it, in this or in another
\* version; only a baseline that was misjudged or died halfway leaves a
\* database whose next run may do so (migrate.py run: the records of a baseline
\* are transactions of their own, and a second baseline is refused).
EachFileOnce ==
  flaws # {} \/ \A m, n \in DOMAIN schema : schema[m][1] = schema[n][1] => m = n

\* One version of each file is recorded, and a run that goes on past a file
\* has found or recorded this release's version of it, whichever runs came
\* before (migrate.py: "Migration checksum changed").
NoDrift ==
  /\ \A f, g \in recorded : f[1] = g[1] => f = g
  /\ \A r \in Runners : runner[r].pc \in {"loop", "file"} =>
       \A n \in 1 .. runner[r].at - 1 : <<n, runner[r].files[n]>> \in recorded

\* The schema is what the record says, and what the release says that passed,
\* through crashes, concurrent runs and runs of older, newer and edited
\* releases; but what a baseline records is as true as its operator's review
\* (migrate.py run).  With the types of the variables.
SchemaMatchesRecord == MigrationsTypeOK /\ RecordIsTrue /\ EachFileOnce /\ NoDrift
===============================================================================
