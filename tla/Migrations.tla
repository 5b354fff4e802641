----------------------------- MODULE Migrations -----------------------------
(***************************************************************************)
(* pkg/migrations: the runner that brings the database of one service up   *)
(* to date, and the processes that call it at the same time: migration     *)
(* commands and, for subscription-api, every instance that starts.  Their  *)
(* binaries may be of different releases, with files of their own.         *)
(*                                                                         *)
(* A process applies its service's list and then the one of the outbox.    *)
(* A migration is one transaction: a look at schema_migrations that takes  *)
(* no lock, the statements of the file, the new row.  PostgreSQL makes     *)
(* whoever is second to create something wait for the first transaction,   *)
(* and fail if that commits.                                               *)
(*                                                                         *)
(* What the statements say is left out; a checksum stands for it.          *)
(***************************************************************************)
EXTENDS Integers, FiniteSets, Sequences, SequencesExt

CONSTANTS
  Runners,       \* processes
  Releases,      \* builds of the service
  Files,         \* the embedded files of each: [service, version, sum]
  Checksums,
  Absent,        \* model value: no row in schema_migrations
  MaxFaults      \* bound: crashes and lost connections

ASSUME AbsentAssumption == Absent \notin Checksums
ASSUME FilesAssumption ==
  \A b \in Releases :
    /\ IsFiniteSet(Files[b])
    /\ \A f \in Files[b] :
         f.service \in {"own", "outbox"} /\ f.version \in Nat /\ f.sum \in Checksums
\* Load refuses a directory with two files of one version before Run starts.
ASSUME UniqueAssumption ==
  \A b \in Releases : \A f, g \in Files[b] :
    f.service = g.service /\ f.version = g.version => f = g
ASSUME BoundAssumption == MaxFaults \in Nat

VARIABLES
  release,     \* the build each process runs
  table,       \* schema_migrations exists
  recorded,    \* checksum of the row of each migration
  schema,      \* history: the migrations whose statements were committed
  pc, pos,     \* per process: its step, and the migration it is at
  faults

db == <<table, recorded, schema>>
vars == <<release, db, pc, pos, faults>>

AllFiles == UNION {Files[b] : b \in Releases}
Id(f) == <<f.service, f.version>>
Ids == {Id(f) : f \in AllFiles}

Stages == {"start", "create", "check", "apply", "commit", "done", "failed"}

Init ==
  /\ release \in [Runners -> Releases]
  /\ table = FALSE
  /\ recorded = [m \in Ids |-> Absent]
  /\ schema = <<>>
  /\ pc = [r \in Runners |-> "start"]
  /\ pos = [r \in Runners |-> 1]
  /\ faults = 0

\* The files of a directory by version.
Load(files) ==
  CHOOSE s \in SetToSeqs(files) :
    \A i, j \in 1..Len(s) : i < j => s[i].version < s[j].version

Of(b, service) == {f \in Files[b] : f.service = service}
Plans == [b \in Releases |-> Load(Of(b, "own")) \o Load(Of(b, "outbox"))]
Plan(r) == Plans[release[r]]
Current(r) == Plan(r)[pos[r]]

Goto(r, stage) == pc' = [pc EXCEPT ![r] = stage]
Fail(r) == Goto(r, "failed") /\ UNCHANGED <<db, pos>>
Advance(r) == pos' = [pos EXCEPT ![r] = @ + 1]

-----------------------------------------------------------------------------
\* CREATE TABLE IF NOT EXISTS looks first and creates then.
CreateTable(r) ==
  /\ pc[r] = "start"
  /\ Goto(r, IF table THEN "check" ELSE "create")
  /\ UNCHANGED <<release, db, pos, faults>>

\* Two that both saw no table: the second one gets a unique violation.
TableCreated(r) ==
  /\ pc[r] = "create"
  /\ IF table THEN Fail(r)
     ELSE /\ table' = TRUE
          /\ Goto(r, "check")
          /\ UNCHANGED <<recorded, schema, pos>>
  /\ UNCHANGED <<release, faults>>

AllChecked(r) ==
  /\ pc[r] = "check" /\ pos[r] > Len(Plan(r))
  /\ Goto(r, "done")
  /\ UNCHANGED <<release, db, pos, faults>>

\* Mistake: the row is looked up by its version alone.
RowByVersion(f) ==
  LET rows == {m \in Ids : m[2] = f.version /\ recorded[m] # Absent}
  IN IF rows = {} THEN Absent ELSE recorded[CHOOSE m \in rows : TRUE]

\* The checksum in schema_migrations.
Row(f) == recorded[Id(f)]

\* Mistake: a migration that is recorded is passed over, whatever it was.
CheckRecordedAny(r) ==
  /\ pc[r] = "check" /\ pos[r] <= Len(Plan(r))
  /\ IF Row(Current(r)) = Absent THEN Goto(r, "apply") /\ UNCHANGED <<db, pos>>
     ELSE Advance(r) /\ UNCHANGED <<db, pc>>
  /\ UNCHANGED <<release, faults>>

\* Recorded with this checksum: on to the next.  With another one: an error.
CheckRecorded(r) ==
  /\ pc[r] = "check" /\ pos[r] <= Len(Plan(r))
  /\ IF Row(Current(r)) = Absent THEN Goto(r, "apply") /\ UNCHANGED <<db, pos>>
     ELSE IF Row(Current(r)) = Current(r).sum THEN Advance(r) /\ UNCHANGED <<db, pc>>
     ELSE Fail(r)
  /\ UNCHANGED <<release, faults>>

\* Another transaction has created the same and is not committed.
Blocked(r) ==
  \E q \in Runners \ {r} : pc[q] = "commit" /\ Id(Current(q)) = Id(Current(r))

\* Mistake: the insert has ON CONFLICT DO NOTHING.
ApplyNoConflict(r) ==
  /\ pc[r] = "apply" /\ ~Blocked(r)
  /\ Goto(r, "commit") /\ UNCHANGED <<db, pos>>
  /\ UNCHANGED <<release, faults>>

\* The statements and the row, in one transaction.  If another process has
\* committed the same since the check, this one is rolled back.
Apply(r) ==
  /\ pc[r] = "apply" /\ ~Blocked(r)
  /\ IF recorded[Id(Current(r))] # Absent THEN Fail(r)
     ELSE Goto(r, "commit") /\ UNCHANGED <<db, pos>>
  /\ UNCHANGED <<release, faults>>

\* Mistake: the arguments are swapped.
CommitSwapped(r) ==
  /\ pc[r] = "commit"
  /\ recorded' = [recorded EXCEPT ![Id(Current(r))] = Current(r).version]
  /\ schema' = Append(schema, Current(r))
  /\ Advance(r)
  /\ Goto(r, "check")
  /\ UNCHANGED <<release, table, faults>>

Commit(r) ==
  /\ pc[r] = "commit"
  /\ recorded' = [recorded EXCEPT ![Id(Current(r))] = Current(r).sum]
  /\ schema' = Append(schema, Current(r))
  /\ Advance(r)
  /\ Goto(r, "check")
  /\ UNCHANGED <<release, table, faults>>

Work(r) ==
  \/ CreateTable(r) \/ TableCreated(r)
  \/ AllChecked(r) \/ CheckRecorded(r) \/ Apply(r) \/ Commit(r)

-----------------------------------------------------------------------------
\* The process dies or loses the database: its transaction is rolled back.
Die(r) ==
  /\ pc[r] \notin {"done", "failed"}
  /\ faults < MaxFaults
  /\ faults' = faults + 1
  /\ Fail(r)
  /\ UNCHANGED release

\* External: whoever deploys runs the command or starts the service again.
Again(r) ==
  /\ pc[r] = "failed"
  /\ Goto(r, "start")
  /\ pos' = [pos EXCEPT ![r] = 1]
  /\ UNCHANGED <<release, db, faults>>

Next == \E r \in Runners : Work(r) \/ Die(r) \/ Again(r)

Spec == Init /\ [][Next]_vars

FairSpec == Spec /\ \A r \in Runners : WF_vars(Work(r)) /\ WF_vars(Again(r))

-----------------------------------------------------------------------------
TypeOK ==
  /\ release \in [Runners -> Releases]
  /\ table \in BOOLEAN
  /\ recorded \in [Ids -> Checksums \union {Absent}]
  /\ schema \in Seq(AllFiles)
  /\ pc \in [Runners -> Stages]
  /\ pos \in [Runners -> Nat \ {0}]
  /\ faults \in 0..MaxFaults

\* The record and the schema agree: what is recorded has been applied once, by
\* whichever of the processes that raced for it, and nothing else has been.
RecordedIsApplied ==
  \A m \in Ids :
    LET times == {i \in 1..Len(schema) : Id(schema[i]) = m} IN
      IF recorded[m] = Absent THEN times = {}
      ELSE \E i \in times : times = {i} /\ schema[i].sum = recorded[m]

\* A process applies a migration, and reports success, only on top of what its
\* own release says: everything before it in its list is in the database with
\* the same contents, and of its own service every lower version.
BuildsOnItsRelease ==
  \A r \in Runners :
    LET at == IF pc[r] = "done" THEN Files[release[r]]
              ELSE IF pc[r] = "commit"
                THEN {f \in Of(release[r], Current(r).service) : f.version < Current(r).version}
              ELSE {}
    IN \A f \in at : recorded[Id(f)] = f.sum

\* No other release in use has changed a file of this one.
Undisputed(r) ==
  \A q \in Runners : \A f \in Files[release[r]], g \in Files[release[q]] :
    Id(f) = Id(g) => f.sum = g.sum

\* A process whose files nobody disputes succeeds in the end, however often it
\* loses a race and has to be started again.
MigrationsEnd == \A r \in Runners : Undisputed(r) ~> pc[r] = "done"

\* Racing, failing and restarted processes of several releases leave what a
\* sequence of single installations leaves.
Ledger == INSTANCE SchemaLedger WITH None <- Absent, ledger <- recorded, log <- schema
LedgerSafety == Ledger!LedgerSafety
=============================================================================
