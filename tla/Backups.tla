--------------------------------- MODULE Backups --------------------------------
(***************************************************************************)
(* The nightly backup and the restore test (apps/operations/backups.py):   *)
(* a dump and its checksum in a bucket, what is pruned from it, and the    *)
(* row that says how a run ended.                                          *)
(*                                                                         *)
(* Every call to the bucket is a step that may fail; a worker may be lost  *)
(* at any of them, and the queue then delivers the task again, beside one  *)
(* that an operator started by hand.                                       *)
(***************************************************************************)
EXTENDS Integers, FiniteSets

CONSTANTS
    Runners,      \* workers and shells that may run a backup
    Retention,    \* BACKUP_RETENTION_DAYS
    LastNight,    \* bound: days
    MaxDumps      \* bound: backups begun

ASSUME BackupsAssumption ==
    /\ Retention \in Nat \ {0} /\ LastNight \in Nat /\ MaxDumps \in Nat

VARIABLES
    night,      \* the day
    bucket,     \* objects: a dump or a checksum, of which backup, put there when
    runner,     \* runner[r]: the backup it takes and the step it is at
    taken,      \* backups begun: the names of the files
    backupRuns  \* BackupRun rows of backups: which, how it ended, when begun

backupVars == <<night, bucket, runner, taken, backupRuns>>

-----------------------------------------------------------------------------
Dumps == 1 .. MaxDumps
NotRunning == [at |-> "none", of |-> 0, since |-> 0]
Object(kind, n) == [kind |-> kind, of |-> n, on |-> night]

Running(r, at) == runner[r].at = at
Goes(r, at) == runner' = [runner EXCEPT ![r].at = at]
Stops(r) == runner' = [runner EXCEPT ![r] = NotRunning]
Recorded(r, outcome) ==
    backupRuns' = backupRuns \cup
        {[of |-> runner[r].of, outcome |-> outcome, started |-> runner[r].since]}

ObjectsOf(kind) == {x \in bucket : x.kind = kind}
Whole(n) == \A kind \in {"dump", "checksum"} : \E x \in ObjectsOf(kind) : x.of = n

-----------------------------------------------------------------------------
PastRetention(x) == x.on < night - Retention
Kept(objects) == {x \in objects : ~PastRetention(x)}
Named(r) ==
    /\ runner[r] = NotRunning /\ taken < MaxDumps
    /\ taken' = taken + 1
    /\ runner' = [runner EXCEPT ![r] = [at |-> "dumped", of |-> taken', since |-> night]]
    /\ UNCHANGED <<night, backupRuns>>

\* A plausible bug: room is made before the dump is there.
BeginPruning(r) == Named(r) /\ bucket' = Kept(bucket)

\* pg_dump, into a file of its own.
Begin(r) == Named(r) /\ UNCHANGED bucket

Upload(r) ==
    /\ Running(r, "dumped")
    /\ bucket' = bucket \cup {Object("dump", runner[r].of)}
    /\ Goes(r, "uploaded")
    /\ UNCHANGED <<night, taken, backupRuns>>

UploadChecksum(r) ==
    /\ Running(r, "uploaded")
    /\ bucket' = bucket \cup {Object("checksum", runner[r].of)}
    /\ Goes(r, "checked")
    /\ UNCHANGED <<night, taken, backupRuns>>

\* _prune compares each object's own age.
Prune(r) ==
    /\ Running(r, "checked")
    /\ bucket' = Kept(bucket)
    /\ Goes(r, "pruned")
    /\ UNCHANGED <<night, taken, backupRuns>>

\* The deletions stop half way.
PrunedInPart(r) ==
    IF Running(r, "checked")
    THEN \E gone \in SUBSET (bucket \ Kept(bucket)) : bucket' = bucket \ gone
    ELSE UNCHANGED bucket

Succeed(r) ==
    /\ Running(r, "pruned")
    /\ Recorded(r, "succeeded") /\ Stops(r)
    /\ UNCHANGED <<night, bucket, taken>>

\* A step raises: the run is recorded as failed, and not tried again.
FailBackup(r) ==
    /\ runner[r].at \in {"dumped", "uploaded", "checked"}
    /\ PrunedInPart(r)
    /\ Recorded(r, "failed") /\ Stops(r)
    /\ UNCHANGED <<night, taken>>

\* The worker is lost.  No row says so; the task, acknowledged late, is
\* delivered again and begins anew.
LoseRunner(r) ==
    /\ runner[r] # NotRunning
    /\ PrunedInPart(r) /\ Stops(r)
    /\ UNCHANGED <<night, taken, backupRuns>>

\* A run is over long before the retention is: the dump has a timeout.
NextNight ==
    /\ \A r \in Runners : runner[r] # NotRunning => night - runner[r].since < Retention
    /\ night < LastNight /\ night' = night + 1
    /\ UNCHANGED <<bucket, runner, taken, backupRuns>>

-----------------------------------------------------------------------------
\* run_restore_test: the newest dump, if its checksum is there.  The scratch
\* database it makes is dropped whatever happens.
Newest(n) ==
    \E x \in ObjectsOf("dump") : x.of = n /\ \A y \in ObjectsOf("dump") : y.on <= x.on
RestoreWorks(n) == Newest(n) /\ Whole(n)

BackupsInit ==
    /\ night = 0 /\ bucket = {} /\ taken = 0 /\ backupRuns = {}
    /\ runner = [r \in Runners |-> NotRunning]

BackingUp(r) ==
    \/ Begin(r) \/ Upload(r) \/ UploadChecksum(r) \/ Prune(r) \/ Succeed(r)
    \/ FailBackup(r) \/ LoseRunner(r)
BackupsNext == NextNight \/ \E r \in Runners : BackingUp(r)

BackupsSpec == BackupsInit /\ [][BackupsNext]_backupVars

-----------------------------------------------------------------------------
\* What a succeeded run promises (backups.py): within the retention its dump
\* and checksum are in the bucket, and the restore test of the newest dump
\* passes if its backup succeeded; and once one has, the bucket is never again
\* without a whole backup, however many nights fail.
AlwaysRestorable ==
    LET succeeded == {run \in backupRuns : run.outcome = "succeeded"} IN
    /\ \A run \in succeeded : /\ run.started >= night - Retention => Whole(run.of)
                              /\ Newest(run.of) => RestoreWorks(run.of)
    /\ succeeded # {} => \E n \in Dumps : Whole(n)

=============================================================================
