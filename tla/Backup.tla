-------------------------------- MODULE Backup --------------------------------
(***************************************************************************)
(* The database backup task: when the next copy is due, writing it to a    *)
(* temporary file that is renamed when it is whole, retrying a copy that   *)
(* failed, and removing the day directories that are past retention.  The  *)
(* process may crash between any two of these and starts with an empty     *)
(* memory; the last backup is then read off the files.                     *)
(*                                                                         *)
(* Time is a small integer and a day has DayLen ticks.  The interval is    *)
(* whatever the operator configured: a whole number of days is kept as a   *)
(* daily schedule at BackupHour, any other is counted from the last backup.*)
(***************************************************************************)
EXTENDS Integers, FiniteSets

CONSTANTS DayLen, BackupHour,
          Intervals,         \* the intervals an operator may configure
          RetryDelay, RetryAttempts,
          RetentionDays,
          MaxBClock, MaxBFaults, MaxBCrashes   \* bounds

VARIABLES bclock,
          interval,          \* the configured one
          files,             \* *.db files: [at, mtime]
          tmp,               \* *.tmp files left or being written: start times
          lastBackupAt,      \* in memory; Never after a start
          retryAttempts, pendingRetry,
          due,               \* when the sleep ends
          backupAt,          \* start of the copy under way or just ended
          bpc,               \* where Run is
          attempts,          \* start times of all copies
          lastSaved,         \* start of the last copy that succeeded
          forgotten,         \* a restart has not found that copy
          bfaults, bcrashes

bvars == <<bclock, interval, files, tmp, lastBackupAt, retryAttempts, pendingRetry, due,
           backupAt, bpc, attempts, lastSaved, forgotten, bfaults, bcrashes>>

Never == -1
DayOf(t) == t \div DayLen

Init == /\ bclock = 0 /\ interval \in Intervals /\ files = {} /\ tmp = {}
        /\ lastBackupAt = Never /\ retryAttempts = 0 /\ pendingRetry = FALSE
        /\ due = 0 /\ backupAt = Never /\ bpc = "plan" /\ attempts = {}
        /\ lastSaved = Never /\ forgotten = FALSE
        /\ bfaults = 0 /\ bcrashes = 0

BTick == /\ bclock < MaxBClock
         /\ bclock' = bclock + 1
         /\ UNCHANGED <<interval, files, tmp, lastBackupAt, retryAttempts, pendingRetry, due,
                        backupAt, bpc, attempts, lastSaved, forgotten, bfaults, bcrashes>>

UsesDailySchedule == interval >= DayLen /\ interval % DayLen = 0

ModTimes == {f.mtime : f \in files}

LastKnownInMemory(found) == lastBackupAt

\* lastBackupAtFromHistory: the newer of memory and the newest file found.
LastKnown(found) ==
    LET times == {lastBackupAt} \cup found
    IN CHOOSE t \in times : \A u \in times : u <= t

NextDaily == LET today == DayOf(bclock) * DayLen + BackupHour
             IN IF bclock < today THEN today ELSE today + DayLen

\* nextDailyDelay, as the time the copy is due: so many days after the day of
\* the last backup, or the next backup hour when that has passed.
DailyDue(last) ==
    LET candidate == (DayOf(last) + interval \div DayLen) * DayLen + BackupHour
    IN IF last # Never /\ bclock < candidate THEN candidate ELSE NextDaily

\* nextDelay, as a time.  A due time that has passed ends the sleep at once.
NextDue(last) ==
    CASE pendingRetry -> bclock + RetryDelay
      [] ~pendingRetry /\ UsesDailySchedule -> DailyDue(last)
      [] ~pendingRetry /\ ~UsesDailySchedule /\ last = Never -> bclock
      [] OTHER -> last + interval

\* Nothing is found in a backup directory that cannot be read.
Plan(found) ==
    /\ bpc = "plan"
    /\ \/ found = ModTimes /\ UNCHANGED <<bfaults, forgotten>>
       \/ /\ found = {} /\ bfaults < MaxBFaults
          /\ bfaults' = bfaults + 1
          /\ forgotten' = (forgotten \/ lastBackupAt < lastSaved)
    /\ due' = NextDue(LastKnown(found))
    /\ bpc' = "sleep"
    /\ UNCHANGED <<bclock, interval, files, tmp, lastBackupAt, retryAttempts, pendingRetry,
                   backupAt, attempts, lastSaved, bcrashes>>

\* WriteDatabase opens the temporary file of this copy.
CopyStarts ==
    /\ bpc = "sleep" /\ bclock >= due
    /\ backupAt' = bclock
    /\ tmp' = tmp \cup {bclock}
    /\ attempts' = attempts \cup {bclock}
    /\ bpc' = "copy"
    /\ UNCHANGED <<bclock, interval, files, lastBackupAt, retryAttempts, pendingRetry, due,
                   lastSaved, forgotten, bfaults, bcrashes>>

\* A copy that fails, or a rename that does: the temporary file is removed.
CopyFails ==
    /\ bpc = "copy" /\ bfaults < MaxBFaults
    /\ bfaults' = bfaults + 1
    /\ tmp' = tmp \ {backupAt}
    /\ retryAttempts' = retryAttempts + 1
    /\ pendingRetry' = (retryAttempts + 1 <= RetryAttempts)
    /\ bpc' = "clean"
    /\ UNCHANGED <<bclock, interval, files, lastBackupAt, due, backupAt, attempts, lastSaved,
                   forgotten, bcrashes>>

\* The copy is whole; it gets its final name.
CopyEnds ==
    /\ bpc = "copy"
    /\ files' = files \cup {[at |-> backupAt, mtime |-> bclock]}
    /\ tmp' = tmp \ {backupAt}
    /\ lastBackupAt' = backupAt
    /\ retryAttempts' = 0 /\ pendingRetry' = FALSE
    /\ lastSaved' = backupAt /\ forgotten' = FALSE
    /\ bpc' = "clean"
    /\ UNCHANGED <<bclock, interval, due, backupAt, attempts, bfaults, bcrashes>>

\* Cleanup, after a copy whether or not it succeeded: whole day directories
\* go, with any temporary file a crash left in them.  A failure is logged.
Expired(t) == RetentionDays > 0 /\ DayOf(t) < DayOf(backupAt) - (RetentionDays - 1)

Clean ==
    /\ bpc = "clean"
    /\ \/ /\ files' = {f \in files : ~Expired(f.at)}
          /\ tmp' = {t \in tmp : ~Expired(t)}
          /\ UNCHANGED bfaults
       \/ /\ bfaults < MaxBFaults /\ bfaults' = bfaults + 1
          /\ UNCHANGED <<files, tmp>>
    /\ bpc' = "plan"
    /\ UNCHANGED <<bclock, interval, lastBackupAt, retryAttempts, pendingRetry, due, backupAt,
                   attempts, lastSaved, forgotten, bcrashes>>

\* Memory goes, files stay; a copy under way stays behind as a temporary file,
\* which ListFiles does not count as a backup.
Crash ==
    /\ bcrashes < MaxBCrashes
    /\ bcrashes' = bcrashes + 1
    /\ lastBackupAt' = Never /\ retryAttempts' = 0 /\ pendingRetry' = FALSE
    /\ due' = 0 /\ backupAt' = Never /\ bpc' = "plan"
    /\ UNCHANGED <<bclock, interval, files, tmp, attempts, lastSaved, forgotten, bfaults>>

Next == BTick \/ (\E found \in {ModTimes, {}} : Plan(found)) \/ CopyStarts \/ CopyFails
        \/ CopyEnds \/ Clean \/ Crash

Spec == Init /\ [][Next]_bvars

\* The backup hour a moment belongs to.
Round(t) == (t + DayLen - BackupHour) \div DayLen

\* How copies are spaced, restarts, long copies, late sleeps and an unreadable
\* backup directory included.
\*  - On the daily schedule there is, from one backup hour to the next, one
\*    copy and at most RetryAttempts retries, no two closer than the retry
\*    delay; a success, an exhausted round of retries or a restart leads back
\*    to the schedule.  (Two copies on the two sides of a backup hour may be
\*    closer: a round whose last retry fails just before the hour is followed
\*    by the daily copy.)
\*  - With any other interval no copy starts earlier than that interval after
\*    the last one that succeeded, unless a restart could not read the backup
\*    directory.
\*  - With either, a copy that is one of the RetryAttempts retries starts the
\*    retry delay after every copy before it.
\* Nothing is claimed of the copies after the last retry with an interval that
\* is not in whole days: the backup is overdue and they start at once.
BackupAttemptsArePaced ==
    /\ UsesDailySchedule =>
          \A a \in attempts :
              LET round == {b \in attempts : Round(b) = Round(a)}
              IN  /\ \A b \in round : a < b => b - a >= RetryDelay
                  /\ Cardinality(round) <= RetryAttempts + 1
    /\ ~UsesDailySchedule /\ lastSaved # Never /\ ~forgotten =>
          \A a \in attempts : a > lastSaved => a >= lastSaved + interval
    /\ bpc = "copy" /\ retryAttempts \in 1..RetryAttempts =>
          \A a \in attempts \ {backupAt} : a + RetryDelay <= backupAt
=============================================================================
