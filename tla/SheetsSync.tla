------------------------------ MODULE SheetsSync ------------------------------
(***************************************************************************)
(* The scheduled import of shared Google sheets into the POS rows:          *)
(* runSheetsSync with its lock and its schedules (jobs/syncSheets.ts), the  *)
(* cron routes that call it, the import a user commits meanwhile and the    *)
(* clearing of POS data (posController.ts).                                 *)
(*                                                                         *)
(* Time is the local time of the schedules, in ticks. Of an instant in the  *)
(* past isScheduleDue can tell only whether it lies in this hour, in this   *)
(* day, or before; so that is what is kept of it (its age), and the clock   *)
(* needs no bound.                                                          *)
(***************************************************************************)
EXTENDS Integers, Sequences

CONSTANTS
    Companies,
    Healthy,      \* companies whose configuration, sheet and writes do not fail
    Schedule,     \* [Companies -> Schedules]: the schedule of the pos_daily connector
    Jobs,         \* calls of runSheetsSync in progress at a time
    Users,        \* handlers of user requests in progress at a time
    CronTimes,    \* times of day at which the scheduler calls
    HourLen,      \* ticks in an hour
    DayLen,       \* ticks in a day
    WeekLen,      \* days in a week
    LockTTL,      \* LOCK_TTL_MS, in ticks
    Days,         \* dates that a row may have
    History,      \* [Companies -> sequences of sets of days]: the days that have a
                  \* row in each version of a company's sheet, one per edit
    MaxRun,       \* bound: ticks that a run lasts
    MaxRequests,  \* bound: user requests
    MaxCrashes    \* bound: processes that die during a run

Ages == {"never", "hour", "day", "before"}
Schedules == [enabled : BOOLEAN, frequency : {"hourly", "daily", "weekly", "manual"},
              at : Nat, on : Nat]
\* "active": listed by the sync, its connector usable; "dangling": listed, but
\* the profile or connector is gone or disabled; "off": not listed.
Configs == {"active", "dangling", "off"}

ASSUME SheetsAssumption ==
    /\ Healthy \subseteq Companies
    /\ Schedule \in [Companies -> Schedules]
    /\ HourLen \in Nat \ {0} /\ DayLen \in Nat \ {0} /\ WeekLen \in Nat \ {0}
    /\ DayLen % HourLen = 0
    /\ CronTimes \subseteq 0 .. DayLen - 1
    /\ LockTTL \in Nat /\ MaxRun \in Nat
    /\ Days \subseteq Nat
    /\ History \in [Companies -> Seq(SUBSET Days) \ {<<>>}]
    /\ \A c \in Healthy : {} \notin {History[c][v] : v \in DOMAIN History[c]}
    /\ MaxRequests \in Nat /\ MaxCrashes \in Nat
    /\ "none" \notin Companies

VARIABLES
    tod,      \* local time of day
    weekday,  \* local day of the week
    called,   \* the scheduler has called at this time of day
    lock,     \* ticks until the JobLock expires; 0 when it is free
    config,   \* what IntegrationSettings says of each company's shared sheet
    last,     \* age of googleSheets.shared.lastScheduledSyncAt
    stamps,   \* history: scheduled imports recorded in the period, at most 2 counted
    sheet,    \* version of the rows in the spreadsheet
    pos,      \* of each day's row in POSDailySummary, the version of the sheet it
              \* is from; 0 when the day has none
    job,      \* progress of each run
    user,     \* progress of each user request
    requests, \* user requests so far
    crashes   \* processes that died so far

clockVars == <<tod, weekday, called>>
dataVars == <<config, sheet, pos>>
boundVars == <<requests, crashes>>
vars == <<tod, weekday, called, lock, config, last, stamps, sheet, pos, job, user,
          requests, crashes>>

Idle == [pc |-> "idle", dry |-> FALSE, age |-> 0, todo |-> {}, usable |-> {},
         seen |-> [c \in Companies |-> "never"], cur |-> "none", version |-> 0,
         left |-> {}, at |-> "never"]
Steps == {"idle", "claim", "load", "next", "read", "import", "mark", "stamp"}
Free == [pc |-> "idle", cur |-> "none", version |-> 0, left |-> {}]

JobRecord == [pc : Steps, dry : BOOLEAN, age : 0 .. MaxRun,
              todo : SUBSET Companies, usable : SUBSET Companies,
              seen : [Companies -> Ages], cur : Companies \cup {"none"},
              version : Nat, left : SUBSET Days, at : Ages]
UserRecord == [pc : {"idle", "import"}, cur : Companies \cup {"none"}, version : Nat,
               left : SUBSET Days]

\* The days that have a row in version v of the sheet of c.
RowsOf(c, v) == History[c][v]

TypeOK ==
    /\ tod \in 0 .. DayLen - 1 /\ weekday \in 0 .. WeekLen - 1 /\ called \in BOOLEAN
    /\ lock \in 0 .. LockTTL
    /\ config \in [Companies -> Configs]
    /\ last \in [Companies -> Ages]
    /\ stamps \in [Companies -> 0 .. 2]
    /\ sheet \in [Companies -> Nat] /\ \A c \in Companies : sheet[c] \in DOMAIN History[c]
    /\ pos \in [Companies -> [Days -> Nat]]
    /\ job \in [Jobs -> JobRecord] /\ user \in [Users -> UserRecord]
    /\ requests \in 0 .. MaxRequests /\ crashes \in 0 .. MaxCrashes

Init ==
    /\ tod = 0 /\ weekday = 0 /\ called = FALSE
    /\ lock = 0
    /\ config \in [Companies -> Configs]
    /\ \A c \in Healthy : config[c] = "active"
    /\ last = [c \in Companies |-> "never"]
    /\ stamps = [c \in Companies |-> 0]
    /\ sheet = [c \in Companies |-> 1]
    /\ pos = [c \in Companies |-> [d \in Days |-> 0]]
    /\ job = [j \in Jobs |-> Idle]
    /\ user = [u \in Users |-> Free]
    /\ requests = 0 /\ crashes = 0
-----------------------------------------------------------------------------
(* The schedule. *)

\* Mutant: the last sync is compared by the hour whatever the frequency.
DueHourly(c, lastSync) ==
    LET s == Schedule[c] IN
    \/ ~s.enabled
    \/ /\ s.frequency # "manual"
       /\ tod >= s.at
       /\ s.frequency = "weekly" => weekday = s.on
       /\ lastSync # "hour"

\* isScheduleDue of company c now, given the last sync it is told of. A
\* schedule that is not enabled holds nothing back.
Due(c, lastSync) ==
    LET s == Schedule[c] IN
    \/ ~s.enabled
    \/ /\ s.frequency # "manual"
       /\ tod >= s.at
       /\ s.frequency = "weekly" => weekday = s.on
       /\ lastSync \notin (IF s.frequency = "hourly" THEN {"hour"} ELSE {"hour", "day"})

CronWaits == tod \in CronTimes /\ ~called

NewHour == (tod + 1) % HourLen = 0
NewDay == tod + 1 = DayLen

\* What becomes of an age when the clock moves by a tick.
Aged(age) ==
    CASE age = "never" -> "never"
      [] NewDay -> "before"
      [] NewHour /\ age = "hour" -> "day"
      [] OTHER -> age

\* Mutant: the lock's time runs on when it has expired.
ExpiringOn(left) == left - 1

\* Mutant: the lock is judged by isLocked, which only the end of a run clears.
Held(left) == left

\* expiresAt against the clock: what is left of the lock a tick later.
Expiring(left) == IF left > 0 THEN left - 1 ELSE 0

\* The clock moves. A run lasts at most MaxRun ticks, and a call of the
\* scheduler is made before its time passes.
Tick ==
    /\ ~CronWaits
    /\ \A j \in Jobs : job[j].pc # "idle" => job[j].age < MaxRun
    /\ tod' = (tod + 1) % DayLen
    /\ weekday' = IF NewDay THEN (weekday + 1) % WeekLen ELSE weekday
    /\ called' = FALSE
    /\ lock' = Expiring(lock)
    /\ last' = [c \in Companies |-> Aged(last[c])]
    /\ stamps' = [c \in Companies |->
           IF NewDay \/ (NewHour /\ Schedule[c].frequency = "hourly")
           THEN 0 ELSE stamps[c]]
    /\ job' = [j \in Jobs |-> IF job[j].pc = "idle" THEN job[j] ELSE
           [job[j] EXCEPT !.age = @ + 1, !.at = Aged(@),
                          !.seen = [c \in Companies |-> Aged(@[c])]]]
    /\ UNCHANGED <<dataVars, user, boundVars>>
-----------------------------------------------------------------------------
(* A run of runSheetsSync: each await ends an action. *)

Goes(j, record) == job' = [job EXCEPT ![j] = record]

\* acquireLock reads the lock; its time now is that of this step. A run that
\* finds the lock taken returns at once.
Acquire(j, dry) ==
    IF lock > 0 THEN UNCHANGED job
    ELSE Goes(j, [Idle EXCEPT !.pc = "claim", !.dry = dry])

\* The scheduler calls /api/cron/sync-sheets or /api/cron/accounting-sync.
Cron(j) ==
    /\ CronWaits /\ job[j].pc = "idle"
    /\ called' = TRUE
    /\ Acquire(j, FALSE)
    /\ UNCHANGED <<tod, weekday, lock, dataVars, last, stamps, user, boundVars>>

\* An operator calls the route by hand, perhaps with dryRun.
CallByHand(j) ==
    /\ ~CronWaits /\ job[j].pc = "idle"
    /\ \E dry \in BOOLEAN : Acquire(j, dry)
    /\ UNCHANGED <<clockVars, lock, dataVars, last, stamps, user, boundVars>>

\* acquireLock writes the lock: it expires LockTTL after the time it was read.
Claim(j) ==
    /\ job[j].pc = "claim"
    /\ lock' = IF job[j].age < LockTTL THEN LockTTL - job[j].age ELSE 0
    /\ Goes(j, [job[j] EXCEPT !.pc = "load"])
    /\ UNCHANGED <<clockVars, dataVars, last, stamps, user, boundVars>>

\* All settings are read at once; schedules and last syncs are used later.
LoadSettings(j) ==
    /\ job[j].pc = "load"
    /\ Goes(j, [job[j] EXCEPT !.pc = "next",
                  !.todo = {c \in Companies : config[c] # "off"},
                  !.usable = {c \in Companies : config[c] = "active"},
                  !.seen = last])
    /\ UNCHANGED <<clockVars, lock, dataVars, last, stamps, user, boundVars>>

\* The next company of the list: skipped, or its sheet is wanted.
TakeCompany(j) ==
    /\ job[j].pc = "next"
    /\ \E c \in job[j].todo :
          LET wanted == c \in job[j].usable /\ Due(c, job[j].seen[c])
              rest == [job[j] EXCEPT !.todo = @ \ {c}]
          IN Goes(j, IF wanted THEN [rest EXCEPT !.pc = "read", !.cur = c] ELSE rest)
    /\ UNCHANGED <<clockVars, lock, dataVars, last, stamps, user, boundVars>>

\* The list is done: the lock is released, whoever holds it by now.
Release(j) ==
    /\ job[j].pc = "next" /\ job[j].todo = {}
    /\ lock' = 0
    /\ Goes(j, Idle)
    /\ UNCHANGED <<clockVars, dataVars, last, stamps, user, boundVars>>

\* Mutant: an error ends the run.
LeaveAll(j) ==
    Goes(j, [job[j] EXCEPT !.pc = "next", !.cur = "none", !.version = 0, !.left = {},
                           !.at = "never",
                           !.todo = IF job[j].pc = "stamp" THEN @ ELSE {}])

\* The company is done, imported or not; the run goes on with the others.
Leave(j) == Goes(j, [job[j] EXCEPT !.pc = "next", !.cur = "none", !.version = 0, !.left = {},
                                   !.at = "never"])

\* An await that rejects, or rows that are refused, count as failed.
MayFail(j) == job[j].cur \notin Healthy

\* readSharedSheetRows finds the binding again, and reads the sheet as it is
\* now; without rows there is nothing to import.
ReadSheet(j) ==
    LET c == job[j].cur  rows == RowsOf(c, sheet[c]) IN
    /\ job[j].pc = "read"
    /\ \/ /\ config[c] # "dangling" /\ ~job[j].dry /\ rows # {}
          /\ Goes(j, [job[j] EXCEPT !.pc = "import", !.version = sheet[c], !.left = rows])
       \/ /\ job[j].dry \/ rows = {} \/ MayFail(j)
          /\ Leave(j)
    /\ UNCHANGED <<clockVars, lock, dataVars, last, stamps, user, boundVars>>

\* Mutant: a day that has a row keeps it ($setOnInsert).
InsertedOnly(rows, d, v) == [rows EXCEPT ![d] = IF @ = 0 THEN v ELSE @]

\* updateOne by company and date with upsert: the row of that day is set or
\* created. No row is ever deleted: one that left the sheet stays.
Upserted(rows, d, v) == [rows EXCEPT ![d] = v]

\* importEvaluatedRowsForCompany: the bulkWrite, one row after the other.
ImportRow(j) ==
    /\ job[j].pc = "import"
    /\ \E d \in job[j].left :
          /\ pos' = [pos EXCEPT ![job[j].cur] = Upserted(@, d, job[j].version)]
          /\ Goes(j, [job[j] EXCEPT !.left = @ \ {d}])
    /\ UNCHANGED <<clockVars, lock, config, sheet, last, stamps, user, boundVars>>

\* It is over, and importedAt is the time after it; or it rejects, with some of
\* the rows written.
EndImport(j) ==
    /\ job[j].pc = "import"
    /\ \/ job[j].left = {} /\ Goes(j, [job[j] EXCEPT !.pc = "mark", !.at = "hour"])
       \/ MayFail(j) /\ Leave(j)
    /\ UNCHANGED <<clockVars, lock, dataVars, last, stamps, user, boundVars>>

\* markConnectorImported loads and saves the settings document, which fails if
\* its profiles were changed in between. Only displays read what it writes.
MarkImported(j) ==
    /\ job[j].pc = "mark"
    /\ \/ Goes(j, [job[j] EXCEPT !.pc = "stamp"])
       \/ MayFail(j) /\ Leave(j)
    /\ UNCHANGED <<clockVars, lock, dataVars, last, stamps, user, boundVars>>

\* Whether an instant of this age lies in the current period of c's schedule.
InPeriod(c, age) ==
    age \in (IF Schedule[c].frequency = "hourly" THEN {"hour"} ELSE {"hour", "day"})

\* lastScheduledSyncAt becomes importedAt.
Stamp(j) ==
    LET c == job[j].cur IN
    /\ job[j].pc = "stamp"
    /\ \/ /\ last' = [last EXCEPT ![c] = job[j].at]
          /\ stamps' = [stamps EXCEPT ![c] =
                IF InPeriod(c, job[j].at) /\ @ < 2 THEN @ + 1 ELSE @]
       \/ MayFail(j) /\ UNCHANGED <<last, stamps>>
    /\ Leave(j)
    /\ UNCHANGED <<clockVars, lock, dataVars, user, boundVars>>

\* The process dies: its lock stays until it expires.
Crash(j) ==
    /\ job[j].pc # "idle" /\ crashes < MaxCrashes
    /\ crashes' = crashes + 1
    /\ Goes(j, Idle)
    /\ UNCHANGED <<clockVars, lock, dataVars, last, stamps, user, requests>>
-----------------------------------------------------------------------------
(* Users. None of this takes the lock. *)

Begin == requests < MaxRequests /\ requests' = requests + 1

\* commitPosImportFromSharedSheet reads the sheet ...
ReadShared(u) ==
    /\ user[u].pc = "idle" /\ Begin
    /\ \E c \in Companies :
          /\ config[c] # "dangling" /\ RowsOf(c, sheet[c]) # {}
          /\ user' = [user EXCEPT ![u] = [pc |-> "import", cur |-> c, version |-> sheet[c],
                                          left |-> RowsOf(c, sheet[c])]]
    /\ UNCHANGED <<clockVars, lock, dataVars, last, stamps, job, crashes>>

\* ... and upserts its rows; lastScheduledSyncAt is not touched.
ImportSharedRow(u) ==
    /\ user[u].pc = "import"
    /\ \E d \in user[u].left :
          /\ pos' = [pos EXCEPT ![user[u].cur] = Upserted(@, d, user[u].version)]
          /\ user' = [user EXCEPT ![u].left = @ \ {d}]
    /\ UNCHANGED <<clockVars, lock, config, sheet, last, stamps, job, boundVars>>

\* All rows are written, the bulk write rejects, or the process dies.
EndShared(u) ==
    /\ user[u].pc = "import"
    /\ user' = [user EXCEPT ![u] = Free]
    /\ UNCHANGED <<clockVars, lock, dataVars, last, stamps, job, boundVars>>

\* clearPosDailyData: of a range of dates, or of all.
ClearPosDailyData(c) ==
    /\ Begin
    /\ \E from, to \in Days :
          pos' = [pos EXCEPT ![c] = [d \in Days |-> IF d \in from .. to THEN 0 ELSE @[d]]]
    /\ UNCHANGED <<clockVars, lock, config, sheet, last, stamps, job, user, crashes>>

\* The settings handlers: a profile is removed, a connector or the integration
\* is switched off or on.
EditSettings(c) ==
    /\ c \notin Healthy /\ Begin
    /\ \E k \in Configs \ {config[c]} : config' = [config EXCEPT ![c] = k]
    /\ UNCHANGED <<clockVars, lock, sheet, pos, last, stamps, job, user, crashes>>

\* Somebody edits the spreadsheet: rows are changed, added, removed or get
\* another date.
EditSheet(c) ==
    /\ sheet[c] + 1 \in DOMAIN History[c]
    /\ sheet' = [sheet EXCEPT ![c] = @ + 1]
    /\ UNCHANGED <<clockVars, lock, config, pos, last, stamps, job, user, boundVars>>
-----------------------------------------------------------------------------
Proceed(j) ==
    \/ Claim(j) \/ LoadSettings(j) \/ TakeCompany(j) \/ Release(j)
    \/ ReadSheet(j) \/ ImportRow(j) \/ EndImport(j) \/ MarkImported(j) \/ Stamp(j)

Next ==
    \/ Tick
    \/ \E j \in Jobs : Cron(j) \/ CallByHand(j) \/ Proceed(j) \/ Crash(j)
    \/ \E u \in Users : ReadShared(u) \/ ImportSharedRow(u) \/ EndShared(u)
    \/ \E c \in Companies : ClearPosDailyData(c) \/ EditSettings(c) \/ EditSheet(c)

Spec == Init /\ [][Next]_vars

\* Time passes, the scheduler calls, and a run that began goes on. A user's
\* import may stop anywhere.
FairSpec ==
    /\ Spec
    /\ WF_vars(Tick)
    /\ \A j \in Jobs : WF_vars(Cron(j)) /\ WF_vars(Proceed(j))
-----------------------------------------------------------------------------
(* Properties. *)

\* Companies whose schedule asks for one import a period.
Periodic == {c \in Companies : Schedule[c].enabled /\ Schedule[c].frequency # "manual"}

\* With one run at a time a company is imported, as far as its settings record,
\* at most once in an hour, or a day, of its schedule: although its last sync was
\* read when the run began, the import is dated before the record is written,
\* midnight may come between any two steps, and runs may die and be repeated.
OncePerPeriod == \A c \in Periodic : stamps[c] <= 1

\* A period asks for an import of c and has none.
Owed(c) ==
    /\ c \in Periodic
    /\ tod >= Schedule[c].at
    /\ Schedule[c].frequency = "weekly" => weekday = Schedule[c].on
    /\ ~InPeriod(c, last[c])

\* A run that ends in the tick in which it began leaves no company unserved
\* whose sheet can be read, whatever happened to the others of its list.
EndsWithNoneOwed ==
    [][\A j \in Jobs :
          job[j].pc = "next" /\ job'[j].pc = "idle" /\ crashes' = crashes
          /\ ~job[j].dry /\ job[j].age = 0
          => \A c \in Healthy : ~Owed(c)]_vars

\* The scheduler calls at a time of day at which c's schedule lets it through.
Reached(c) ==
    \/ ~Schedule[c].enabled /\ CronTimes # {}
    \/ c \in Periodic /\ \E t \in CronTimes : t >= Schedule[c].at

\* Once nobody edits its sheet any more, such a company comes to have a POS row
\* for every day of the sheet, as the sheet has it, and keeps it: a lock left by
\* a run that died, a neighbour that always fails, a cleared table and a user's
\* import of older rows, whole or in part, are all made up for by a later run.
\* Of a day that the sheet no longer has nothing is said: its row stays.
BecomesCurrent ==
    \A c \in Healthy : Reached(c) =>
        <>[](\A d \in RowsOf(c, sheet[c]) : pos[c][d] = sheet[c])

\* README.md:303, "Manual / dry run: you can test without writing to the DB".
DryRunWritesNothing ==
    [][\A j \in Jobs : job[j].dry /\ job'[j].pc # job[j].pc =>
          UNCHANGED <<lock, last, pos>>]_vars
=============================================================================
