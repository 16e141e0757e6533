-------------------------- MODULE SheetsSync_proofs --------------------------
(***************************************************************************)
(* Proofs about SheetsSync, for any number of companies, schedules, users,  *)
(* requests and crashes and any length of an hour, a day and a week: type   *)
(* correctness, and that a period is imported at most once as long as runs  *)
(* come one at a time.                                                      *)
(***************************************************************************)
EXTENDS SheetsSync, TLAPS

\* One run at a time.
Serial == \A i, j \in Jobs : i = j

Working == {"read", "import", "mark", "stamp"}

\* An import counted in the current period is the one last names.
CountedIsLast ==
    \A c \in Periodic : stamps[c] <= 1 /\ (stamps[c] = 1 => InPeriod(c, last[c]))

\* What a run has read of the companies still to come is true, but for them
\* having aged with it.
SnapshotHolds ==
    \A j \in Jobs : job[j].pc \in Working \cup {"next"} =>
        \A c \in job[j].todo : job[j].seen[c] = last[c]

\* The company in hand is none of those to come, and has no import yet in the
\* period, if it is to have only one.
InHandIsDue ==
    \A j \in Jobs : job[j].pc \in Working =>
        /\ job[j].cur \in Companies \ job[j].todo
        /\ job[j].cur \in Periodic => ~InPeriod(job[j].cur, last[job[j].cur])

SyncInv == TypeOK /\ CountedIsLast /\ SnapshotHolds /\ InHandIsDue
-----------------------------------------------------------------------------
(* Lemmas about the operators. *)

\* An instant that has aged is of an age, and is in the current period only if
\* it was before.
LEMMA AgedIsAge == \A age \in Ages : Aged(age) \in Ages
BY DEF Aged, Ages

LEMMA AgedLeaves ==
    ASSUME NEW c \in Companies, NEW age \in Ages, InPeriod(c, Aged(age))
    PROVE  InPeriod(c, age)
BY DEF Aged, Ages, InPeriod

\* Within a period nothing leaves it.
LEMMA AgedStays ==
    ASSUME NEW c \in Companies, NEW age \in Ages, InPeriod(c, age), ~NewDay,
           ~(NewHour /\ Schedule[c].frequency = "hourly")
    PROVE  InPeriod(c, Aged(age))
BY DEF Aged, Ages, InPeriod

\* A periodic company that is due has not been imported in the period.
LEMMA DueIsNotDone ==
    ASSUME NEW c \in Periodic, NEW age \in Ages, Due(c, age)
    PROVE  ~InPeriod(c, age)
BY DEF Periodic, Due, InPeriod, Ages

\* Setting one run leaves the others.
LEMMA GoesOne ==
    ASSUME job \in [Jobs -> JobRecord], NEW j \in Jobs, NEW new \in JobRecord, Goes(j, new)
    PROVE  /\ job' \in [Jobs -> JobRecord]
           /\ job'[j] = new
           /\ \A i \in Jobs : i # j => job'[i] = job[i]
BY DEF Goes
LEMMA ModuloRange == ASSUME NEW a \in Nat, NEW n \in Nat \ {0} PROVE a % n \in 0 .. n - 1
OBVIOUS
-----------------------------------------------------------------------------
(* Types. *)

LEMMA IdleIsRecord == Idle \in JobRecord
BY SheetsAssumption DEF Idle, JobRecord, Steps, Ages, SheetsAssumption

\* A step of one run that leaves the clock, the settings and the users alone.
LEMMA RunStepTypes ==
    ASSUME TypeOK, NEW j \in Jobs, NEW new \in JobRecord, Goes(j, new),
           UNCHANGED <<tod, weekday, config, sheet, user, requests>>, called' \in BOOLEAN,
           lock' \in 0 .. LockTTL, last' \in [Companies -> Ages],
           stamps' \in [Companies -> 0 .. 2], pos' \in [Companies -> [Days -> Nat]],
           crashes' \in 0 .. MaxCrashes
    PROVE  TypeOK'
BY GoesOne DEF TypeOK

LEMMA JobFields ==
    ASSUME TypeOK, NEW j \in Jobs
    PROVE  /\ job[j] \in JobRecord /\ job[j].pc \in Steps /\ job[j].dry \in BOOLEAN
           /\ job[j].age \in 0 .. MaxRun /\ job[j].todo \in SUBSET Companies
           /\ job[j].seen \in [Companies -> Ages] /\ job[j].cur \in Companies \cup {"none"}
           /\ job[j].version \in Nat /\ job[j].left \in SUBSET Days /\ job[j].at \in Ages
BY DEF TypeOK, JobRecord

\* The records a run may go to.
LEMMA NextRecords ==
    ASSUME TypeOK, NEW j \in Jobs
    PROVE  /\ \A pc \in Steps : [job[j] EXCEPT !.pc = pc] \in JobRecord
           /\ \A dry \in BOOLEAN : [Idle EXCEPT !.pc = "claim", !.dry = dry] \in JobRecord
           /\ [job[j] EXCEPT !.pc = "next",
                  !.todo = {c \in Companies : config[c] # "off"},
                  !.usable = {c \in Companies : config[c] = "active"},
                  !.seen = last] \in JobRecord
           /\ \A c \in Companies : [job[j] EXCEPT !.todo = @ \ {c}] \in JobRecord
           /\ \A c \in Companies :
                  [[job[j] EXCEPT !.todo = @ \ {c}] EXCEPT !.pc = "read", !.cur = c] \in JobRecord
           /\ [job[j] EXCEPT !.pc = "next", !.cur = "none", !.version = 0, !.left = {},
                  !.at = "never"] \in JobRecord
           /\ \A v \in Nat, days \in SUBSET Days :
                  [job[j] EXCEPT !.pc = "import", !.version = v, !.left = days] \in JobRecord
           /\ \A d \in Days : [job[j] EXCEPT !.left = @ \ {d}] \in JobRecord
           /\ [job[j] EXCEPT !.pc = "mark", !.at = "hour"] \in JobRecord
<1>1. job[j] \in JobRecord /\ last \in [Companies -> Ages]
  BY DEF TypeOK
<1>2. \A pc \in Steps : [job[j] EXCEPT !.pc = pc] \in JobRecord
  BY <1>1 DEF JobRecord
<1>3. \A dry \in BOOLEAN : [Idle EXCEPT !.pc = "claim", !.dry = dry] \in JobRecord
  BY IdleIsRecord DEF JobRecord, Steps
<1>4. [job[j] EXCEPT !.pc = "next",
                  !.todo = {c \in Companies : config[c] # "off"},
                  !.usable = {c \in Companies : config[c] = "active"},
                  !.seen = last] \in JobRecord
  BY <1>1 DEF JobRecord, Steps
<1>5. \A c \in Companies : [job[j] EXCEPT !.todo = @ \ {c}] \in JobRecord
  BY <1>1 DEF JobRecord
<1>6. \A c \in Companies :
                  [[job[j] EXCEPT !.todo = @ \ {c}] EXCEPT !.pc = "read", !.cur = c] \in JobRecord
  BY <1>1 DEF JobRecord, Steps
<1>7. [job[j] EXCEPT !.pc = "next", !.cur = "none", !.version = 0, !.left = {},
          !.at = "never"] \in JobRecord
  BY <1>1 DEF JobRecord, Steps, Ages
<1>8. \A v \in Nat, days \in SUBSET Days :
          [job[j] EXCEPT !.pc = "import", !.version = v, !.left = days] \in JobRecord
  BY <1>1 DEF JobRecord, Steps
<1>10. \A d \in Days : [job[j] EXCEPT !.left = @ \ {d}] \in JobRecord
  BY <1>1 DEF JobRecord
<1>9. [job[j] EXCEPT !.pc = "mark", !.at = "hour"] \in JobRecord
  BY <1>1 DEF JobRecord, Steps, Ages
<1> QED
  BY <1>2, <1>3, <1>4, <1>5, <1>6, <1>7, <1>8, <1>9, <1>10

\* The rows of a sheet, and what an upsert makes of the stored ones.
LEMMA RowsTypes ==
    ASSUME TypeOK, NEW c \in Companies
    PROVE  /\ sheet[c] \in Nat /\ RowsOf(c, sheet[c]) \subseteq Days
           /\ \A d \in Days, v \in Nat :
                [pos EXCEPT ![c] = Upserted(@, d, v)] \in [Companies -> [Days -> Nat]]
<1>1. History[c] \in Seq(SUBSET Days) /\ sheet[c] \in DOMAIN History[c] /\ sheet[c] \in Nat
  BY SheetsAssumption DEF SheetsAssumption, TypeOK
<1>2. RowsOf(c, sheet[c]) \in SUBSET Days
  BY <1>1 DEF RowsOf
<1>3. ASSUME NEW d \in Days, NEW v \in Nat
      PROVE  Upserted(pos[c], d, v) \in [Days -> Nat]
  BY DEF Upserted, TypeOK
<1> QED
  BY <1>1, <1>2, <1>3 DEF TypeOK

LEMMA TickTypes == ASSUME TypeOK, Tick PROVE TypeOK'
<1>1. /\ tod \in Nat /\ weekday \in Nat /\ lock \in 0 .. LockTTL
      /\ DayLen \in Nat \ {0} /\ WeekLen \in Nat \ {0} /\ LockTTL \in Nat /\ MaxRun \in Nat
  BY SheetsAssumption DEF TypeOK, SheetsAssumption
<1>2. tod' \in 0 .. DayLen - 1
  <2>1. tod + 1 \in Nat
    BY <1>1
  <2>2. (tod + 1) % DayLen \in 0 .. DayLen - 1
    BY <1>1, <2>1, ModuloRange
  <2> QED
    BY <2>2 DEF Tick
<1>3. weekday' \in 0 .. WeekLen - 1
  <2>1. weekday + 1 \in Nat
    BY <1>1
  <2>2. (weekday + 1) % WeekLen \in 0 .. WeekLen - 1
    BY <1>1, <2>1, ModuloRange
  <2> QED
    BY <2>2 DEF Tick, TypeOK
<1>4. lock' \in 0 .. LockTTL
  <2>1. lock' = Expiring(lock)
    BY DEF Tick
  <2> QED
    BY <1>1, <2>1 DEF Expiring
<1>5. last' \in [Companies -> Ages]
  BY AgedIsAge DEF Tick, TypeOK
<1>6. stamps' \in [Companies -> 0 .. 2]
  <2>1. /\ stamps \in [Companies -> 0 .. 2]
        /\ stamps' = [c \in Companies |->
              IF NewDay \/ (NewHour /\ Schedule[c].frequency = "hourly") THEN 0 ELSE stamps[c]]
    BY DEF Tick, TypeOK
  <2>2. 0 \in 0 .. 2
    OBVIOUS
  <2> QED
    BY <2>1, <2>2
<1>7. job' \in [Jobs -> JobRecord]
  <2>1. ASSUME NEW j \in Jobs, job[j].pc # "idle"
        PROVE  [job[j] EXCEPT !.age = @ + 1, !.at = Aged(@),
                              !.seen = [c \in Companies |-> Aged(@[c])]] \in JobRecord
    <3>1. /\ job[j] \in JobRecord /\ job[j].age \in 0 .. MaxRun /\ job[j].at \in Ages
          /\ job[j].seen \in [Companies -> Ages]
      BY JobFields
    <3>2. job[j].age + 1 \in 0 .. MaxRun
      <4>1. job[j].age < MaxRun
        BY <2>1 DEF Tick
      <4> QED
        BY <1>1, <3>1, <4>1
    <3>3. Aged(job[j].at) \in Ages
      BY <3>1, AgedIsAge
    <3>4. [c \in Companies |-> Aged(job[j].seen[c])] \in [Companies -> Ages]
      BY <3>1, AgedIsAge
    <3> QED
      BY <3>1, <3>2, <3>3, <3>4 DEF JobRecord
  <2> QED
    BY <2>1 DEF Tick, TypeOK
<1>8. called' \in BOOLEAN
  BY Zenon DEF Tick
<1>9. /\ config' = config /\ sheet' = sheet /\ pos' = pos /\ user' = user
      /\ requests' = requests /\ crashes' = crashes
  BY DEF Tick, dataVars, boundVars
<1> QED
  BY <1>2, <1>3, <1>4, <1>5, <1>6, <1>7, <1>8, <1>9 DEF TypeOK

LEMMA UserTypes ==
    ASSUME TypeOK,
           \/ \E u \in Users : ReadShared(u) \/ ImportSharedRow(u) \/ EndShared(u)
           \/ \E c \in Companies : ClearPosDailyData(c) \/ EditSettings(c) \/ EditSheet(c)
    PROVE  TypeOK' /\ UNCHANGED <<last, stamps, job>>
<1>1. /\ sheet \in [Companies -> Nat] /\ pos \in [Companies -> [Days -> Nat]]
      /\ user \in [Users -> UserRecord] /\ config \in [Companies -> Configs]
      /\ requests \in 0 .. MaxRequests /\ MaxRequests \in Nat
  BY SheetsAssumption DEF TypeOK, SheetsAssumption
<1>2. Begin => requests' \in 0 .. MaxRequests
  BY <1>1 DEF Begin
<1>3. ASSUME NEW u \in Users, ReadShared(u) PROVE TypeOK' /\ UNCHANGED <<last, stamps, job>>
  <2>1. PICK c \in Companies :
            user' = [user EXCEPT ![u] = [pc |-> "import", cur |-> c, version |-> sheet[c],
                                         left |-> RowsOf(c, sheet[c])]]
    BY <1>3 DEF ReadShared
  <2>2. [pc |-> "import", cur |-> c, version |-> sheet[c], left |-> RowsOf(c, sheet[c])]
          \in UserRecord
    BY RowsTypes DEF UserRecord
  <2>3. user' \in [Users -> UserRecord]
    BY <1>1, <2>1, <2>2
  <2> QED
    BY <1>2, <1>3, <2>3 DEF ReadShared, TypeOK, clockVars, dataVars
<1>4. ASSUME NEW u \in Users, ImportSharedRow(u)
      PROVE  TypeOK' /\ UNCHANGED <<last, stamps, job>>
  <2>1. user[u] \in UserRecord /\ user[u].version \in Nat /\ user[u].left \in SUBSET Days
    BY <1>1 DEF UserRecord
  <2>2. PICK d \in user[u].left :
          /\ pos' = [pos EXCEPT ![user[u].cur] = Upserted(@, d, user[u].version)]
          /\ user' = [user EXCEPT ![u].left = @ \ {d}]
    BY <1>4 DEF ImportSharedRow
  <2>3. [user[u] EXCEPT !.left = @ \ {d}] \in UserRecord
    BY <2>1 DEF UserRecord
  <2>4. user' \in [Users -> UserRecord]
    BY <1>1, <2>2, <2>3
  <2>5. Upserted(pos[user[u].cur], d, user[u].version) \in [Days -> Nat] \/ user[u].cur \notin Companies
    BY <1>1, <2>1, <2>2 DEF Upserted
  <2>6. pos' \in [Companies -> [Days -> Nat]]
    BY <1>1, <2>2, <2>5
  <2> QED
    BY <1>4, <2>4, <2>6 DEF ImportSharedRow, TypeOK, clockVars, boundVars
<1>8. ASSUME NEW u \in Users, EndShared(u) PROVE TypeOK' /\ UNCHANGED <<last, stamps, job>>
  <2>1. user' \in [Users -> UserRecord]
    BY <1>1, <1>8 DEF EndShared, UserRecord, Free
  <2> QED
    BY <1>8, <2>1 DEF EndShared, TypeOK, clockVars, dataVars, boundVars
<1>5. ASSUME NEW c \in Companies, ClearPosDailyData(c) PROVE TypeOK' /\ UNCHANGED <<last, stamps, job>>
  <2>1. PICK from \in Days, to \in Days :
          pos' = [pos EXCEPT ![c] = [d \in Days |-> IF d \in from .. to THEN 0 ELSE @[d]]]
    BY <1>5 DEF ClearPosDailyData
  <2>2. [d \in Days |-> IF d \in from .. to THEN 0 ELSE pos[c][d]] \in [Days -> Nat]
    BY <1>1
  <2>3. pos' \in [Companies -> [Days -> Nat]]
    BY <1>1, <2>1, <2>2
  <2> QED
    BY <1>2, <1>5, <2>3 DEF ClearPosDailyData, TypeOK, clockVars
<1>6. ASSUME NEW c \in Companies, EditSettings(c) PROVE TypeOK' /\ UNCHANGED <<last, stamps, job>>
  <2>1. config' \in [Companies -> Configs]
    BY <1>1, <1>6 DEF EditSettings
  <2> QED
    BY <1>2, <1>6, <2>1 DEF EditSettings, TypeOK, clockVars
<1>7. ASSUME NEW c \in Companies, EditSheet(c) PROVE TypeOK' /\ UNCHANGED <<last, stamps, job>>
  <2>1. sheet' = [sheet EXCEPT ![c] = @ + 1] /\ sheet[c] + 1 \in DOMAIN History[c]
    BY <1>7 DEF EditSheet
  <2>2. sheet' \in [Companies -> Nat] /\ \A d \in Companies : sheet'[d] \in DOMAIN History[d]
    BY <1>1, <2>1 DEF TypeOK
  <2> QED
    BY <1>7, <2>2 DEF EditSheet, TypeOK, clockVars, boundVars
<1> QED
  BY <1>3, <1>4, <1>5, <1>6, <1>7, <1>8
-----------------------------------------------------------------------------
(* The invariant. *)

\* A step of one run before it records its import.
LEMMA RunStepKeeps ==
    ASSUME SyncInv, NEW j \in Jobs, NEW new \in JobRecord, Goes(j, new),
           UNCHANGED <<tod, weekday, config, sheet, last, stamps, user, requests>>,
           called' \in BOOLEAN, lock' \in 0 .. LockTTL, pos' \in [Companies -> [Days -> Nat]],
           crashes' \in 0 .. MaxCrashes,
           new.pc \in Working \cup {"next"} => \A c \in new.todo : new.seen[c] = last[c],
           new.pc \in Working =>
               /\ new.cur \in Companies \ new.todo
               /\ new.cur \in Periodic => ~InPeriod(new.cur, last[new.cur])
    PROVE  SyncInv'
<1>1. TypeOK /\ last' \in [Companies -> Ages] /\ stamps' \in [Companies -> 0 .. 2]
  BY DEF SyncInv, TypeOK
<1>2. TypeOK'
  BY <1>1, RunStepTypes
<1>3. job'[j] = new /\ \A i \in Jobs : i # j => job'[i] = job[i]
  BY <1>1, GoesOne DEF TypeOK
<1>4. CountedIsLast'
  BY DEF SyncInv, CountedIsLast, InPeriod
<1>5. SnapshotHolds'
  BY <1>3 DEF SyncInv, SnapshotHolds
<1>6. InHandIsDue'
  BY <1>3 DEF SyncInv, InHandIsDue, InPeriod
<1> QED
  BY <1>2, <1>4, <1>5, <1>6 DEF SyncInv

LEMMA CallKeeps ==
    ASSUME SyncInv, NEW j \in Jobs, Cron(j) \/ CallByHand(j)
    PROVE  SyncInv'
<1>1. PICK dry \in BOOLEAN : Acquire(j, dry)
  BY DEF Cron, CallByHand
<1>2. TypeOK
  BY DEF SyncInv
<1>3. called' \in BOOLEAN
  BY <1>2, Zenon DEF Cron, CallByHand, clockVars, TypeOK
<1>4. UNCHANGED <<tod, weekday, lock, config, sheet, pos, last, stamps, user, requests, crashes>>
  BY DEF Cron, CallByHand, clockVars, dataVars, boundVars
<1>5. CASE UNCHANGED job
  <2>1. TypeOK'
    BY <1>2, <1>3, <1>4, <1>5 DEF TypeOK
  <2> QED
    BY <1>4, <1>5, <2>1 DEF SyncInv, CountedIsLast, SnapshotHolds, InHandIsDue, InPeriod
<1>6. CASE Goes(j, [Idle EXCEPT !.pc = "claim", !.dry = dry])
  <2> DEFINE new == [Idle EXCEPT !.pc = "claim", !.dry = dry]
  <2>1. new \in JobRecord
    BY <1>2, NextRecords
  <2>2. new.pc \notin Working \cup {"next"}
    BY DEF Idle, Working
  <2> HIDE DEF new
  <2> QED
    BY <1>2, <1>3, <1>4, <1>6, <2>1, <2>2, RunStepKeeps DEF new, TypeOK
<1> QED
  BY <1>1, <1>5, <1>6 DEF Acquire
\* The frame of the steps of a run: everything keeps its type.
LEMMA FrameTypes ==
    ASSUME TypeOK
    PROVE  /\ called \in BOOLEAN /\ lock \in 0 .. LockTTL /\ pos \in [Companies -> [Days -> Nat]]
           /\ crashes \in 0 .. MaxCrashes /\ last \in [Companies -> Ages]
BY DEF TypeOK

LEMMA ClaimKeeps == ASSUME SyncInv, NEW j \in Jobs, Claim(j) PROVE SyncInv'
<1> DEFINE new == [job[j] EXCEPT !.pc = "load"]
<1>1. TypeOK /\ job[j] \in JobRecord /\ job[j].age \in Nat /\ LockTTL \in Nat
  BY JobFields, SheetsAssumption DEF SyncInv, SheetsAssumption
<1>2. lock' \in 0 .. LockTTL
  BY <1>1 DEF Claim
<1>3. new \in JobRecord
  BY <1>1, NextRecords DEF Steps
<1>4. new.pc = "load"
  BY <1>1 DEF JobRecord
<1>5. /\ Goes(j, new)
      /\ UNCHANGED <<tod, weekday, called, config, sheet, pos, last, stamps, user, requests, crashes>>
  BY DEF Claim, clockVars, dataVars, boundVars
<1> HIDE DEF new
<1> QED
  BY <1>1, <1>2, <1>3, <1>4, <1>5, FrameTypes, RunStepKeeps DEF Working

LEMMA LoadSettingsKeeps == ASSUME SyncInv, NEW j \in Jobs, LoadSettings(j) PROVE SyncInv'
<1> DEFINE new == [job[j] EXCEPT !.pc = "next",
                       !.todo = {c \in Companies : config[c] # "off"},
                       !.usable = {c \in Companies : config[c] = "active"},
                       !.seen = last]
<1>1. TypeOK /\ job[j] \in JobRecord
  BY JobFields DEF SyncInv
<1>2. new \in JobRecord
  BY <1>1, NextRecords
<1>3. new.pc = "next" /\ new.seen = last
  BY <1>1 DEF JobRecord
<1>4. /\ Goes(j, new)
      /\ UNCHANGED <<tod, weekday, called, lock, config, sheet, pos, last, stamps, user, requests, crashes>>
  BY DEF LoadSettings, clockVars, dataVars, boundVars
<1> HIDE DEF new
<1> QED
  BY <1>1, <1>2, <1>3, <1>4, FrameTypes, RunStepKeeps DEF Working

LEMMA TakeCompanyKeeps == ASSUME SyncInv, NEW j \in Jobs, TakeCompany(j) PROVE SyncInv'
<1>1. TypeOK /\ job[j] \in JobRecord /\ job[j].pc = "next" /\ job[j].todo \subseteq Companies
  BY JobFields DEF SyncInv, TakeCompany
<1>2. UNCHANGED <<tod, weekday, called, lock, config, sheet, pos, last, stamps, user, requests, crashes>>
  BY DEF TakeCompany, clockVars, dataVars, boundVars
<1>3. PICK c \in job[j].todo :
          \/ Goes(j, [job[j] EXCEPT !.todo = @ \ {c}])
          \/ /\ Due(c, job[j].seen[c])
             /\ Goes(j, [[job[j] EXCEPT !.todo = @ \ {c}] EXCEPT !.pc = "read", !.cur = c])
  BY DEF TakeCompany
<1>4. \A d \in job[j].todo : job[j].seen[d] = last[d]
  BY <1>1 DEF SyncInv, SnapshotHolds
<1>5. CASE Goes(j, [job[j] EXCEPT !.todo = @ \ {c}])
  <2> DEFINE new == [job[j] EXCEPT !.todo = @ \ {c}]
  <2>1. new \in JobRecord
    BY <1>1, NextRecords
  <2>2. new.pc = "next" /\ new.todo = job[j].todo \ {c} /\ new.seen = job[j].seen
    BY <1>1 DEF JobRecord
  <2> HIDE DEF new
  <2> QED
    BY <1>1, <1>2, <1>4, <1>5, <2>1, <2>2, FrameTypes, RunStepKeeps DEF new, Working
<1>6. CASE /\ Due(c, job[j].seen[c])
           /\ Goes(j, [[job[j] EXCEPT !.todo = @ \ {c}] EXCEPT !.pc = "read", !.cur = c])
  <2> DEFINE new == [[job[j] EXCEPT !.todo = @ \ {c}] EXCEPT !.pc = "read", !.cur = c]
  <2>1. new \in JobRecord
    BY <1>1, NextRecords
  <2>2. /\ new.pc = "read" /\ new.cur = c /\ new.todo = job[j].todo \ {c}
        /\ new.seen = job[j].seen
    BY <1>1 DEF JobRecord
  <2>3. c \in Periodic => ~InPeriod(c, last[c])
    <3>1. last[c] \in Ages
      BY <1>1, FrameTypes
    <3> QED
      BY <1>4, <1>6, <3>1, DueIsNotDone
  <2> HIDE DEF new
  <2> QED
    BY <1>1, <1>2, <1>4, <1>6, <2>1, <2>2, <2>3, FrameTypes, RunStepKeeps DEF new, Working
<1> QED
  BY <1>3, <1>5, <1>6

LEMMA ReleaseKeeps == ASSUME SyncInv, NEW j \in Jobs, Release(j) PROVE SyncInv'
<1>1. TypeOK /\ lock' \in 0 .. LockTTL
  BY SheetsAssumption DEF SyncInv, Release, SheetsAssumption
<1>2. Idle.pc = "idle" /\ Goes(j, Idle)
      /\ UNCHANGED <<tod, weekday, called, config, sheet, pos, last, stamps, user, requests, crashes>>
  BY DEF Idle, Release, clockVars, dataVars, boundVars
<1> QED
  BY <1>1, <1>2, IdleIsRecord, FrameTypes, RunStepKeeps DEF Working

LEMMA CrashKeeps == ASSUME SyncInv, NEW j \in Jobs, Crash(j) PROVE SyncInv'
<1>1. TypeOK /\ crashes' \in 0 .. MaxCrashes
  BY SheetsAssumption DEF SyncInv, TypeOK, Crash, SheetsAssumption
<1>2. Idle.pc = "idle" /\ Goes(j, Idle)
      /\ UNCHANGED <<tod, weekday, called, lock, config, sheet, pos, last, stamps, user, requests>>
  BY DEF Idle, Crash, clockVars, dataVars
<1> QED
  BY <1>1, <1>2, IdleIsRecord, FrameTypes, RunStepKeeps DEF Working

\* A company is done with: the run goes on with those to come.
LEMMA LeaveGoes ==
    ASSUME SyncInv, NEW j \in Jobs, job[j].pc \in Working, Leave(j)
    PROVE  \E new \in JobRecord :
               /\ Goes(j, new) /\ new.pc = "next" /\ new.todo = job[j].todo
               /\ \A c \in new.todo : new.seen[c] = last[c]
<1> DEFINE new == [job[j] EXCEPT !.pc = "next", !.cur = "none", !.version = 0, !.left = {},
                       !.at = "never"]
<1>1. TypeOK /\ job[j] \in JobRecord
  BY JobFields DEF SyncInv
<1>2. new \in JobRecord
  BY <1>1, NextRecords
<1>3. new.pc = "next" /\ new.todo = job[j].todo /\ new.seen = job[j].seen
  BY <1>1 DEF JobRecord
<1>4. \A c \in job[j].todo : job[j].seen[c] = last[c]
  BY DEF SyncInv, SnapshotHolds
<1>5. Goes(j, new)
  BY DEF Leave
<1> HIDE DEF new
<1> QED
  BY <1>2, <1>3, <1>4, <1>5

LEMMA LeaveKeeps ==
    ASSUME SyncInv, NEW j \in Jobs, job[j].pc \in Working, Leave(j),
           UNCHANGED <<tod, weekday, called, lock, config, sheet, last, stamps, user, requests, crashes>>,
           pos' \in [Companies -> [Days -> Nat]]
    PROVE  SyncInv'
<1>1. PICK new \in JobRecord :
          /\ Goes(j, new) /\ new.pc = "next" /\ new.todo = job[j].todo
          /\ \A c \in new.todo : new.seen[c] = last[c]
  BY LeaveGoes
<1>2. TypeOK
  BY DEF SyncInv
<1> QED
  BY <1>1, <1>2, FrameTypes, RunStepKeeps DEF Working

\* The company in hand is taken a step further.
LEMMA AdvanceKeeps ==
    ASSUME SyncInv, NEW j \in Jobs, NEW new \in JobRecord, Goes(j, new), job[j].pc \in Working,
           new.pc \in Working, new.cur = job[j].cur, new.todo = job[j].todo, new.seen = job[j].seen,
           UNCHANGED <<tod, weekday, called, lock, config, sheet, last, stamps, user, requests, crashes>>,
           pos' \in [Companies -> [Days -> Nat]]
    PROVE  SyncInv'
<1>1. TypeOK
  BY DEF SyncInv
<1>2. /\ \A c \in new.todo : new.seen[c] = last[c]
      /\ new.cur \in Companies \ new.todo
      /\ new.cur \in Periodic => ~InPeriod(new.cur, last[new.cur])
  BY DEF SyncInv, SnapshotHolds, InHandIsDue
<1> QED
  BY <1>1, <1>2, FrameTypes, RunStepKeeps

LEMMA ReadSheetKeeps == ASSUME SyncInv, NEW j \in Jobs, ReadSheet(j) PROVE SyncInv'
<1>1. TypeOK /\ job[j] \in JobRecord /\ job[j].pc = "read" /\ "read" \in Working
  BY JobFields DEF SyncInv, ReadSheet, Working
<1>2. UNCHANGED <<tod, weekday, called, lock, config, sheet, pos, last, stamps, user, requests, crashes>>
  BY DEF ReadSheet, clockVars, dataVars, boundVars
<1>3. CASE Leave(j)
  BY <1>1, <1>2, <1>3, FrameTypes, LeaveKeeps
<1> DEFINE rows == RowsOf(job[j].cur, sheet[job[j].cur])
<1>4. CASE Goes(j, [job[j] EXCEPT !.pc = "import", !.version = sheet[job[j].cur], !.left = rows])
  <2> DEFINE new == [job[j] EXCEPT !.pc = "import", !.version = sheet[job[j].cur], !.left = rows]
  <2>1. job[j].cur \in Companies
    BY <1>1 DEF SyncInv, InHandIsDue
  <2>2. sheet[job[j].cur] \in Nat /\ rows \in SUBSET Days
    BY <1>1, <2>1, RowsTypes
  <2>3. new \in JobRecord
    BY <1>1, <2>2, NextRecords
  <2>4. /\ new.pc \in Working /\ new.cur = job[j].cur /\ new.todo = job[j].todo
        /\ new.seen = job[j].seen
    BY <1>1 DEF JobRecord, Working
  <2>5. Goes(j, new)
    BY <1>4
  <2> HIDE DEF new
  <2> QED
    BY <1>1, <1>2, <2>3, <2>4, <2>5, FrameTypes, AdvanceKeeps
<1> QED
  BY <1>3, <1>4 DEF ReadSheet

LEMMA ImportRowKeeps == ASSUME SyncInv, NEW j \in Jobs, ImportRow(j) PROVE SyncInv'
<1>1. TypeOK /\ job[j] \in JobRecord /\ job[j].pc = "import" /\ "import" \in Working
      /\ job[j].version \in Nat /\ job[j].left \in SUBSET Days
  BY JobFields DEF SyncInv, ImportRow, Working
<1>2. UNCHANGED <<tod, weekday, called, lock, config, sheet, last, stamps, user, requests, crashes>>
  BY DEF ImportRow, clockVars, boundVars
<1>3. PICK d \in job[j].left :
        /\ pos' = [pos EXCEPT ![job[j].cur] = Upserted(@, d, job[j].version)]
        /\ Goes(j, [job[j] EXCEPT !.left = @ \ {d}])
  BY DEF ImportRow
<1>4. job[j].cur \in Companies
  BY <1>1 DEF SyncInv, InHandIsDue
<1>5. pos' \in [Companies -> [Days -> Nat]]
  BY <1>1, <1>3, <1>4, RowsTypes
<1> DEFINE new == [job[j] EXCEPT !.left = @ \ {d}]
<1>6. new \in JobRecord
  BY <1>1, NextRecords
<1>7. /\ new.pc \in Working /\ new.cur = job[j].cur /\ new.todo = job[j].todo
      /\ new.seen = job[j].seen
  BY <1>1 DEF JobRecord, Working
<1>8. Goes(j, new)
  BY <1>3
<1> HIDE DEF new
<1> QED
  BY <1>1, <1>2, <1>5, <1>6, <1>7, <1>8, AdvanceKeeps

LEMMA EndImportKeeps == ASSUME SyncInv, NEW j \in Jobs, EndImport(j) PROVE SyncInv'
<1>1. TypeOK /\ job[j] \in JobRecord /\ job[j].pc = "import" /\ "import" \in Working
  BY JobFields DEF SyncInv, EndImport, Working
<1>2. UNCHANGED <<tod, weekday, called, lock, config, sheet, pos, last, stamps, user, requests, crashes>>
  BY DEF EndImport, clockVars, dataVars, boundVars
<1>3. pos' \in [Companies -> [Days -> Nat]]
  BY <1>1, <1>2, FrameTypes
<1>4. CASE Leave(j)
  BY <1>1, <1>2, <1>3, <1>4, LeaveKeeps
<1>5. CASE Goes(j, [job[j] EXCEPT !.pc = "mark", !.at = "hour"])
  <2> DEFINE new == [job[j] EXCEPT !.pc = "mark", !.at = "hour"]
  <2>1. new \in JobRecord
    BY <1>1, NextRecords
  <2>2. /\ new.pc \in Working /\ new.cur = job[j].cur /\ new.todo = job[j].todo
        /\ new.seen = job[j].seen
    BY <1>1 DEF JobRecord, Working
  <2>3. Goes(j, new)
    BY <1>5
  <2> HIDE DEF new
  <2> QED
    BY <1>1, <1>2, <1>3, <2>1, <2>2, <2>3, AdvanceKeeps
<1> QED
  BY <1>4, <1>5 DEF EndImport

LEMMA MarkImportedKeeps == ASSUME SyncInv, NEW j \in Jobs, MarkImported(j) PROVE SyncInv'
<1>1. TypeOK /\ job[j] \in JobRecord /\ job[j].pc = "mark" /\ "mark" \in Working
  BY JobFields DEF SyncInv, MarkImported, Working
<1>2. UNCHANGED <<tod, weekday, called, lock, config, sheet, pos, last, stamps, user, requests, crashes>>
  BY DEF MarkImported, clockVars, dataVars, boundVars
<1>3. CASE Leave(j)
  BY <1>1, <1>2, <1>3, FrameTypes, LeaveKeeps
<1>4. CASE Goes(j, [job[j] EXCEPT !.pc = "stamp"])
  <2> DEFINE new == [job[j] EXCEPT !.pc = "stamp"]
  <2>1. new \in JobRecord
    BY <1>1, NextRecords DEF Steps
  <2>2. /\ new.pc \in Working /\ new.cur = job[j].cur /\ new.todo = job[j].todo
        /\ new.seen = job[j].seen
    BY <1>1 DEF JobRecord, Working
  <2>3. Goes(j, new)
    BY <1>4
  <2> HIDE DEF new
  <2> QED
    BY <1>1, <1>2, <2>1, <2>2, <2>3, FrameTypes, AdvanceKeeps
<1> QED
  BY <1>3, <1>4 DEF MarkImported
\* The record of the import. Nobody else runs, so what the run found not done
\* in the period is not done yet.
LEMMA StampKeeps == ASSUME SyncInv, Serial, NEW j \in Jobs, Stamp(j) PROVE SyncInv'
<1> DEFINE c == job[j].cur
<1>1. /\ TypeOK /\ job[j].pc = "stamp" /\ job[j].pc \in Working /\ Leave(j)
      /\ job[j].at \in Ages
  BY JobFields DEF SyncInv, Stamp, Working
<1>2. UNCHANGED <<tod, weekday, called, lock, config, sheet, pos, user, requests, crashes>>
  BY DEF Stamp, clockVars, dataVars, boundVars
<1>3. /\ c \in Companies \ job[j].todo
      /\ c \in Periodic => ~InPeriod(c, last[c])
  BY <1>1 DEF SyncInv, InHandIsDue
<1>4. CASE UNCHANGED <<last, stamps>>
  BY <1>1, <1>2, <1>4, FrameTypes, LeaveKeeps
<1>5. CASE /\ last' = [last EXCEPT ![c] = job[j].at]
           /\ stamps' = [stamps EXCEPT ![c] = IF InPeriod(c, job[j].at) /\ @ < 2 THEN @ + 1 ELSE @]
  <2>1. PICK new \in JobRecord :
            /\ Goes(j, new) /\ new.pc = "next" /\ new.todo = job[j].todo
            /\ \A d \in new.todo : new.seen[d] = last[d]
    BY <1>1, LeaveGoes
  <2>2. /\ last \in [Companies -> Ages] /\ stamps \in [Companies -> 0 .. 2]
    BY <1>1 DEF TypeOK
  <2>3. /\ last' \in [Companies -> Ages] /\ last'[c] = job[j].at
        /\ \A d \in Companies \ {c} : last'[d] = last[d]
    BY <1>1, <1>3, <1>5, <2>2
  <2>4. \A d \in Companies \ {c} : stamps'[d] = stamps[d]
    BY <1>5, <2>2
  <2>5. /\ stamps'[c] \in 0 .. 2
        /\ c \in Periodic => stamps'[c] <= 1 /\ (stamps'[c] = 1 => InPeriod(c, job[j].at))
    <3>1. stamps[c] \in 0 .. 2 /\ (c \in Periodic => stamps[c] = 0)
      BY <1>3, <2>2 DEF SyncInv, CountedIsLast
    <3>2. stamps'[c] = IF InPeriod(c, job[j].at) /\ stamps[c] < 2 THEN stamps[c] + 1 ELSE stamps[c]
      BY <1>3, <1>5, <2>2
    <3> QED
      BY <3>1, <3>2
  <2>6. stamps' \in [Companies -> 0 .. 2]
    <3>1. DOMAIN stamps' = Companies /\ stamps' = [d \in Companies |-> stamps'[d]]
      BY <1>5, <2>2
    <3> QED
      BY <2>2, <2>4, <2>5, <3>1
  <2>7. TypeOK'
    BY <1>1, <1>2, <2>1, <2>3, <2>6, FrameTypes, RunStepTypes
  <2>8. CountedIsLast'
    BY <2>3, <2>4, <2>5 DEF SyncInv, CountedIsLast, InPeriod, Periodic
  <2>9. \A i \in Jobs : job'[i] = new
    BY <1>1, <2>1, GoesOne DEF Serial, TypeOK
  <2>10. SnapshotHolds'
    BY <1>3, <1>1, <2>1, <2>3, <2>9, JobFields DEF SnapshotHolds
  <2>11. InHandIsDue'
    BY <2>1, <2>9 DEF InHandIsDue, Working
  <2> QED
    BY <2>7, <2>8, <2>10, <2>11 DEF SyncInv
<1> QED
  BY <1>4, <1>5 DEF Stamp

\* The clock: what a run has read ages as the settings do, a period that ends
\* starts its count again, and what was not in a period does not enter it.
LEMMA TickKeeps == ASSUME SyncInv, Tick PROVE SyncInv'
<1>1. TypeOK /\ last \in [Companies -> Ages]
  BY DEF SyncInv, TypeOK
<1>2. TypeOK'
  BY <1>1, TickTypes
<1>3. \A c \in Companies : last'[c] = Aged(last[c])
  BY DEF Tick
<1>4. ASSUME NEW j \in Jobs, job[j].pc # "idle"
      PROVE  /\ job'[j].pc = job[j].pc /\ job'[j].todo = job[j].todo /\ job'[j].cur = job[j].cur
             /\ \A c \in Companies : job'[j].seen[c] = Aged(job[j].seen[c])
  <2>1. job'[j] = [job[j] EXCEPT !.age = @ + 1, !.at = Aged(@),
                                 !.seen = [c \in Companies |-> Aged(@[c])]]
    BY <1>4 DEF Tick
  <2>2. job[j] \in JobRecord
    BY <1>1, JobFields
  <2> QED
    BY <2>1, <2>2 DEF JobRecord
<1>5. \A j \in Jobs : job[j].pc = "idle" => job'[j] = job[j]
  BY DEF Tick
<1>6. CountedIsLast'
  <2>1. SUFFICES ASSUME NEW c \in Periodic
                 PROVE  stamps'[c] <= 1 /\ (stamps'[c] = 1 => InPeriod(c, last'[c]))
    BY DEF CountedIsLast, InPeriod, Periodic
  <2>2. c \in Companies /\ last[c] \in Ages
    BY <1>1 DEF Periodic
  <2>3. stamps'[c] = IF NewDay \/ (NewHour /\ Schedule[c].frequency = "hourly") THEN 0 ELSE stamps[c]
    BY <2>2 DEF Tick
  <2>4. stamps[c] <= 1 /\ (stamps[c] = 1 => InPeriod(c, last[c]))
    BY DEF SyncInv, CountedIsLast
  <2> QED
    BY <1>3, <2>2, <2>3, <2>4, AgedStays
<1>7. SnapshotHolds'
  <2>1. SUFFICES ASSUME NEW j \in Jobs, job'[j].pc \in Working \cup {"next"}, NEW c \in job'[j].todo
                 PROVE  job'[j].seen[c] = last'[c]
    BY DEF SnapshotHolds
  <2>2. job[j].pc # "idle"
    BY <1>5, <2>1 DEF Working
  <2>3. job[j].pc \in Working \cup {"next"} /\ c \in job[j].todo /\ c \in Companies
    BY <1>1, <1>4, <2>1, <2>2, JobFields
  <2> QED
    BY <1>3, <1>4, <2>2, <2>3 DEF SyncInv, SnapshotHolds
<1>8. InHandIsDue'
  <2>1. SUFFICES ASSUME NEW j \in Jobs, job'[j].pc \in Working
                 PROVE  /\ job'[j].cur \in Companies \ job'[j].todo
                        /\ job'[j].cur \in Periodic => ~InPeriod(job'[j].cur, last'[job'[j].cur])
    BY DEF InHandIsDue, InPeriod, Periodic
  <2>2. job[j].pc # "idle"
    BY <1>5, <2>1 DEF Working
  <2>3. job'[j].cur = job[j].cur /\ job'[j].todo = job[j].todo /\ job[j].pc \in Working
    BY <1>4, <2>1, <2>2
  <2>4. /\ job[j].cur \in Companies \ job[j].todo
        /\ job[j].cur \in Periodic => ~InPeriod(job[j].cur, last[job[j].cur])
    BY <2>3 DEF SyncInv, InHandIsDue
  <2> QED
    BY <1>1, <1>3, <2>3, <2>4, AgedLeaves
<1> QED
  BY <1>2, <1>6, <1>7, <1>8 DEF SyncInv
-----------------------------------------------------------------------------
(* The theorems. *)

LEMMA SyncInvInit == Init => SyncInv
<1> SUFFICES ASSUME Init PROVE SyncInv
  OBVIOUS
<1>1. \A j \in Jobs : job[j].pc = "idle"
  BY DEF Init, Idle
<1>2. job \in [Jobs -> JobRecord]
  BY IdleIsRecord DEF Init
<1>3. user \in [Users -> UserRecord]
  BY DEF Init, Free, UserRecord
<1>4. /\ tod \in 0 .. DayLen - 1 /\ weekday \in 0 .. WeekLen - 1 /\ lock \in 0 .. LockTTL
      /\ requests \in 0 .. MaxRequests /\ crashes \in 0 .. MaxCrashes
  <2>1. tod = 0 /\ weekday = 0 /\ lock = 0 /\ requests = 0 /\ crashes = 0
    BY DEF Init
  <2> QED
    BY <2>1, SheetsAssumption DEF SheetsAssumption
<1>5. /\ config \in [Companies -> Configs] /\ last \in [Companies -> Ages]
      /\ stamps \in [Companies -> 0 .. 2]
  BY DEF Init, Ages
<1>6. /\ sheet \in [Companies -> Nat] /\ \A c \in Companies : sheet[c] \in DOMAIN History[c]
      /\ pos \in [Companies -> [Days -> Nat]]
  <2>1. ASSUME NEW c \in Companies PROVE 1 \in DOMAIN History[c]
    <3>1. History[c] \in Seq(SUBSET Days) /\ History[c] # <<>>
      BY SheetsAssumption DEF SheetsAssumption
    <3>2. Len(History[c]) \in Nat \ {0} /\ DOMAIN History[c] = 1 .. Len(History[c])
      BY <3>1
    <3> QED
      BY <3>2
  <2>2. sheet = [c \in Companies |-> 1]
    BY DEF Init
  <2>3. pos = [c \in Companies |-> [d \in Days |-> 0]]
    BY DEF Init
  <2> QED
    BY <2>1, <2>2, <2>3
<1>7. called \in BOOLEAN
  BY Zenon DEF Init
<1>8. TypeOK
  BY <1>2, <1>3, <1>4, <1>5, <1>6, <1>7 DEF TypeOK
<1>9. CountedIsLast
  <2>1. \A c \in Companies : stamps[c] = 0
    BY DEF Init
  <2>2. \A c \in Periodic : stamps[c] = 0
    BY <2>1 DEF Periodic
  <2>3. 0 <= 1 /\ 0 # 1
    OBVIOUS
  <2> QED
    BY <2>2, <2>3, Zenon DEF CountedIsLast
<1>10. SnapshotHolds /\ InHandIsDue
  BY <1>1 DEF SnapshotHolds, InHandIsDue, Working
<1> QED
  BY <1>8, <1>9, <1>10 DEF SyncInv

LEMMA SyncInvStep == Serial /\ SyncInv /\ [Next]_vars => SyncInv'
<1> SUFFICES ASSUME Serial, SyncInv, [Next]_vars PROVE SyncInv'
  OBVIOUS
<1>1. CASE UNCHANGED vars
  BY <1>1 DEF vars, SyncInv, TypeOK, CountedIsLast, SnapshotHolds, InHandIsDue, InPeriod
<1>2. CASE Tick
  BY <1>2, TickKeeps
<1>3. ASSUME NEW j \in Jobs, Cron(j) \/ CallByHand(j) PROVE SyncInv'
  BY <1>3, CallKeeps
<1>4. ASSUME NEW j \in Jobs, Proceed(j) PROVE SyncInv'
  BY <1>4, ClaimKeeps, LoadSettingsKeeps, TakeCompanyKeeps, ReleaseKeeps, ReadSheetKeeps,
     ImportRowKeeps, EndImportKeeps, MarkImportedKeeps, StampKeeps DEF Proceed
<1>5. ASSUME NEW j \in Jobs, Crash(j) PROVE SyncInv'
  BY <1>5, CrashKeeps
<1>6. CASE \/ \E u \in Users : ReadShared(u) \/ ImportSharedRow(u) \/ EndShared(u)
           \/ \E c \in Companies : ClearPosDailyData(c) \/ EditSettings(c) \/ EditSheet(c)
  <2>1. TypeOK' /\ UNCHANGED <<last, stamps, job>>
    BY <1>6, UserTypes DEF SyncInv
  <2> QED
    BY <2>1 DEF SyncInv, CountedIsLast, SnapshotHolds, InHandIsDue, InPeriod
<1> QED
  BY <1>1, <1>2, <1>3, <1>4, <1>5, <1>6 DEF Next

\* Every variable keeps its type, with one run at a time: what a run writes is
\* of the company it has in hand.
THEOREM SheetsTypes ==
    ASSUME Serial
    PROVE  Spec => []TypeOK
<1>1. SyncInv => TypeOK
  BY DEF SyncInv
<1>2. SyncInv /\ [Next]_vars => SyncInv'
  BY SyncInvStep
<1> QED
  BY <1>1, <1>2, SyncInvInit, PTL DEF Spec

\* However many companies and users there are, whatever fails, crashes or is
\* edited, and whatever the hour at which a run is called: with one run at a time
\* no periodic company has two imports recorded in one period of its schedule
\* (runSheetsSync, isScheduleDue).
THEOREM SheetsOncePerPeriod ==
    ASSUME Serial
    PROVE  Spec => []OncePerPeriod
<1>1. SyncInv => OncePerPeriod
  BY DEF SyncInv, CountedIsLast, OncePerPeriod
<1>2. SyncInv /\ [Next]_vars => SyncInv'
  BY SyncInvStep
<1> QED
  BY <1>1, <1>2, SyncInvInit, PTL DEF Spec
=============================================================================
