----------------------------- MODULE LogArchive -----------------------------
(***************************************************************************)
(* The hourly log archive (modules/storage/logarchive): logging goroutines *)
(* append records to the spool file of the current hour through a buffer,  *)
(* and the uploader goroutine turns finished and partial hours into        *)
(* objects, which Put replaces, and removes them.  The spool directory and *)
(* the object store survive a crash; the buffer does not.                  *)
(*                                                                         *)
(* A file is named by its hour and a partial number: 0 is <HH>.jsonl, and  *)
(* n > 0 the n-th <HH>.partial-<unix>[-seq].jsonl, which partialName makes *)
(* distinct within a process (a restart takes longer than the second in    *)
(* the name).  keyFor is injective, so a file's name also stands for its   *)
(* object's key.  An empty file is identified with none: upload removes it *)
(* without storing anything.                                               *)
(***************************************************************************)
EXTENDS Integers

CONSTANTS
    MaxHour,    \* bound on the clock, in hours
    MaxRecords, \* bound on the records logged
    MaxEvents,  \* bound on setting changes and graceful restarts
    MaxFaults,  \* bound on failed uploads and crashes
    MaxErrors   \* bound on failed opens and renames of spool files

ASSUME BoundsAssumption ==
    /\ MaxHour \in Nat /\ MaxRecords \in Nat
    /\ MaxEvents \in Nat /\ MaxFaults \in Nat /\ MaxErrors \in Nat

Hours == 0..MaxHour
Records == 1..MaxRecords
Names == Hours \X (0..(2 * MaxEvents))
NoHour == -1

VARIABLES
    hour,    \* the clock
    enabled, \* the logs.archive.enabled setting
    armed,   \* a handler passed Enabled and has not written its record yet
    hourOf,  \* the hour each logged record was written in, NoHour before
    stamp,   \* Archive.stamp: the hour of the open spool file, or NoHour
    linked,  \* the open file still has its name in the directory
    buf,     \* records in the bufio.Writer
    disk,    \* the spool directory: the flushed records of each file
    parts,   \* partial names given out
    objects, \* the object store: the records of each object
    life,    \* the process: "up", "closing", "down"
    up,      \* the uploader: where it is, the names left, the one in work and
             \* its compressed copy
    events, faults, errors,
    lost,    \* history: records in the buffer at a crash
    cut      \* history: hours a crash or a failed rename interrupted

vars == <<hour, enabled, armed, hourOf, stamp, linked, buf, disk, parts,
          objects, life, up, events, faults, errors, lost, cut>>
spool == <<stamp, linked, buf, disk, parts>>
history == <<lost, cut>>

UploaderPCs == {"idle", "pending", "next", "compress", "put", "remove"}
NoName == <<0, 0>>
Idle == [pc |-> "idle", todo |-> {}, name |-> NoName, data |-> {}]

(* Archive.file, buf and stamp are set and cleared together. *)
TypeOK ==
    /\ hour \in Hours
    /\ enabled \in BOOLEAN /\ armed \in BOOLEAN /\ linked \in BOOLEAN
    /\ hourOf \in [Records -> Hours \cup {NoHour}]
    /\ stamp \in Hours \cup {NoHour}
    /\ buf \subseteq Records
    /\ stamp = NoHour => ~linked /\ buf = {}
    /\ disk \in [Names -> SUBSET Records]
    /\ parts \in Nat
    /\ objects \in [Names -> SUBSET Records]
    /\ life \in {"up", "closing", "down"}
    /\ up \in [pc : UploaderPCs, todo : SUBSET Names, name : Names,
               data : SUBSET Records]
    /\ events \in 0..MaxEvents /\ faults \in 0..MaxFaults
    /\ errors \in 0..MaxErrors
    /\ lost \subseteq Records
    /\ cut \subseteq Hours

Init ==
    /\ hour = 0
    /\ enabled = TRUE
    /\ armed = FALSE
    /\ hourOf = [r \in Records |-> NoHour]
    /\ stamp = NoHour
    /\ linked = FALSE
    /\ buf = {}
    /\ disk = [n \in Names |-> {}]
    /\ parts = 0
    /\ objects = [n \in Names |-> {}]
    /\ life = "up"
    /\ up = Idle
    /\ events = 0
    /\ faults = 0
    /\ errors = 0
    /\ lost = {}
    /\ cut = {}

Event == events < MaxEvents /\ events' = events + 1
Fault == faults < MaxFaults /\ faults' = faults + 1
Error == errors < MaxErrors /\ errors' = errors + 1

Logged == {r \in Records : hourOf[r] # NoHour}

-----------------------------------------------------------------------------
(* Logging *)

(* handler.Enabled: collection is on when the record is made. *)
HandlerEnabled ==
    /\ life # "down" /\ enabled /\ ~armed
    /\ Logged # Records
    /\ armed' = TRUE
    /\ UNCHANGED <<hour, enabled, hourOf, spool, objects, life, up, events,
                   faults, errors, history>>

(* The directory after the buffer reached the open file; records written to a
   file whose name is gone reach no file of the directory. *)
Flushed == IF stamp # NoHour /\ linked
           THEN [disk EXCEPT ![<<stamp, 0>>] = @ \cup buf] ELSE disk

Rotates == stamp # NoHour /\ stamp # hour

\* Faulty variant: the closed file's buffer is kept.
CloseSpoolBuffer ==
    /\ stamp' = NoHour
    /\ linked' = FALSE
    /\ buf' = buf

CloseSpool ==
    /\ stamp' = NoHour
    /\ linked' = FALSE
    /\ buf' = {}

(* closeSpoolLocked(false): the finished hour keeps its name. *)
CloseFinished ==
    /\ CloseSpool
    /\ disk' = Flushed
    /\ UNCHANGED parts

(* spoolWriter.Write: rotate when the hour is over, open the hour's file for
   appending if none is open, and write to its buffer, which first spills what
   it holds when it is full.  Nothing is written once the archive is closed. *)
WriteRecord ==
    /\ armed
    /\ armed' = FALSE
    /\ \/ life = "closing" /\ UNCHANGED <<hourOf, spool>>
       \/ \E r \in Records \ Logged :
            /\ life # "closing" /\ \A y \in Records \ Logged : r <= y
            /\ hourOf' = [hourOf EXCEPT ![r] = hour]
            /\ \/ disk' = Flushed /\ buf' = {r}
               \/ ~Rotates /\ UNCHANGED disk /\ buf' = buf \cup {r}
            /\ stamp' = hour
            /\ linked' = IF Rotates \/ stamp = NoHour THEN TRUE ELSE linked
            /\ UNCHANGED parts
    /\ UNCHANGED <<hour, enabled, objects, life, up, events, faults,
                   errors, history>>

(* The hour's file can't be opened: the record is dropped. *)
OpenFails ==
    /\ armed
    /\ armed' = FALSE
    /\ life # "closing"
    /\ Error
    /\ \/ stamp = NoHour /\ UNCHANGED spool
       \/ Rotates /\ CloseFinished
    /\ UNCHANGED <<hour, enabled, hourOf, objects, life, up, events, faults,
                   history>>

-----------------------------------------------------------------------------
(* The uploader *)

\* Faulty variant: the file is renamed before the buffer is flushed.
ClosePartialUnflushed ==
    /\ CloseSpool
    /\ parts' = parts + 1
    /\ disk' = IF linked
               THEN [disk EXCEPT ![<<stamp, 0>>] = {},
                                 ![<<stamp, parts + 1>>] = disk[<<stamp, 0>>]]
               ELSE disk

\* Faulty variant: the partial file is a copy, and the hour's file stays.
ClosePartialCopy ==
    /\ CloseSpool
    /\ parts' = parts + 1
    /\ disk' = IF linked
               THEN [Flushed EXCEPT ![<<stamp, parts + 1>>] = Flushed[<<stamp, 0>>]]
               ELSE disk

(* closeSpoolLocked(true): the partial hour is renamed.  Renaming a file that
   is gone fails. *)
ClosePartial ==
    /\ CloseSpool
    /\ parts' = parts + 1
    /\ disk' = IF linked
               THEN [Flushed EXCEPT ![<<stamp, 0>>] = {},
                                    ![<<stamp, parts + 1>>] = Flushed[<<stamp, 0>>]]
               ELSE disk

(* closeSpoolLocked(true), or the same with a rename that fails: the partial
   hour keeps the name of a finished one. *)
CloseHour ==
    \/ ClosePartial /\ UNCHANGED <<errors, cut>>
    \/ CloseFinished /\ Error /\ cut' = cut \cup {stamp}

FlushSpool ==
    /\ disk' = Flushed
    /\ buf' = {}
    /\ UNCHANGED <<stamp, linked, parts>>

(* tick, under the mutex: close the spool when the setting went off or its
   hour is over, flush it otherwise. *)
Tick ==
    /\ life = "up"
    /\ up.pc = "idle"
    /\ \/ stamp # NoHour /\ ~enabled /\ CloseHour
       \/ /\ \/ stamp = NoHour /\ UNCHANGED spool
             \/ stamp # NoHour /\ enabled /\ stamp # hour /\ CloseFinished
             \/ stamp # NoHour /\ enabled /\ stamp = hour /\ FlushSpool
          /\ UNCHANGED <<errors, cut>>
    /\ up' = [Idle EXCEPT !.pc = "pending"]
    /\ UNCHANGED <<hour, enabled, armed, hourOf, objects, life, events, faults,
                   lost>>

\* Faulty variant: partial files are not listed.
ListPendingHours ==
    /\ up.pc = "pending"
    /\ up' = [Idle EXCEPT !.pc = "next",
                          !.todo = {n \in Names : n[2] = 0 /\ disk[n] # {}}]
    /\ UNCHANGED <<hour, enabled, armed, hourOf, spool, objects, life, events,
                   faults, errors, history>>

(* uploadPending lists the directory. *)
ListPending ==
    /\ up.pc = "pending"
    /\ up' = [Idle EXCEPT !.pc = "next", !.todo = {n \in Names : disk[n] # {}}]
    /\ UNCHANGED <<hour, enabled, armed, hourOf, spool, objects, life, events,
                   faults, errors, history>>

Before(m, n) == m[1] < n[1] \/ (m[1] = n[1] /\ m[2] <= n[2])

(* Take the oldest name left; isCurrent skips the open file. *)
NextFile ==
    /\ up.pc = "next"
    /\ \E n \in up.todo :
         /\ \A m \in up.todo : Before(n, m)
         /\ up' = [up EXCEPT !.todo = @ \ {n}, !.name = n,
                             !.pc = IF n = <<stamp, 0>> THEN "next" ELSE "compress"]
    /\ UNCHANGED <<hour, enabled, armed, hourOf, spool, objects, life, events,
                   faults, errors, history>>

(* The pass is over; after Close the process exits. *)
PassEnds ==
    /\ up.pc = "next"
    /\ up.todo = {}
    /\ up' = Idle
    /\ life' = IF life = "closing" THEN "down" ELSE life
    /\ armed' = IF life = "closing" THEN FALSE ELSE armed
    /\ UNCHANGED <<hour, enabled, hourOf, spool, objects, events, faults,
                   errors, history>>

(* upload: gzip what the file holds now. *)
Compress ==
    /\ up.pc = "compress"
    /\ up' = [up EXCEPT !.data = disk[up.name], !.pc = "put"]
    /\ UNCHANGED <<hour, enabled, armed, hourOf, spool, objects, life, events,
                   faults, errors, history>>

(* Store.Put replaces any object there. *)
PutObject == objects' = [objects EXCEPT ![up.name] = up.data]

Put ==
    /\ up.pc = "put"
    /\ PutObject
    /\ up' = [up EXCEPT !.pc = "remove"]
    /\ UNCHANGED <<hour, enabled, armed, hourOf, spool, life, events, faults,
                   errors, history>>

(* Put fails, or its answer is lost: the file stays for the next tick. *)
PutFails ==
    /\ up.pc = "put"
    /\ Fault
    /\ PutObject \/ UNCHANGED objects
    /\ up' = [up EXCEPT !.pc = "next"]
    /\ UNCHANGED <<hour, enabled, armed, hourOf, spool, life, events, errors,
                   history>>

(* os.Remove works on the name, whoever has the file open. *)
Remove ==
    /\ up.pc = "remove"
    /\ disk' = [disk EXCEPT ![up.name] = {}]
    /\ linked' = (linked /\ up.name # <<stamp, 0>>)
    /\ up' = [up EXCEPT !.pc = "next"]
    /\ UNCHANGED <<hour, enabled, armed, hourOf, stamp, buf, parts, objects,
                   life, events, faults, errors, history>>

-----------------------------------------------------------------------------
(* The process and its surroundings *)

(* Close waits for the loop, renames the partial hour and uploads once more. *)
Close ==
    /\ life = "up"
    /\ up.pc = "idle"
    /\ Event
    /\ life' = "closing"
    /\ \/ stamp = NoHour /\ UNCHANGED <<spool, errors, cut>>
       \/ stamp # NoHour /\ CloseHour
    /\ up' = [Idle EXCEPT !.pc = "pending"]
    /\ UNCHANGED <<hour, enabled, armed, hourOf, objects, faults, lost>>

Crash ==
    /\ life # "down"
    /\ Fault
    /\ life' = "down"
    /\ armed' = FALSE
    /\ stamp' = NoHour /\ linked' = FALSE /\ buf' = {}
    /\ up' = Idle
    /\ lost' = lost \cup buf
    /\ cut' = cut \cup {hour} \cup ({stamp} \ {NoHour})
    /\ UNCHANGED <<hour, enabled, hourOf, disk, parts, objects, events, errors>>

Start ==
    /\ life = "down"
    /\ life' = "up"
    /\ UNCHANGED <<hour, enabled, armed, hourOf, spool, objects, up, events,
                   faults, errors, history>>

SetEnabled ==
    /\ Event
    /\ enabled' = ~enabled
    /\ UNCHANGED <<hour, armed, hourOf, spool, objects, life, up, faults, errors,
                   history>>

HourPasses ==
    /\ hour < MaxHour
    /\ hour' = hour + 1
    /\ UNCHANGED <<enabled, armed, hourOf, spool, objects, life, up, events,
                   faults, errors, history>>

Uploader == Tick \/ ListPending \/ NextFile \/ PassEnds \/ Compress \/ Put \/ Remove

Next ==
    \/ HandlerEnabled \/ WriteRecord \/ OpenFails
    \/ Uploader \/ PutFails
    \/ Close \/ Crash \/ Start
    \/ SetEnabled \/ HourPasses

Spec == Init /\ [][Next]_vars

(* The ticker ticks, Put answers, time passes and a stopped process is
   started again; nobody has to log, close or change the setting. *)
Fairness == /\ WF_vars(Uploader)
            /\ WF_vars(HourPasses)
            /\ WF_vars(Start)
            /\ WF_vars(WriteRecord)

FairSpec == Spec /\ Fairness

-----------------------------------------------------------------------------
(* Properties *)

OnDisk == UNION {disk[n] : n \in Names}
Stored == UNION {objects[n] : n \in Names}

(* No record of an hour without a crash or a failed rename is ever lost: it is
   in the buffer, in a spool file or in an object, whatever rotation, partial
   close, failed upload or graceful restart happened in between. *)
RecordsKept ==
    \A r \in Logged : hourOf[r] \notin cut => r \in buf \cup OnDisk \cup Stored

(* A record is archived once: rotation and partial hours never put a record
   of such an hour into two objects. *)
ArchivedOnce ==
    \A r \in Logged : hourOf[r] \notin cut =>
        \A m, n \in Names : r \in objects[m] \cap objects[n] => m = n

(* Every record of such an hour reaches the object store once the hour is over,
   and stays there. *)
EventuallyStored ==
    \A r \in Records :
        [](hourOf[r] \in Hours =>
           <>[](r \in Stored \/ hourOf[r] \in cut \cup {MaxHour}))

(* What the archive promises about crashes: only what was still in the buffer
   is lost. *)
CrashLosesOnlyBuffer ==
    \A r \in Logged : r \in lost \cup buf \cup OnDisk \cup Stored
=============================================================================
