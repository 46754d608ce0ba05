-------------------------- MODULE LogArchiveProofs --------------------------
(***************************************************************************)
(* Proofs about LogArchive for any clock, any number of records, setting   *)
(* changes, restarts, failed uploads, failed opens and renames, and        *)
(* crashes: no record of an hour without a crash or a failed rename is     *)
(* lost, and none is archived twice.                                       *)
(***************************************************************************)
EXTENDS LogArchive, TLAPS

(* The types: Boolean flags, and the rest. *)
Uploaders == [pc : UploaderPCs, todo : SUBSET Names, name : Names, data : SUBSET Records]
Flags == enabled \in BOOLEAN /\ armed \in BOOLEAN /\ linked \in BOOLEAN
Fields ==
    /\ hour \in Hours
    /\ hourOf \in [Records -> Hours \cup {NoHour}]
    /\ stamp \in Hours \cup {NoHour}
    /\ buf \in SUBSET Records
    /\ disk \in [Names -> SUBSET Records]
    /\ objects \in [Names -> SUBSET Records]
    /\ parts \in Nat
    /\ life \in {"up", "closing", "down"}
    /\ up \in Uploaders
    /\ events \in 0..MaxEvents /\ faults \in 0..MaxFaults /\ errors \in 0..MaxErrors
    /\ lost \in SUBSET Records
    /\ cut \in SUBSET Hours

(* Names of partial hours are left: a setting that is off renames at most the
   open file and the one of a handler that was enabled before. *)
PartsFit ==
    IF enabled THEN parts <= 2 * events
    ELSE parts + (IF stamp # NoHour THEN 1 ELSE 0) + (IF armed THEN 1 ELSE 0) <= 2 * events

(* Nothing is written ahead of the clock. *)
Clock == /\ stamp <= hour
         /\ \A r \in Records : hourOf[r] <= hour

(* Every record is where its hour says. *)
Filed ==
    /\ \A r \in buf : stamp # NoHour /\ hourOf[r] = stamp
    /\ \A n \in Names : \A r \in disk[n] \cup objects[n] : hourOf[r] = n[1]
    /\ up.pc = "put" => \A r \in up.data : hourOf[r] = up.name[1]

(* A name that was not given out yet is unused. *)
Numbered ==
    /\ \A n \in Names : disk[n] \cup objects[n] # {} => n[2] <= parts
    /\ \A n \in up.todo : n[2] <= parts
    /\ up.pc \in {"compress", "put"} => up.name[2] <= parts

(* In an hour that is not cut the open file keeps its name, and only it has
   the name of the current hour. *)
OpenFile ==
    /\ stamp = NoHour => ~linked
    /\ stamp # NoHour /\ stamp \notin cut => linked
    /\ hour \notin cut /\ disk[<<hour, 0>>] # {} => stamp = hour

(* The file of an hour that is over and not open any more. *)
Over(n) == n[2] = 0 => n[1] < hour /\ n[1] # stamp

(* What the uploader has listed stays, and what it works on does not change,
   until it removes it. *)
Pass ==
    /\ \A n \in up.todo : n[1] \notin cut =>
         /\ disk[n] # {}
         /\ n[2] = 0 => n[1] < hour \/ n[1] = stamp
    /\ up.pc \in {"compress", "put", "remove"} =>
         /\ up.name \notin up.todo
         /\ up.name[1] \notin cut => disk[up.name] # {} /\ Over(up.name)
    /\ up.pc \in {"put", "remove"} /\ up.name[1] \notin cut => up.data = disk[up.name]
    /\ up.pc = "remove" /\ up.name[1] \notin cut => objects[up.name] = disk[up.name]

(* An archived file is over, and holds what its object does or is gone. *)
Archived ==
    \A n \in Names : n[1] \notin cut /\ objects[n] # {} =>
        /\ disk[n] = {} \/ disk[n] = objects[n]
        /\ Over(n)

(* A record is in one place. *)
At(r) == {n \in Names : r \in disk[n] \cup objects[n]}
Located ==
    \A r \in Records : hourOf[r] # NoHour /\ hourOf[r] \notin cut =>
        /\ r \in buf <=> At(r) = {}
        /\ \A m, n \in At(r) : m = n

(* The inductive invariant. *)
IInv == /\ Flags /\ Fields
        /\ PartsFit /\ Clock /\ Filed /\ Numbered
        /\ OpenFile /\ Pass /\ Archived /\ Located

-----------------------------------------------------------------------------
(* Names are pairs of an hour and a number. *)
LEMMA NamePairs ==
    /\ \A n \in Names : n[1] \in Hours /\ n[2] \in 0..(2 * MaxEvents) /\ n = <<n[1], n[2]>>
    /\ \A h \in Hours, k \in 0..(2 * MaxEvents) : <<h, k>> \in Names
    /\ 0 \in 0..(2 * MaxEvents) /\ 0 \in Hours /\ Hours \subseteq Nat
    /\ NoHour \notin Hours /\ NoHour \in Int /\ \A h \in Hours : NoHour <= h
  BY BoundsAssumption DEF Names, Hours, NoHour

(* An idle uploader, and one that begins a pass. *)
LEMMA IdleType ==
    /\ Idle \in Uploaders /\ Idle.pc = "idle" /\ Idle.todo = {}
    /\ \A p \in UploaderPCs, S \in SUBSET Names :
         LET u == [Idle EXCEPT !.pc = p, !.todo = S]
         IN  u \in Uploaders /\ u.pc = p /\ u.todo = S
    /\ \A p \in UploaderPCs :
         LET u == [Idle EXCEPT !.pc = p]
         IN  u \in Uploaders /\ u.pc = p /\ u.todo = {}
<1>1. NoName \in Names
  BY NamePairs DEF NoName
<1> QED
  BY <1>1 DEF Idle, Uploaders, UploaderPCs

(* What flushing does to the spool directory, file by file. *)
LEMMA FlushedFacts ==
    ASSUME Fields
    PROVE  /\ Flushed \in [Names -> SUBSET Records]
           /\ \A n \in Names : Flushed[n] = IF stamp # NoHour /\ linked /\ n = <<stamp, 0>>
                                            THEN disk[n] \cup buf ELSE disk[n]
  BY NamePairs DEF Fields, Flushed

(* What renaming a partial hour does to it. *)
LEMMA ClosePartialFacts ==
    ASSUME Fields, PartsFit, ClosePartial, stamp # NoHour, parts + 1 <= 2 * MaxEvents
    PROVE  /\ disk' \in [Names -> SUBSET Records]
           /\ stamp' = NoHour /\ linked' = FALSE /\ buf' = {} /\ parts' = parts + 1
           /\ ~linked => disk' = disk
           /\ linked => \A n \in Names :
                 disk'[n] = IF n = <<stamp, 0>> THEN {}
                            ELSE IF n = <<stamp, parts + 1>> THEN disk[<<stamp, 0>>] \cup buf
                            ELSE disk[n]
<1>1. stamp \in Hours /\ parts \in Nat
  BY DEF Fields
<1>2. parts + 1 \in 0..(2 * MaxEvents)
  BY <1>1, BoundsAssumption
<1> DEFINE a == <<stamp, 0>>
           b == <<stamp, parts + 1>>
<1>3. a \in Names /\ b \in Names /\ a # b
  BY <1>1, <1>2, NamePairs
<1>4. linked => Flushed[a] = disk[a] \cup buf
  BY <1>3, FlushedFacts
<1>5. linked => \A n \in Names : n # a => Flushed[n] = disk[n]
  BY FlushedFacts
<1>6. Flushed \in [Names -> SUBSET Records]
  BY FlushedFacts
<1>7. disk' = IF linked THEN [Flushed EXCEPT ![a] = {}, ![b] = Flushed[a]] ELSE disk
  BY DEF ClosePartial
<1>8. stamp' = NoHour /\ linked' = FALSE /\ buf' = {} /\ parts' = parts + 1
  BY DEF ClosePartial, CloseSpool
<1> HIDE DEF a, b
<1>9. disk' \in [Names -> SUBSET Records]
  BY <1>3, <1>6, <1>7 DEF Fields
<1> QED
  BY <1>3, <1>4, <1>5, <1>6, <1>7, <1>8, <1>9 DEF a, b

(* An empty spool directory satisfies the invariant. *)
LEMMA InitInv == Init => IInv
<1> SUFFICES ASSUME Init PROVE IInv
  OBVIOUS
<1>0. enabled /\ parts = 0 /\ events = 0 /\ faults = 0 /\ errors = 0 /\ ~linked
  BY DEF Init
<1>1. Flags
  BY DEF Init, Flags
<1>2. Fields
  <2>1. hour \in Hours /\ stamp \in Hours \cup {NoHour} /\ up \in Uploaders
    BY NamePairs, IdleType DEF Init
  <2>2. parts \in Nat /\ events \in 0..MaxEvents /\ faults \in 0..MaxFaults
        /\ errors \in 0..MaxErrors
    BY <1>0, BoundsAssumption
  <2>3. /\ hourOf \in [Records -> Hours \cup {NoHour}]
        /\ disk \in [Names -> SUBSET Records] /\ objects \in [Names -> SUBSET Records]
    BY NamePairs DEF Init
  <2> QED
    BY <2>1, <2>2, <2>3 DEF Init, Fields
<1>3. PartsFit
  BY <1>0 DEF PartsFit
<1>4. Clock
  BY NamePairs, IdleType DEF Init, Clock
<1>5. Filed /\ Numbered /\ OpenFile
  BY <1>0, NamePairs, IdleType DEF Init, Filed, Numbered, OpenFile
<1>6. Pass /\ Archived /\ Located
  BY NamePairs, IdleType DEF Init, Pass, Archived, Located
<1> QED
  BY <1>1, <1>2, <1>3, <1>4, <1>5, <1>6 DEF IInv

(* The parts of the invariant that are about files and records. *)
Contents == /\ Clock /\ Filed /\ Numbered
            /\ OpenFile /\ Pass /\ Archived /\ Located

(* The buffer reaches the open file, which may be closed when its hour is
   over; the uploader begins a pass, or a writer rotates beside it. *)
LEMMA FlushKeeps ==
    ASSUME IInv, stamp # NoHour, disk' = Flushed, buf' = {},
           \/ stamp' = stamp /\ linked' = linked /\ up'.pc = "pending"
           \/ stamp' = NoHour /\ linked' = FALSE /\ stamp # hour,
           \/ up'.pc = "pending" /\ up'.todo = {}
           \/ up' = up,
           UNCHANGED <<hour, hourOf, parts, objects, cut>>
    PROVE  Contents'
<1> USE NamePairs
<1>0. Fields /\ stamp \in Hours /\ hour \in Hours /\ <<stamp, 0>> \in Names
  BY DEF IInv, Fields
<1>1. \A n \in Names : /\ disk[n] \subseteq disk'[n]
                       /\ n # <<stamp, 0>> => disk'[n] = disk[n]
                       /\ disk'[n] \subseteq disk[n] \cup buf
  BY <1>0, FlushedFacts
<1>2. stamp \notin cut => disk'[<<stamp, 0>>] = disk[<<stamp, 0>>] \cup buf
  BY <1>0, FlushedFacts DEF IInv, OpenFile
<1>3. Clock'
  BY <1>0 DEF IInv, Clock
<1>4. Filed'
  BY <1>0, <1>1 DEF IInv, Filed
<1>5. Numbered'
  BY <1>0, <1>1 DEF IInv, Numbered, Fields
<1>6. OpenFile'
  BY <1>0, <1>1 DEF IInv, OpenFile
<1>7. Pass'
  <2>1. CASE up'.pc = "pending" /\ up'.todo = {}
    BY <2>1 DEF Pass
  <2>2. CASE up' = up /\ up'.pc # "pending"
    <3>1. /\ stamp' = NoHour /\ stamp < hour /\ up.name \in Names
          /\ up.todo \in SUBSET Names
      BY <1>0, <2>2 DEF IInv, Clock, Fields, Uploaders
    <3>2. \A n \in up.todo : n[1] \notin cut =>
            disk'[n] # {} /\ (n[2] = 0 => n[1] < hour)
      BY <1>0, <1>1, <3>1 DEF IInv, Pass
    <3>3. \A n \in Names : Over(n) => disk'[n] = disk[n] /\ Over(n)'
      BY <1>0, <1>1, <3>1 DEF Over
    <3> QED
      BY <2>2, <3>1, <3>2, <3>3 DEF IInv, Pass
  <2>3. CASE up' = up /\ up'.pc = "pending"
    <3>1. CASE stamp' = stamp
      BY <1>0, <1>1, <2>3, <3>1 DEF IInv, Pass, Fields, Uploaders
    <3>2. CASE stamp' = NoHour /\ stamp < hour
      BY <1>0, <1>1, <2>3, <3>2 DEF IInv, Pass, Fields, Uploaders
    <3> QED
      BY <1>0, <3>1, <3>2 DEF IInv, Clock
  <2> QED
    BY <2>1, <2>2, <2>3
<1>8. Archived'
  BY <1>0, <1>1 DEF IInv, Archived, Over
<1>9. Located'
  BY <1>0, <1>1, <1>2 DEF IInv, Located, At, Filed, Fields
<1> QED
  BY <1>3, <1>4, <1>5, <1>6, <1>7, <1>8, <1>9 DEF Contents

(* The rename of a partial hour fails: the closed file keeps the name of a
   finished hour, and the hour is cut. *)
LEMMA UnrenamedKeeps ==
    ASSUME IInv, stamp # NoHour, CloseFinished, cut' = cut \cup {stamp},
           up'.pc = "pending", up'.todo = {},
           UNCHANGED <<hour, hourOf, objects>>
    PROVE  Contents'
<1> USE NamePairs
<1>0. Fields /\ stamp \in Hours /\ hour \in Hours /\ <<stamp, 0>> \in Names
  BY DEF IInv, Fields
<1>1. /\ stamp' = NoHour /\ linked' = FALSE /\ buf' = {} /\ parts' = parts
      /\ disk' = Flushed
  BY DEF CloseFinished, CloseSpool
<1>2. \A n \in Names : /\ disk[n] \subseteq disk'[n]
                       /\ n # <<stamp, 0>> => disk'[n] = disk[n]
                       /\ disk'[n] \subseteq disk[n] \cup buf
  BY <1>0, <1>1, FlushedFacts
<1>3. Clock'
  BY <1>0, <1>1 DEF IInv, Clock
<1>4. Filed'
  BY <1>0, <1>1, <1>2 DEF IInv, Filed
<1>5. Numbered'
  BY <1>0, <1>1, <1>2 DEF IInv, Numbered, Fields
<1>6. OpenFile'
  BY <1>0, <1>1, <1>2 DEF IInv, OpenFile
<1>7. Pass'
  BY DEF Pass
<1>8. Archived'
  BY <1>0, <1>1, <1>2 DEF IInv, Archived, Over
<1>9. Located'
  <2> SUFFICES ASSUME NEW r \in Records, hourOf[r] # NoHour, hourOf[r] \notin cut,
                      hourOf[r] # stamp
               PROVE  (r \in buf' <=> At(r)' = {}) /\ \A m, n \in At(r)' : m = n
    BY DEF Located
  <2>1. r \notin buf
    BY DEF IInv, Filed
  <2>2. At(r)' = At(r)
    BY <1>2, <2>1 DEF At
  <2> QED
    BY <1>1, <2>1, <2>2 DEF IInv, Located
<1> QED
  BY <1>3, <1>4, <1>5, <1>6, <1>7, <1>8, <1>9 DEF Contents

(* The open file is renamed, with all it holds; the uploader begins a pass. *)
LEMMA PartialKeeps ==
    ASSUME IInv, stamp # NoHour, ClosePartial, parts + 1 <= 2 * MaxEvents,
           up'.pc = "pending", up'.todo = {},
           UNCHANGED <<hour, hourOf, objects, cut>>
    PROVE  Contents'
<1> USE NamePairs
<1>0. /\ Fields /\ stamp \in Hours /\ hour \in Hours /\ parts \in Nat
      /\ <<stamp, 0>> \in Names /\ <<stamp, parts + 1>> \in Names
  BY BoundsAssumption DEF IInv, Fields
<1> DEFINE a == <<stamp, 0>>
           b == <<stamp, parts + 1>>
<1>1. a \in Names /\ b \in Names /\ a # b /\ a[1] = stamp /\ b[1] = stamp
      /\ a[2] = 0 /\ b[2] = parts + 1
  BY <1>0
<1>2. /\ stamp' = NoHour /\ buf' = {} /\ parts' = parts + 1 /\ linked' = FALSE
      /\ \A n \in Names : n \notin {a, b} => disk'[n] = disk[n]
      /\ \/ disk' = disk /\ stamp \in cut
         \/ disk'[a] = {} /\ disk'[b] = disk[a] \cup buf
  BY <1>0, ClosePartialFacts DEF IInv, OpenFile
<1>3. disk[b] = {} /\ objects[b] = {}
  BY <1>0, <1>1 DEF IInv, Numbered, Fields
<1>4. stamp \notin cut => objects[a] = {}
  BY <1>0, <1>1 DEF IInv, Archived, Over
<1> HIDE DEF a, b
<1>5. Clock'
  BY <1>0, <1>2 DEF IInv, Clock
<1>6. Filed'
  BY <1>0, <1>1, <1>2, <1>3 DEF IInv, Filed
<1>7. Numbered'
  BY <1>0, <1>1, <1>2, <1>3 DEF IInv, Numbered
<1>8. OpenFile'
  BY <1>0, <1>1, <1>2 DEF IInv, OpenFile, a
<1>9. Pass'
  BY DEF Pass
<1>10. Archived'
  BY <1>0, <1>1, <1>2, <1>3, <1>4 DEF IInv, Archived, Over
<1>11. Located'
  BY <1>0, <1>1, <1>2, <1>3, <1>4 DEF IInv, Located, At, Filed, Fields
<1> QED
  BY <1>5, <1>6, <1>7, <1>8, <1>9, <1>10, <1>11 DEF Contents

(* Steps that leave files and records alone. *)
LEMMA ContentsUntouched ==
    ASSUME Contents,
           UNCHANGED <<hour, hourOf, stamp, linked, buf, disk, parts, objects, up, cut>>
    PROVE  Contents'
  BY DEF Contents, Clock, Filed, Numbered, OpenFile, Pass, Archived, Over, Located, At

(* The invariant from its three groups. *)
LEMMA Grouped == (IInv <=> Flags /\ Fields /\ PartsFit /\ Contents)
  BY DEF IInv, Contents

LEMMA HandlerEnabledInv == ASSUME IInv, HandlerEnabled PROVE IInv'
<1>1. Flags'
  BY DEF IInv, Flags, HandlerEnabled, spool
<1>2. Fields'
  BY DEF IInv, Fields, HandlerEnabled, spool, history
<1>3. PartsFit'
  BY DEF IInv, Flags, PartsFit, HandlerEnabled, spool
<1>4. Contents'
  BY Grouped, ContentsUntouched DEF HandlerEnabled, spool, history
<1> QED
  BY <1>1, <1>2, <1>3, <1>4 DEF IInv, Contents

LEMMA SetEnabledInv == ASSUME IInv, SetEnabled PROVE IInv'
<1>1. Flags'
  BY DEF IInv, Flags, SetEnabled, spool
<1>2. Fields'
  <2>1. events' \in 0..MaxEvents
    BY BoundsAssumption DEF IInv, Fields, SetEnabled, Event
  <2> QED
    BY <2>1 DEF IInv, Fields, SetEnabled, spool, history
<1>3. PartsFit'
  BY DEF IInv, Flags, Fields, PartsFit, SetEnabled, Event, spool
<1>4. Contents'
  BY Grouped, ContentsUntouched DEF SetEnabled, spool, history
<1> QED
  BY <1>1, <1>2, <1>3, <1>4 DEF IInv, Contents

LEMMA StartInv == ASSUME IInv, Start PROVE IInv'
<1>1. Flags'
  BY DEF IInv, Flags, Start, spool
<1>2. Fields'
  BY DEF IInv, Fields, Start, spool, history
<1>3. PartsFit'
  BY DEF IInv, PartsFit, Start, spool
<1>4. Contents'
  BY Grouped, ContentsUntouched DEF Start, spool, history
<1> QED
  BY <1>1, <1>2, <1>3, <1>4 DEF IInv, Contents

(* The clock moves on; the file of the new hour does not exist yet. *)
LEMMA HourPassesInv == ASSUME IInv, HourPasses PROVE IInv'
<1> USE NamePairs
<1>0. /\ hour' = hour + 1 /\ hour' \in Hours /\ hour \in Nat /\ <<hour', 0>> \in Names
      /\ UNCHANGED <<enabled, armed, hourOf, stamp, linked, buf, disk, parts, objects,
                     life, up, events, faults, errors, lost, cut>>
  <2>1. hour \in Hours
    BY DEF IInv, Fields
  <2>2. hour' = hour + 1 /\ hour' \in Hours /\ hour \in Nat
    BY <2>1, BoundsAssumption DEF HourPasses, Hours
  <2>3. <<hour', 0>> \in Names
    BY <2>2
  <2>4. UNCHANGED <<enabled, armed, hourOf, stamp, linked, buf, disk, parts, objects,
                    life, up, events, faults, errors, lost, cut>>
    BY DEF HourPasses, spool, history
  <2> QED
    BY <2>2, <2>3, <2>4
<1>1. Flags'
  BY <1>0 DEF IInv, Flags
<1>2. Fields'
  BY <1>0 DEF IInv, Fields
<1>3. PartsFit'
  BY <1>0 DEF IInv, PartsFit
<1>4. Clock'
  BY <1>0 DEF IInv, Clock, Fields
<1>5. disk[<<hour', 0>>] = {}
  <2> SUFFICES ASSUME NEW r \in disk[<<hour', 0>>] PROVE FALSE
    OBVIOUS
  <2>1. r \in Records /\ hourOf[r] = hour'
    BY <1>0 DEF IInv, Fields, Filed
  <2> QED
    BY <1>0, <2>1 DEF IInv, Clock
<1>6. Filed' /\ Numbered'
  BY <1>0 DEF IInv, Filed, Numbered
<1>7. OpenFile'
  BY <1>0, <1>5 DEF IInv, OpenFile
<1>8. Pass'
  BY <1>0 DEF IInv, Fields, Uploaders, Pass, Over
<1>9. Archived'
  BY <1>0 DEF IInv, Archived, Over
<1>10. Located'
  BY <1>0 DEF IInv, Located, At
<1> QED
  BY <1>1, <1>2, <1>3, <1>4, <1>6, <1>7, <1>8, <1>9, <1>10 DEF IInv

(* uploadPending lists every file that holds records. *)
LEMMA ListPendingInv == ASSUME IInv, ListPending PROVE IInv'
<1> USE NamePairs
<1> DEFINE S == {n \in Names : disk[n] # {}}
<1>a. "next" \in UploaderPCs /\ S \in SUBSET Names
  BY DEF UploaderPCs
<1>b. up' = [Idle EXCEPT !.pc = "next", !.todo = S]
  BY DEF ListPending
<1> HIDE DEF S
<1>c. up' \in Uploaders /\ up'.pc = "next" /\ up'.todo = S
  BY <1>a, <1>b, IdleType
<1>0. /\ up' \in Uploaders /\ up'.pc = "next" /\ up'.todo = {n \in Names : disk[n] # {}}
      /\ UNCHANGED <<hour, enabled, armed, hourOf, stamp, linked, buf, disk, parts, objects,
                     life, events, faults, errors, lost, cut>>
  BY <1>c DEF ListPending, S, spool, history
<1>1. Flags'
  BY <1>0 DEF IInv, Flags
<1>2. Fields'
  BY <1>0 DEF IInv, Fields
<1>3. PartsFit'
  BY <1>0 DEF IInv, PartsFit
<1>4. Clock' /\ Filed' /\ Numbered' /\ OpenFile'
  BY <1>0 DEF IInv, Clock, Filed, Numbered, OpenFile
<1>5. Pass'
  <2> SUFFICES ASSUME NEW n \in Names, n[1] \notin cut, disk[n] # {}, n[2] = 0
               PROVE  n[1] < hour \/ n[1] = stamp
    BY <1>0 DEF Pass
  <2>1. n[1] <= hour
    BY DEF IInv, Fields, Filed, Clock
  <2>2. n[1] = hour => n = <<hour, 0>> /\ stamp = hour
    BY DEF IInv, OpenFile
  <2> QED
    BY <2>1, <2>2 DEF IInv, Fields
<1>6. Archived' /\ Located'
  BY <1>0 DEF IInv, Archived, Over, Located, At
<1> QED
  BY <1>1, <1>2, <1>3, <1>4, <1>5, <1>6 DEF IInv

(* The next file is taken unless it is the open one; a partial hour and an
   hour that is over are not. *)
LEMMA NextFileInv == ASSUME IInv, NextFile PROVE IInv'
<1> USE NamePairs
<1>0. PICK n \in up.todo :
        /\ up' \in Uploaders /\ up'.todo = up.todo \ {n} /\ up'.name = n
        /\ up'.pc = IF n = <<stamp, 0>> THEN "next" ELSE "compress"
  <2>1. PICK n \in up.todo :
          up' = [up EXCEPT !.todo = @ \ {n}, !.name = n,
                           !.pc = IF n = <<stamp, 0>> THEN "next" ELSE "compress"]
    BY DEF NextFile
  <2>2. up \in Uploaders
    BY DEF IInv, Fields
  <2> QED
    BY <2>1, <2>2 DEF Uploaders, UploaderPCs
<1>1. UNCHANGED <<hour, enabled, armed, hourOf, stamp, linked, buf, disk, parts, objects,
                  life, events, faults, errors, lost, cut>>
  BY DEF NextFile, spool, history
<1>2. n \in Names
  BY DEF IInv, Fields, Uploaders
<1>3. Flags'
  BY <1>1 DEF IInv, Flags
<1>4. Fields'
  BY <1>0, <1>1 DEF IInv, Fields
<1>5. PartsFit'
  BY <1>1 DEF IInv, PartsFit
<1>6. Clock' /\ Filed' /\ OpenFile'
  BY <1>0, <1>1 DEF IInv, Clock, Filed, OpenFile
<1>7. Numbered'
  BY <1>0, <1>1 DEF IInv, Numbered
<1>8. Pass'
  BY <1>0, <1>1, <1>2 DEF IInv, Pass, Over
<1>9. Archived' /\ Located'
  BY <1>1 DEF IInv, Archived, Over, Located, At
<1> QED
  BY <1>3, <1>4, <1>5, <1>6, <1>7, <1>8, <1>9 DEF IInv

LEMMA PassEndsInv == ASSUME IInv, PassEnds PROVE IInv'
<1>0. /\ up' \in Uploaders /\ up'.pc = "idle" /\ up'.todo = {}
      /\ UNCHANGED <<hour, enabled, hourOf, stamp, linked, buf, disk, parts, objects,
                     events, faults, errors, lost, cut>>
  BY IdleType DEF PassEnds, spool, history
<1>1. Flags'
  BY <1>0 DEF IInv, Flags, PassEnds
<1>2. Fields'
  <2>1. life' \in {"up", "closing", "down"}
    BY DEF IInv, Fields, PassEnds
  <2> QED
    BY <1>0, <2>1 DEF IInv, Fields
<1>3. PartsFit'
  BY <1>0 DEF IInv, Flags, Fields, PartsFit, PassEnds
<1>4. Clock' /\ Filed' /\ OpenFile' /\ Pass'
  BY <1>0 DEF IInv, Clock, Filed, OpenFile, Pass
<1>5. Numbered' /\ Archived' /\ Located'
  BY <1>0 DEF IInv, Numbered, Archived, Over, Located, At
<1> QED
  BY <1>1, <1>2, <1>3, <1>4, <1>5 DEF IInv

LEMMA CompressInv == ASSUME IInv, Compress PROVE IInv'
<1>0. /\ up' \in Uploaders /\ up'.pc = "put" /\ up'.data = disk[up.name]
      /\ up'.todo = up.todo /\ up'.name = up.name /\ up.name \in Names
      /\ up.pc = "compress"
  <2>1. up \in Uploaders /\ up.name \in Names /\ disk[up.name] \in SUBSET Records
    BY DEF IInv, Fields, Uploaders
  <2>2. up.pc = "compress" /\ up' = [up EXCEPT !.data = disk[up.name], !.pc = "put"]
    BY DEF Compress
  <2> QED
    BY <2>1, <2>2 DEF Uploaders, UploaderPCs
<1>1. UNCHANGED <<hour, enabled, armed, hourOf, stamp, linked, buf, disk, parts, objects,
                  life, events, faults, errors, lost, cut>>
  BY DEF Compress, spool, history
<1>2. Flags'
  BY <1>1 DEF IInv, Flags
<1>3. Fields'
  BY <1>0, <1>1 DEF IInv, Fields
<1>4. PartsFit'
  BY <1>1 DEF IInv, PartsFit
<1>5. Clock' /\ OpenFile'
  BY <1>1 DEF IInv, Clock, OpenFile
<1>6. Filed' /\ Numbered'
  BY <1>0, <1>1 DEF IInv, Filed, Numbered
<1>7. Pass'
  BY <1>0, <1>1 DEF IInv, Pass, Over
<1>8. Archived' /\ Located'
  BY <1>1 DEF IInv, Archived, Over, Located, At
<1> QED
  BY <1>2, <1>3, <1>4, <1>5, <1>6, <1>7, <1>8 DEF IInv

(* Put stores what the file holds; the name is archived for the first time or
   again with the same records. *)
LEMMA PutKeeps ==
    ASSUME IInv, up.pc = "put", PutObject,
           up' \in Uploaders, up'.pc \in {"remove", "next"}, up'.name = up.name,
           up'.todo = up.todo, up'.data = up.data,
           UNCHANGED <<hour, hourOf, stamp, linked, buf, disk, parts, cut>>
    PROVE  Contents'
<1> USE NamePairs
<1>0. Fields /\ up.name \in Names /\ up.data \in SUBSET Records
  BY DEF IInv, Fields, Uploaders
<1>1. /\ objects'[up.name] = up.data
      /\ \A n \in Names : n # up.name => objects'[n] = objects[n]
  BY <1>0 DEF PutObject, Fields
<1>2. up.name[1] \notin cut => /\ up.data = disk[up.name] /\ up.data # {} /\ Over(up.name)
  BY DEF IInv, Pass
<1>3. Clock' /\ OpenFile'
  BY DEF IInv, Clock, OpenFile
<1>4. Filed'
  BY <1>0, <1>1 DEF IInv, Filed
<1>5. Numbered'
  BY <1>0, <1>1 DEF IInv, Numbered
<1>6. Pass'
  BY <1>0, <1>1, <1>2 DEF IInv, Pass, Over
<1>7. Archived'
  BY <1>0, <1>1, <1>2 DEF IInv, Archived, Over
<1>8. Located'
  BY <1>0, <1>1, <1>2 DEF IInv, Filed, Archived, Located, At
<1> QED
  BY <1>3, <1>4, <1>5, <1>6, <1>7, <1>8 DEF Contents

(* What a step of the uploader that only moves on leaves. *)
LEMMA MovesOn ==
    ASSUME IInv, NEW p \in UploaderPCs, up' = [up EXCEPT !.pc = p]
    PROVE  /\ up' \in Uploaders /\ up'.pc = p
           /\ up'.todo = up.todo /\ up'.name = up.name /\ up'.data = up.data
<1>1. up \in Uploaders
  BY DEF IInv, Fields
<1> QED
  BY <1>1 DEF Uploaders

LEMMA PutInv == ASSUME IInv, Put PROVE IInv'
<1>1. /\ up.pc = "put" /\ up' = [up EXCEPT !.pc = "remove"] /\ PutObject
      /\ UNCHANGED <<hour, enabled, armed, hourOf, stamp, linked, buf, disk, parts, life,
                     events, faults, errors, lost, cut>>
  BY DEF Put, spool, history
<1>2. "remove" \in UploaderPCs
  BY DEF UploaderPCs
<1>3. /\ up' \in Uploaders /\ up'.pc = "remove"
      /\ up'.todo = up.todo /\ up'.name = up.name /\ up'.data = up.data
  BY <1>1, <1>2, MovesOn
<1>4. Flags'
  BY <1>1 DEF IInv, Flags
<1>5. Fields'
  <2>1. objects' \in [Names -> SUBSET Records]
    BY DEF IInv, Fields, Uploaders, Put, PutObject
  <2> QED
    BY <1>1, <1>3, <2>1 DEF IInv, Fields
<1>6. PartsFit'
  BY <1>1 DEF IInv, PartsFit
<1>7. Contents'
  BY <1>1, <1>3, PutKeeps
<1> QED
  BY <1>4, <1>5, <1>6, <1>7 DEF IInv, Contents

LEMMA PutFailsInv == ASSUME IInv, PutFails PROVE IInv'
<1>1. /\ up.pc = "put" /\ up' = [up EXCEPT !.pc = "next"]
      /\ UNCHANGED <<hour, enabled, armed, hourOf, stamp, linked, buf, disk, parts, life,
                     events, errors, lost, cut>>
  BY DEF PutFails, spool, history
<1>2. "next" \in UploaderPCs
  BY DEF UploaderPCs
<1>3. /\ up' \in Uploaders /\ up'.pc = "next"
      /\ up'.todo = up.todo /\ up'.name = up.name /\ up'.data = up.data
  BY <1>1, <1>2, MovesOn
<1>4. Flags'
  BY <1>1 DEF IInv, Flags
<1>5. Fields'
  <2>1. objects' \in [Names -> SUBSET Records]
    BY DEF IInv, Fields, Uploaders, PutFails, PutObject
  <2>2. faults' \in 0..MaxFaults
    BY BoundsAssumption DEF IInv, Fields, PutFails, Fault
  <2> QED
    BY <1>1, <1>3, <2>1, <2>2 DEF IInv, Fields
<1>6. PartsFit'
  BY <1>1 DEF IInv, PartsFit
<1>7. CASE PutObject
  <2>1. Contents'
    BY <1>1, <1>3, <1>7, PutKeeps
  <2> QED
    BY <1>4, <1>5, <1>6, <2>1 DEF IInv, Contents
<1>8. CASE UNCHANGED objects
  <2>1. Clock' /\ Filed' /\ OpenFile'
    BY <1>1, <1>3, <1>8 DEF IInv, Clock, Filed, OpenFile
  <2>2. Numbered' /\ Pass'
    BY <1>1, <1>3, <1>8 DEF IInv, Numbered, Pass
  <2>3. Archived' /\ Located'
    BY <1>1, <1>8 DEF IInv, Archived, Over, Located, At
  <2> QED
    BY <1>4, <1>5, <1>6, <2>1, <2>2, <2>3 DEF IInv
<1> QED
  BY <1>7, <1>8 DEF PutFails

(* The stored file goes; it is not the open one unless a crash came between. *)
LEMMA RemoveInv == ASSUME IInv, Remove PROVE IInv'
<1> USE NamePairs
<1>1. /\ up.pc = "remove" /\ up' = [up EXCEPT !.pc = "next"]
      /\ disk' = [disk EXCEPT ![up.name] = {}]
      /\ linked' = (linked /\ up.name # <<stamp, 0>>)
      /\ UNCHANGED <<hour, enabled, armed, hourOf, stamp, buf, parts, objects, life,
                     events, faults, errors, lost, cut>>
  BY DEF Remove, history
<1>2. "next" \in UploaderPCs
  BY DEF UploaderPCs
<1>3. /\ up' \in Uploaders /\ up'.pc = "next"
      /\ up'.todo = up.todo /\ up'.name = up.name
  BY <1>1, <1>2, MovesOn
<1>4. Fields /\ up.name \in Names
  BY DEF IInv, Fields, Uploaders
<1>5. disk'[up.name] = {} /\ \A n \in Names : n # up.name => disk'[n] = disk[n]
  BY <1>1, <1>4 DEF Fields
<1>6. up.name[1] \notin cut => objects[up.name] = disk[up.name] /\ Over(up.name)
  BY <1>1 DEF IInv, Pass
<1>7. Flags'
  BY <1>1 DEF IInv, Flags
<1>8. Fields'
  <2>1. disk' \in [Names -> SUBSET Records]
    BY <1>1, <1>4 DEF Fields
  <2> QED
    BY <1>1, <1>3, <2>1 DEF IInv, Fields
<1>9. PartsFit'
  BY <1>1 DEF IInv, PartsFit
<1>10. Clock'
  BY <1>1 DEF IInv, Clock
<1>11. Filed' /\ Numbered'
  BY <1>1, <1>3, <1>5 DEF IInv, Filed, Numbered
<1>12. OpenFile'
  <2>1. stamp # NoHour /\ stamp \notin cut => up.name # <<stamp, 0>>
    BY <1>4, <1>6 DEF Fields, Over
  <2>2. stamp # NoHour /\ stamp \notin cut => linked'
    BY <1>1, <2>1 DEF IInv, OpenFile
  <2>3. disk'[<<hour, 0>>] # {} => disk[<<hour, 0>>] # {}
    BY <1>4, <1>5 DEF Fields
  <2> QED
    BY <1>1, <2>2, <2>3 DEF IInv, OpenFile
<1>13. Pass'
  BY <1>1, <1>3, <1>4, <1>5 DEF IInv, Fields, Uploaders, Pass
<1>14. Archived'
  BY <1>1, <1>5 DEF IInv, Archived, Over
<1>15. Located'
  BY <1>1, <1>4, <1>5, <1>6 DEF IInv, Filed, Located, At
<1> QED
  BY <1>7, <1>8, <1>9, <1>10, <1>11, <1>12, <1>13, <1>14, <1>15 DEF IInv

(* A crash loses the buffer, whose hour is cut from then on. *)
LEMMA CrashInv == ASSUME IInv, Crash PROVE IInv'
<1> USE NamePairs
<1>1. /\ stamp' = NoHour /\ linked' = FALSE /\ buf' = {} /\ armed' = FALSE
      /\ life' = "down" /\ up' = Idle /\ lost' = lost \cup buf
      /\ cut' = cut \cup {hour} \cup ({stamp} \ {NoHour})
      /\ UNCHANGED <<hour, enabled, hourOf, disk, parts, objects, events, errors>>
  BY DEF Crash
<1>2. up' \in Uploaders /\ up'.pc = "idle" /\ up'.todo = {}
  BY <1>1, IdleType
<1>3. Fields
  BY DEF IInv
<1>4. Flags'
  BY <1>1 DEF IInv, Flags
<1>5. Fields'
  <2>1. cut' \in SUBSET Hours /\ lost' \in SUBSET Records
    BY <1>1, <1>3 DEF Fields
  <2>2. faults' \in 0..MaxFaults
    BY <1>3, BoundsAssumption DEF Fields, Crash, Fault
  <2>3. stamp' \in Hours \cup {NoHour} /\ buf' \in SUBSET Records
    BY <1>1
  <2> QED
    BY <1>1, <1>2, <1>3, <2>1, <2>2, <2>3 DEF Fields
<1>6. PartsFit'
  <2>1. armed' = FALSE /\ ~armed'
    BY <1>1
  <2> QED
    BY <1>1, <1>3, <2>1 DEF IInv, Flags, Fields, PartsFit
<1>7. Clock'
  BY <1>1, <1>3 DEF IInv, Fields, Clock
<1>8. Filed' /\ Numbered'
  BY <1>1, <1>2 DEF IInv, Filed, Numbered
<1>9. OpenFile' /\ Pass'
  BY <1>1, <1>2 DEF OpenFile, Pass
<1>10. Archived'
  BY <1>1, <1>3 DEF IInv, Fields, Archived, Over
<1>11. Located'
  BY <1>1, <1>3 DEF IInv, Filed, Located, At
<1> QED
  BY <1>4, <1>5, <1>6, <1>7, <1>8, <1>9, <1>10, <1>11 DEF IInv

(* A record that was not logged is in no file, object or buffer. *)
LEMMA UnloggedNowhere ==
    ASSUME IInv, NEW r \in Records, hourOf[r] = NoHour
    PROVE  /\ r \notin buf
           /\ \A n \in Names : r \notin disk[n] /\ r \notin objects[n]
           /\ up.pc = "put" => r \notin up.data
<1>1. up.name \in Names
  BY DEF IInv, Fields, Uploaders
<1> QED
  BY <1>1, NamePairs DEF IInv, Filed

(* The record goes to the buffer of the current hour's file, and what was in
   the buffer to the file it was for. *)
LEMMA WriteKeeps ==
    ASSUME IInv, NEW r \in Records, hourOf[r] = NoHour,
           hourOf' = [hourOf EXCEPT ![r] = hour],
           \/ disk' = Flushed /\ buf' = {r}
           \/ (stamp = NoHour \/ stamp = hour) /\ disk' = disk /\ buf' = buf \cup {r},
           stamp' = hour,
           stamp = hour => linked' = linked,
           stamp # hour => linked',
           UNCHANGED <<hour, parts, objects, up, cut>>
    PROVE  Contents'
<1> USE NamePairs
<1>0. Fields /\ hour \in Hours /\ <<hour, 0>> \in Names /\ up.name \in Names
      /\ up.todo \in SUBSET Names
  BY DEF IInv, Fields, Uploaders
<1>1. /\ hourOf'[r] = hour
      /\ \A x \in Records : x # r => hourOf'[x] = hourOf[x]
  BY <1>0 DEF Fields
<1>2. \A n \in Names : /\ disk[n] \subseteq disk'[n]
                       /\ n # <<stamp, 0>> => disk'[n] = disk[n]
                       /\ disk'[n] \subseteq disk[n] \cup buf
  BY <1>0, FlushedFacts
<1>3. \A x \in buf : \/ /\ x \in buf' /\ stamp = hour /\ disk' = disk
                      \/ /\ x \notin buf' /\ <<stamp, 0>> \in Names
                         /\ stamp \notin cut => x \in disk'[<<stamp, 0>>]
  <2> SUFFICES ASSUME NEW x \in buf
               PROVE  \/ /\ x \in buf' /\ stamp = hour /\ disk' = disk
                      \/ /\ x \notin buf' /\ <<stamp, 0>> \in Names
                         /\ stamp \notin cut => x \in disk'[<<stamp, 0>>]
    OBVIOUS
  <2>1. stamp # NoHour /\ stamp \in Hours /\ <<stamp, 0>> \in Names /\ x # r
    BY UnloggedNowhere DEF IInv, Fields, Filed
  <2>2. stamp \notin cut => Flushed[<<stamp, 0>>] = disk[<<stamp, 0>>] \cup buf
    BY <1>0, <2>1, FlushedFacts DEF IInv, OpenFile
  <2> QED
    BY <2>1, <2>2
<1>4. r \in buf' /\ buf' \subseteq buf \cup {r}
  OBVIOUS
<1>5. \A n \in Names : r \notin disk'[n] /\ r \notin objects[n]
  BY <1>2, UnloggedNowhere
<1>6. \A x \in buf : x \in Records /\ hourOf[x] = stamp /\ stamp \in Hours
  BY DEF IInv, Fields, Filed
<1>7. \A n \in Names : disk'[n] \in SUBSET Records /\ objects[n] \in SUBSET Records
  BY <1>0, <1>2 DEF Fields
<1>8. Clock'
  BY <1>0, <1>1 DEF IInv, Clock, Fields
<1>9. Filed'
  <2>1. \A x \in buf' : stamp' # NoHour /\ hourOf'[x] = stamp'
    BY <1>0, <1>1, <1>3, <1>4, <1>6
  <2>2. \A n \in Names : \A x \in disk'[n] \cup objects[n] : hourOf'[x] = n[1]
    BY <1>1, <1>2, <1>5, <1>6, <1>7 DEF IInv, Filed
  <2>3. up.pc = "put" => \A x \in up.data : hourOf'[x] = up.name[1]
    BY <1>0, <1>1, UnloggedNowhere DEF IInv, Filed, Fields, Uploaders
  <2> QED
    BY <2>1, <2>2, <2>3 DEF Filed
<1>10. Numbered'
  BY <1>0, <1>2 DEF IInv, Numbered, Fields
<1>11. OpenFile'
  BY <1>0, <1>8 DEF IInv, OpenFile
<1>12. Pass'
  <2>1. \A n \in up.todo : n[1] \notin cut =>
          disk'[n] # {} /\ (n[2] = 0 => n[1] < hour \/ n[1] = hour)
    <3>1. \A n \in up.todo : n[1] \notin cut =>
            disk[n] # {} /\ (n[2] = 0 => n[1] < hour \/ n[1] = stamp)
      BY DEF IInv, Pass
    <3>2. \A n \in Names : n[1] = stamp => n[1] < hour \/ n[1] = hour
      BY <1>0 DEF IInv, Clock
    <3> QED
      BY <1>0, <1>2, <3>1, <3>2
  <2>2. \A n \in Names : Over(n) => disk'[n] = disk[n] /\ Over(n)'
    BY <1>0, <1>2 DEF Over, Fields
  <2> QED
    BY <1>0, <2>1, <2>2 DEF IInv, Pass
<1>13. Archived'
  <2>1. \A n \in Names : Over(n) => disk'[n] = disk[n] /\ Over(n)'
    BY <1>0, <1>2 DEF Over, Fields
  <2> QED
    BY <2>1 DEF IInv, Archived
<1>14. Located'
  <2> SUFFICES ASSUME NEW x \in Records, hourOf'[x] # NoHour, hourOf'[x] \notin cut
               PROVE  /\ x \in buf' <=> At(x)' = {}
                      /\ \A m, n \in At(x)' : m = n
    BY DEF Located
  <2>1. CASE x = r
    BY <1>4, <1>5, <2>1 DEF At
  <2>2. CASE x # r /\ x \in buf
    <3>1. At(x) = {} /\ hourOf[x] = stamp /\ stamp \notin cut
      BY <1>1, <1>6, <2>2 DEF IInv, Located
    <3> QED
      BY <1>2, <1>3, <2>2, <3>1 DEF At
  <2>3. CASE x # r /\ x \notin buf
    <3>1. At(x)' = At(x) /\ x \notin buf'
      BY <1>2, <1>4, <2>3 DEF At
    <3> QED
      BY <1>1, <2>3, <3>1 DEF IInv, Located
  <2> QED
    BY <2>1, <2>2, <2>3
<1> QED
  BY <1>8, <1>9, <1>10, <1>11, <1>12, <1>13, <1>14 DEF Contents

LEMMA WriteRecordInv == ASSUME IInv, WriteRecord PROVE IInv'
<1>1. /\ armed /\ armed' = FALSE
      /\ UNCHANGED <<hour, enabled, objects, life, up, events, faults, errors, lost, cut, parts>>
  BY DEF WriteRecord, spool, history
<1>2. CASE UNCHANGED <<hourOf, spool>>
  <2>1. Flags'
    BY <1>1, <1>2 DEF IInv, Flags, spool
  <2>2. Fields'
    BY <1>1, <1>2 DEF IInv, Fields, spool
  <2>3. PartsFit'
    <3>1. ~armed'
      BY <1>1
    <3> QED
      BY <1>1, <1>2, <3>1 DEF IInv, Flags, Fields, PartsFit, spool
  <2>4. Contents'
    BY <1>1, <1>2, Grouped, ContentsUntouched DEF spool
  <2> QED
    BY <2>1, <2>2, <2>3, <2>4 DEF IInv, Contents
<1>3. CASE ~UNCHANGED <<hourOf, spool>>
  <2>1. PICK r \in Records \ Logged :
          /\ hourOf' = [hourOf EXCEPT ![r] = hour]
          /\ \/ disk' = Flushed /\ buf' = {r}
             \/ ~(stamp # NoHour /\ stamp # hour) /\ disk' = disk /\ buf' = buf \cup {r}
          /\ stamp' = hour
          /\ linked' = IF (stamp # NoHour /\ stamp # hour) \/ stamp = NoHour
                       THEN TRUE ELSE linked
    BY <1>3 DEF WriteRecord, Rotates
  <2>2. r \in Records /\ hourOf[r] = NoHour
    BY DEF Logged
  <2>3. Fields /\ hour \in Hours /\ hour # NoHour
    BY NamePairs DEF IInv, Fields
  <2>4. (stamp = hour => linked' = linked) /\ (stamp # hour => linked')
    BY <2>1, <2>3
  <2>5. Flags'
    BY <1>1, <2>1 DEF IInv, Flags
  <2>6. Fields'
    <3>1. hourOf' \in [Records -> Hours \cup {NoHour}] /\ stamp' \in Hours \cup {NoHour}
      BY <2>1, <2>3 DEF Fields
    <3>2. disk' \in [Names -> SUBSET Records] /\ buf' \in SUBSET Records
      BY <2>1, <2>2, <2>3, FlushedFacts DEF Fields
    <3> QED
      BY <1>1, <2>3, <3>1, <3>2 DEF Fields
  <2>7. PartsFit'
    <3>1. ~armed' /\ stamp' # NoHour
      BY <1>1, <2>1, <2>3
    <3> QED
      BY <1>1, <2>3, <3>1 DEF IInv, Fields, PartsFit
  <2>8. Contents'
    BY <1>1, <2>1, <2>2, <2>3, <2>4, WriteKeeps
  <2> QED
    BY <2>5, <2>6, <2>7, <2>8 DEF IInv, Contents
<1> QED
  BY <1>2, <1>3

(* The uploader or Close goes on after a rename that failed. *)
LEMMA UnrenamedInv ==
    ASSUME IInv, stamp # NoHour, CloseFinished, Error, cut' = cut \cup {stamp},
           up' \in Uploaders, up'.pc = "pending", up'.todo = {},
           life' \in {"up", "closing", "down"},
           events' \in 0..MaxEvents, events' = events \/ events' = events + 1,
           UNCHANGED <<hour, enabled, armed, hourOf, objects, faults, lost>>
    PROVE  IInv'
<1>0. Fields /\ Flags /\ stamp \in Hours
  BY DEF IInv, Fields
<1>1. /\ stamp' = NoHour /\ linked' = FALSE /\ buf' = {} /\ parts' = parts
      /\ disk' = Flushed
  BY DEF CloseFinished, CloseSpool
<1>2. Flags'
  BY <1>0, <1>1 DEF Flags
<1>3. Fields'
  <2>1. disk' \in [Names -> SUBSET Records] /\ cut' \in SUBSET Hours
    BY <1>0, <1>1, FlushedFacts DEF Fields
  <2>2. errors' \in 0..MaxErrors
    BY <1>0, BoundsAssumption DEF Error, Fields
  <2>3. stamp' \in Hours \cup {NoHour} /\ buf' \in SUBSET Records /\ parts' \in Nat
    BY <1>0, <1>1 DEF Fields
  <2> QED
    BY <1>0, <1>1, <2>1, <2>2, <2>3 DEF Fields
<1>4. PartsFit'
  <2>1. parts \in Nat /\ events \in Nat
    BY <1>0, BoundsAssumption DEF Fields
  <2> QED
    BY <1>1, <2>1 DEF IInv, PartsFit
<1>5. Contents'
  BY UnrenamedKeeps
<1> QED
  BY <1>2, <1>3, <1>4, <1>5 DEF IInv, Contents

(* A record is dropped because its file can't be opened, after the file of an
   hour that is over was closed. *)
LEMMA OpenFailsInv == ASSUME IInv, OpenFails PROVE IInv'
<1>0. Fields /\ Flags
  BY DEF IInv
<1>1. /\ armed /\ armed' = FALSE
      /\ UNCHANGED <<hour, enabled, hourOf, objects, life, up, events, faults, lost, cut>>
  BY DEF OpenFails, history
<1>2. errors' \in 0..MaxErrors /\ parts \in Nat /\ events \in Nat
  BY <1>0, BoundsAssumption DEF OpenFails, Error, Fields
<1>a. ~armed'
  BY <1>1
<1>3. CASE stamp = NoHour /\ UNCHANGED spool
  <2>1. Flags'
    BY <1>1, <1>3 DEF IInv, Flags, spool
  <2>2. Fields'
    BY <1>0, <1>1, <1>2, <1>3 DEF Fields, spool
  <2>3. PartsFit'
    BY <1>1, <1>2, <1>3, <1>a DEF IInv, PartsFit, spool
  <2>4. Contents'
    BY <1>1, <1>3, Grouped, ContentsUntouched DEF spool
  <2> QED
    BY <2>1, <2>2, <2>3, <2>4 DEF IInv, Contents
<1>4. CASE Rotates /\ CloseFinished
  <2>1. /\ stamp' = NoHour /\ linked' = FALSE /\ buf' = {} /\ parts' = parts
        /\ disk' = Flushed /\ stamp # NoHour /\ stamp # hour
    BY <1>4 DEF Rotates, CloseFinished, CloseSpool
  <2>2. Flags'
    BY <1>1, <2>1 DEF IInv, Flags
  <2>3. Fields'
    <3>1. disk' \in [Names -> SUBSET Records]
      BY <1>0, <2>1, FlushedFacts
    <3> QED
      BY <1>0, <1>1, <1>2, <2>1, <3>1 DEF Fields
  <2>4. PartsFit'
    BY <1>1, <1>2, <1>a, <2>1 DEF IInv, PartsFit
  <2>5. Contents'
    BY <1>1, <2>1, FlushKeeps
  <2> QED
    BY <2>2, <2>3, <2>4, <2>5 DEF IInv, Contents
<1> QED
  BY <1>3, <1>4 DEF OpenFails

(* A pass begins after the spool was closed, flushed or left alone. *)
LEMMA TickInv == ASSUME IInv, Tick PROVE IInv'
<1>1. /\ up' = [Idle EXCEPT !.pc = "pending"]
      /\ UNCHANGED <<hour, enabled, armed, hourOf, objects, life, events, faults, lost>>
  BY DEF Tick
<1>2. up' \in Uploaders /\ up'.pc = "pending" /\ up'.todo = {}
  BY <1>1, IdleType DEF UploaderPCs
<1>3. Fields
  BY DEF IInv
<1>4. CASE stamp = NoHour /\ UNCHANGED <<spool, errors, cut>>
  <2>1. Flags'
    BY <1>1, <1>4 DEF IInv, Flags, spool
  <2>2. Fields'
    BY <1>1, <1>2, <1>3, <1>4 DEF Fields, spool
  <2>3. PartsFit'
    BY <1>1, <1>4 DEF IInv, PartsFit, spool
  <2>4. Clock' /\ Filed' /\ Numbered'
    BY <1>1, <1>2, <1>4 DEF IInv, Clock, Filed, Numbered, spool
  <2>5. OpenFile' /\ Pass'
    BY <1>1, <1>2, <1>4 DEF IInv, OpenFile, Pass, spool
  <2>6. Archived' /\ Located'
    BY <1>1, <1>4 DEF IInv, Archived, Over, Located, At, spool
  <2> QED
    BY <2>1, <2>2, <2>3, <2>4, <2>5, <2>6 DEF IInv
<1>5. CASE stamp # NoHour /\ ~enabled /\ ClosePartial /\ UNCHANGED <<errors, cut>>
  <2>1. parts + 1 <= 2 * events /\ parts + 1 <= 2 * MaxEvents
    BY <1>3, <1>5, BoundsAssumption DEF IInv, PartsFit, Fields
  <2>2. /\ stamp' = NoHour /\ linked' = FALSE /\ buf' = {} /\ parts' = parts + 1
        /\ disk' \in [Names -> SUBSET Records]
    BY <1>3, <1>5, <2>1, ClosePartialFacts DEF IInv
  <2>3. Flags'
    BY <1>1, <2>2 DEF IInv, Flags
  <2>4. Fields'
    BY <1>1, <1>2, <1>3, <1>5, <2>2 DEF Fields
  <2>5. PartsFit'
    BY <1>1, <1>3, <1>5, <2>2 DEF IInv, Fields, PartsFit
  <2>6. Contents'
    BY <1>1, <1>2, <1>5, <2>1, PartialKeeps
  <2> QED
    BY <2>3, <2>4, <2>5, <2>6 DEF IInv, Contents
<1>6. CASE stamp # NoHour /\ enabled /\ stamp # hour /\ CloseFinished
           /\ UNCHANGED <<errors, cut>>
  <2>1. /\ stamp' = NoHour /\ linked' = FALSE /\ buf' = {} /\ parts' = parts
        /\ disk' = Flushed
    BY <1>6 DEF CloseFinished, CloseSpool
  <2>2. Flags'
    BY <1>1, <2>1 DEF IInv, Flags
  <2>3. Fields'
    <3>1. disk' \in [Names -> SUBSET Records]
      BY <1>3, <2>1, FlushedFacts
    <3> QED
      BY <1>1, <1>2, <1>3, <1>6, <2>1, <3>1 DEF Fields
  <2>4. PartsFit'
    BY <1>1, <1>6, <2>1 DEF IInv, PartsFit
  <2>5. Contents'
    BY <1>1, <1>2, <1>6, <2>1, FlushKeeps
  <2> QED
    BY <2>2, <2>3, <2>4, <2>5 DEF IInv, Contents
<1>7. CASE stamp # NoHour /\ enabled /\ stamp = hour /\ FlushSpool
           /\ UNCHANGED <<errors, cut>>
  <2>1. /\ stamp' = stamp /\ linked' = linked /\ buf' = {} /\ parts' = parts
        /\ disk' = Flushed
    BY <1>7 DEF FlushSpool
  <2>2. Flags'
    BY <1>1, <2>1 DEF IInv, Flags
  <2>3. Fields'
    <3>1. disk' \in [Names -> SUBSET Records]
      BY <1>3, <2>1, FlushedFacts
    <3> QED
      BY <1>1, <1>2, <1>3, <1>7, <2>1, <3>1 DEF Fields
  <2>4. PartsFit'
    BY <1>1, <1>7, <2>1 DEF IInv, PartsFit
  <2>5. Contents'
    BY <1>1, <1>2, <1>7, <2>1, FlushKeeps
  <2> QED
    BY <2>2, <2>3, <2>4, <2>5 DEF IInv, Contents
<1>8. CASE stamp # NoHour /\ ~enabled /\ CloseFinished /\ Error
           /\ cut' = cut \cup {stamp}
  BY <1>1, <1>2, <1>3, <1>8, UnrenamedInv DEF Fields
<1> QED
  BY <1>4, <1>5, <1>6, <1>7, <1>8 DEF Tick, CloseHour

LEMMA CloseInv == ASSUME IInv, Close PROVE IInv'
<1>1. /\ up' = [Idle EXCEPT !.pc = "pending"] /\ life' = "closing"
      /\ events < MaxEvents /\ events' = events + 1
      /\ UNCHANGED <<hour, enabled, armed, hourOf, objects, faults, lost>>
  BY DEF Close, Event
<1>2. up' \in Uploaders /\ up'.pc = "pending" /\ up'.todo = {}
  BY <1>1, IdleType DEF UploaderPCs
<1>3. Fields /\ Flags
  BY DEF IInv
<1>4. events' \in 0..MaxEvents /\ events \in Nat /\ parts \in Nat
  BY <1>1, <1>3, BoundsAssumption DEF Fields
<1>5. CASE stamp = NoHour /\ UNCHANGED <<spool, errors, cut>>
  <2>1. Flags'
    BY <1>1, <1>5 DEF IInv, Flags, spool
  <2>2. Fields'
    BY <1>1, <1>2, <1>3, <1>4, <1>5 DEF Fields, spool
  <2>3. PartsFit'
    BY <1>1, <1>4, <1>5 DEF IInv, PartsFit, spool
  <2>4. Clock' /\ Filed' /\ Numbered'
    BY <1>1, <1>2, <1>5 DEF IInv, Clock, Filed, Numbered, spool
  <2>5. OpenFile' /\ Pass'
    BY <1>1, <1>2, <1>5 DEF IInv, OpenFile, Pass, spool
  <2>6. Archived' /\ Located'
    BY <1>1, <1>5 DEF IInv, Archived, Over, Located, At, spool
  <2> QED
    BY <2>1, <2>2, <2>3, <2>4, <2>5, <2>6 DEF IInv
<1>6. CASE stamp # NoHour /\ ClosePartial /\ UNCHANGED <<errors, cut>>
  <2>1. parts <= 2 * events
    BY <1>4 DEF IInv, PartsFit
  <2>2. parts + 1 <= 2 * MaxEvents
    BY <1>1, <1>4, <2>1, BoundsAssumption
  <2>3. /\ stamp' = NoHour /\ linked' = FALSE /\ buf' = {} /\ parts' = parts + 1
        /\ disk' \in [Names -> SUBSET Records]
    BY <1>3, <1>6, <2>2, ClosePartialFacts DEF IInv
  <2>4. Flags'
    BY <1>1, <2>3 DEF IInv, Flags
  <2>5. Fields'
    BY <1>1, <1>2, <1>3, <1>4, <1>6, <2>3 DEF Fields
  <2>6. PartsFit'
    BY <1>1, <1>4, <1>6, <2>1, <2>3 DEF IInv, PartsFit
  <2>7. Contents'
    BY <1>1, <1>2, <1>6, <2>2, PartialKeeps
  <2> QED
    BY <2>4, <2>5, <2>6, <2>7 DEF IInv, Contents
<1>7. CASE stamp # NoHour /\ CloseFinished /\ Error /\ cut' = cut \cup {stamp}
  BY <1>1, <1>2, <1>3, <1>4, <1>7, UnrenamedInv DEF Fields
<1> QED
  BY <1>5, <1>6, <1>7 DEF Close, CloseHour

LEMMA NextInv == IInv /\ [Next]_vars => IInv'
<1> SUFFICES ASSUME IInv, [Next]_vars PROVE IInv'
  OBVIOUS
<1>1. CASE UNCHANGED vars
  BY <1>1 DEF vars, IInv, Flags, Fields, PartsFit, Clock, Filed, Numbered, OpenFile, Pass,
              Archived, Over, Located, At
<1>2. CASE Next
  BY <1>2, HandlerEnabledInv, WriteRecordInv, OpenFailsInv, TickInv, ListPendingInv, NextFileInv,
     PassEndsInv, CompressInv, PutInv, PutFailsInv, RemoveInv, CloseInv, CrashInv, StartInv,
     SetEnabledInv, HourPassesInv
     DEF Next, Uploader
<1> QED
  BY <1>1, <1>2

LEMMA Invariance == Spec => []IInv
  BY InitInv, NextInv, PTL DEF Spec

(* Spec => []TypeOK: the state keeps its types, and an archive without an open
   file has no buffer. *)
THEOREM TypeCorrect == Spec => []TypeOK
<1>1. IInv => TypeOK
  <2> SUFFICES ASSUME IInv PROVE TypeOK
    OBVIOUS
  <2>1. stamp = NoHour => ~linked /\ buf = {}
    BY DEF IInv, OpenFile, Filed
  <2> QED
    BY <2>1 DEF IInv, Flags, Fields, Uploaders, TypeOK
<1> QED
  BY <1>1, Invariance, PTL

(* Spec => []RecordsKept: rotation, partial hours, failed uploads and opens and
   graceful restarts lose no record of an hour without a crash or failed rename (spoolWriter.Write,
   tick, Close, upload). *)
THEOREM NoRecordLost == Spec => []RecordsKept
<1>1. IInv => RecordsKept
  <2> SUFFICES ASSUME IInv, NEW r \in Logged, hourOf[r] \notin cut, r \notin buf
               PROVE  r \in OnDisk \cup Stored
    BY DEF RecordsKept
  <2>1. r \in Records /\ hourOf[r] # NoHour
    BY DEF Logged
  <2>2. PICK n \in Names : r \in disk[n] \cup objects[n]
    BY <2>1 DEF IInv, Located, At
  <2> QED
    BY <2>2 DEF OnDisk, Stored
<1> QED
  BY <1>1, Invariance, PTL

(* Spec => []ArchivedOnce: no record of such an hour is in two objects,
   however often an upload is retried or an hour is cut into parts. *)
THEOREM StoredOnce == Spec => []ArchivedOnce
<1>1. IInv => ArchivedOnce
  BY DEF IInv, Located, At, ArchivedOnce, Logged
<1> QED
  BY <1>1, Invariance, PTL
=============================================================================
