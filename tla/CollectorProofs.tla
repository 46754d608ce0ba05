-------------------------- MODULE CollectorProofs --------------------------
(***************************************************************************)
(* Proofs about Collector for any number of requests, minutes, pending     *)
(* windows and faults: a stored minute never loses a request, Lost         *)
(* accounts for what is not stored and not held any more, and a stop whose *)
(* last write succeeded leaves behind only what came after it began.       *)
(***************************************************************************)
EXTENDS Collector, FiniteSetTheorems, SequenceTheorems, TLAPS

USE DEF stepped

Windows == 1..Len(win)
HeldWindows == (pending \cup {current}) \ {NoWindow}

(* What was read of a window and is not stored, or may be stored again. *)
Sent == fl.snap \cup delayed

(* The types, variable by variable. *)
WindowType == [start : Minutes, closedAt : Int, reqs : SUBSET Requests]
RequestType == [pc : Steps, t : 0..MaxNow, age : 0..MaxDelay, w : Nat]
RunType == [pc : RunSteps, now : 0..MaxNow, todo : SUBSET Nat, windows : SUBSET Nat,
            snap : SUBSET Snapshots, final : BOOLEAN, failed : BOOLEAN]

WindowTypes ==
    /\ win \in Seq(WindowType)
    /\ current \in {NoWindow, Len(win)} /\ current \notin pending
    /\ pending \subseteq Windows /\ Cardinality(pending) <= MaxPending
    /\ latest \in Minutes \cup {NoMinute}
    /\ lost \in Nat
RequestTypes ==
    /\ req \in [Requests -> RequestType]
    /\ \A r \in Requests : req[r].w <= Len(win)
    /\ \A r \in Requests : req[r].pc = "record" => req[r].w \in Windows
RunTypes == fl \in RunType /\ fl.windows \subseteq Windows
StoreTypes ==
    /\ rows \in [Minutes -> SUBSET Requests]
    /\ delayed \subseteq Snapshots
    /\ now \in 0..MaxNow
    /\ after \subseteq Requests
    /\ faults \in 0..MaxFaults
    /\ off \in 0..now

(* A minute has one window, and later windows are of later minutes. *)
Starts ==
    /\ \A i, j \in Windows : i < j => win[i].start < win[j].start
    /\ \A i \in Windows : win[i].start <= latest
    /\ Len(win) > 0 => latest = win[Len(win)].start

(* A request is counted in one window. *)
Counts ==
    /\ \A i \in Windows : \A r \in win[i].reqs : req[r].pc = "counted"
    /\ \A i, j \in Windows : i # j => win[i].reqs \cap win[j].reqs = {}

(* Whatever was stored or sent of a minute was read from the same window, one
   after the other: of any two the smaller is part of the larger. *)
Comparable(S, T) == S \subseteq T \/ T \subseteq S
Chains ==
    /\ \A s \in Sent : s.start <= latest
    /\ \A m \in Minutes : m > latest => rows[m] = {}
    /\ \A i \in Windows : rows[win[i].start] \subseteq win[i].reqs
    /\ \A i \in Windows : \A s \in Sent :
         s.start = win[i].start => s.reqs \subseteq win[i].reqs
    /\ \A s \in Sent : Comparable(s.reqs, rows[s.start])
    /\ \A s, t \in Sent : s.start = t.start => Comparable(s.reqs, t.reqs)

(* Lost counts no request twice. *)
Gone == Refused \cup {r \in Requests : \E w \in Windows \ HeldWindows : r \in win[w].reqs}
LostBound == lost <= Cardinality(Gone)

(* A flush reads each window once. *)
FlushShape ==
    /\ fl.pc \in {"wait", "final", "stopped"} => fl.windows = {} /\ fl.snap = {}
    /\ fl.pc # "read" => fl.todo = {}
    /\ fl.todo \subseteq fl.windows
    /\ \A s, t \in fl.snap : s.start = t.start => s = t
    /\ \A s \in fl.snap : \A w \in fl.todo : s.start # win[w].start
    /\ fl.pc = "stopped" => fl.final

(* Until the stop a window is closed after its minute, and a request is counted
   in its minute's window or in a later one. *)
Order ==
    /\ ~Stopping => after = {}
    /\ ~Stopping => \A w \in pending :
         win[w].closedAt \in Nat /\ win[w].start < Minute(win[w].closedAt)
    /\ \A r \in Requests : req[r].pc = "record" => Minute(req[r].t) <= win[req[r].w].start

(* How old a request in Record is, and a flush.  The wall clock is never ahead. *)
Clock ==
    /\ \A r \in Requests : req[r].pc = "serving" => req[r].age = 0
    /\ \A r \in Requests : InRecord(r) => req[r].t + req[r].age <= now
    /\ ~stepped => \A r \in Requests : InRecord(r) => req[r].t + req[r].age = now
    /\ fl.now <= now

(* The window of a request in Record is neither dropped nor forgotten. *)
RecordHeld ==
    ~stepped /\ ~Stopping
        => \A r \in Requests : req[r].pc = "record" => req[r].w \in HeldWindows

(* What a flush may forget it has read in full, and then written. *)
Settled(w) == fl.final \/ (w \in pending /\ win[w].closedAt <= fl.now - Grace)
Kept(w) ==
    \A r \in win[w].reqs \ after :
        IF fl.pc = "forget" THEN r \in rows[win[w].start]
        ELSE \E s \in fl.snap : s.start = win[w].start /\ r \in s.reqs
FlushKnows == ~stepped => \A w \in fl.windows \ fl.todo : Settled(w) => Kept(w)

(* The last flush: a window it does not know is younger than the stop. *)
LateOnly ==
    ~stepped /\ fl.final /\ fl.pc \in {"read", "write", "forget"}
        => \A w \in HeldWindows \ fl.windows : win[w].reqs \subseteq after
StopKept ==
    ~stepped /\ fl.pc = "stopped" /\ ~fl.failed
        => \A w \in HeldWindows : win[w].reqs \ after \subseteq rows[win[w].start]

(* What is not stored and never will be, up to the stop. *)
Owed == (Refused \cup {r \in Unstored : ~IsHeld(r)}) \ after
LostCovers == ~stepped => Cardinality(Owed) <= lost

(* The inductive invariant. *)
Types == WindowTypes /\ RequestTypes /\ RunTypes /\ StoreTypes
IInv == /\ Types
        /\ Starts /\ Counts /\ Chains /\ LostBound
        /\ FlushShape /\ Order /\ Clock /\ RecordHeld
        /\ FlushKnows /\ LateOnly /\ StopKept /\ LostCovers

-----------------------------------------------------------------------------
(* Minutes *)

LEMMA MinuteNat == \A t \in Nat : Minute(t) \in Nat
  BY BoundsAssumption DEF Minute

LEMMA MinuteMonotone ==
    ASSUME NEW a \in Nat, NEW b \in Nat, a <= b
    PROVE  Minute(a) <= Minute(b)
  BY BoundsAssumption DEF Minute

(* A time in an earlier minute is an earlier time. *)
LEMMA MinuteBefore ==
    ASSUME NEW a \in Nat, NEW b \in Nat, Minute(a) < Minute(b)
    PROVE  a < b
<1>1. ~(b <= a)
  <2> SUFFICES ASSUME b <= a PROVE FALSE
    OBVIOUS
  <2>1. Minute(b) <= Minute(a)
    BY MinuteMonotone
  <2> QED
    BY <2>1, MinuteNat
<1> QED
  BY <1>1

(* More than a minute passes when one is skipped. *)
LEMMA MinuteSkipped ==
    ASSUME NEW a \in Nat, NEW b \in Nat, Minute(a) + 2 <= Minute(b)
    PROVE  a + MinuteLength < b
<1> DEFINE p == Minute(a)
           q == Minute(b)
<1>1. p \in Nat /\ q \in Nat /\ MinuteLength \in Nat
  BY MinuteNat, BoundsAssumption
<1>2. a < MinuteLength * p + MinuteLength /\ MinuteLength * q <= b
  BY BoundsAssumption DEF Minute
<1>3. MinuteLength * (p + 2) = MinuteLength * p + MinuteLength + MinuteLength
  BY <1>1
<1> HIDE DEF p, q
<1>4. MinuteLength * (p + 2) <= MinuteLength * q
  <2>1. p + 2 \in Nat /\ p + 2 <= q
    BY <1>1 DEF p, q
  <2> QED
    BY <1>1, <2>1
<1>5. MinuteLength * p \in Nat /\ MinuteLength * q \in Nat
  BY <1>1
<1> QED
  BY <1>1, <1>2, <1>3, <1>4, <1>5

LEMMA MinutesFacts ==
    /\ Minutes \subseteq Nat /\ NoMinute \notin Minutes /\ NoMinute \in Int
    /\ \A t \in 0..MaxNow : t \in Nat /\ Minute(t) \in Minutes
    /\ \A m \in Minutes : NoMinute < m
<1>1. MaxNow \in Nat /\ Minute(MaxNow) \in Nat
  BY MinuteNat, BoundsAssumption
<1>2. \A t \in 0..MaxNow : t \in Nat /\ Minute(t) \in Nat /\ Minute(t) <= Minute(MaxNow)
  BY <1>1, MinuteNat, MinuteMonotone
<1> QED
  BY <1>1, <1>2 DEF Minutes, NoMinute

(* Sets of requests *)

LEMMA RequestsFinite ==
    /\ IsFiniteSet(Requests) /\ Cardinality(Requests) = MaxRequests
    /\ \A S \in SUBSET Requests : IsFiniteSet(S) /\ Cardinality(S) \in Nat
<1>1. IsFiniteSet(Requests) /\ Cardinality(Requests) = MaxRequests
  <2>1. MaxRequests \in Int /\ 1 \in Int /\ MaxRequests >= 0
    BY BoundsAssumption
  <2> QED
    BY <2>1, FS_Interval DEF Requests
<1> QED
  BY <1>1, FS_Subset, FS_CardinalityType

LEMMA SmallerSet ==
    ASSUME NEW S \in SUBSET Requests, NEW T \in SUBSET S
    PROVE  /\ Cardinality(T) <= Cardinality(S)
           /\ Cardinality(T) = Cardinality(S) => T = S
  BY RequestsFinite, FS_Subset

(* Two sets that share nothing, side by side in a third. *)
LEMMA DisjointSum ==
    ASSUME NEW S \in SUBSET Requests, NEW T \in SUBSET Requests, S \cap T = {}
    PROVE  Cardinality(S \cup T) = Cardinality(S) + Cardinality(T)
  BY RequestsFinite, FS_Union, FS_EmptySet

LEMMA UnionSum ==
    ASSUME NEW S \in SUBSET Requests, NEW T \in SUBSET Requests
    PROVE  Cardinality(S \cup T) <= Cardinality(S) + Cardinality(T)
<1>1. /\ Cardinality(S \cup T) = Cardinality(S) + Cardinality(T) - Cardinality(S \cap T)
      /\ S \cap T \in SUBSET Requests
  BY RequestsFinite, FS_Union
<1>2. Cardinality(S) \in Nat /\ Cardinality(T) \in Nat /\ Cardinality(S \cap T) \in Nat
  BY <1>1, RequestsFinite
<1> QED
  BY <1>1, <1>2

(* Of two comparable totals the upsert keeps the larger. *)
LEMMA UpsertKeeps ==
    ASSUME NEW S \in SUBSET Requests, NEW T \in SUBSET Requests, Comparable(S, T)
    PROVE  /\ Upsert(S, T) \in {S, T}
           /\ S \subseteq Upsert(S, T)
           /\ T \subseteq Upsert(S, T)
<1>0. Cardinality(S) \in Nat /\ Cardinality(T) \in Nat
  BY RequestsFinite
<1>1. CASE S \subseteq T
  <2>1. Cardinality(S) <= Cardinality(T)
    BY <1>1, SmallerSet
  <2> QED
    BY <1>0, <1>1, <2>1 DEF Upsert
<1>2. CASE T \subseteq S
  <2>1. Cardinality(T) <= Cardinality(S) /\ (Cardinality(T) = Cardinality(S) => T = S)
    BY <1>2, SmallerSet
  <2> QED
    BY <1>0, <1>2, <2>1 DEF Upsert
<1> QED
  BY <1>1, <1>2 DEF Comparable

-----------------------------------------------------------------------------
(* Windows *)

LEMMA WindowFacts ==
    ASSUME WindowTypes
    PROVE  /\ Len(win) \in Nat
           /\ \A i \in Windows :
                /\ i \in Nat /\ i <= Len(win) /\ i # NoWindow
                /\ win[i] \in WindowType
                /\ win[i].start \in Minutes /\ win[i].start \in Nat
                /\ win[i].closedAt \in Int
                /\ win[i].reqs \in SUBSET Requests
           /\ NoWindow \notin Windows
           /\ HeldWindows \subseteq Windows /\ pending \subseteq HeldWindows
           /\ latest \in Int
<1>1. Len(win) \in Nat
  BY LenProperties DEF WindowTypes
<1>2. \A i \in Windows : win[i] \in WindowType
  BY ElementOfSeq DEF WindowTypes, Windows
<1>3. \A i \in Windows : win[i].start \in Minutes /\ win[i].closedAt \in Int
                         /\ win[i].reqs \in SUBSET Requests
  BY <1>2 DEF WindowType
<1>4. HeldWindows \subseteq Windows /\ pending \subseteq HeldWindows
  BY <1>1 DEF WindowTypes, HeldWindows, Windows, NoWindow
<1>5. \A i \in Windows : i \in Nat /\ i <= Len(win) /\ i # NoWindow
  BY <1>1 DEF Windows, NoWindow
<1>6. NoWindow \notin Windows /\ latest \in Int /\ Minutes \subseteq Nat
  BY <1>5, MinutesFacts DEF WindowTypes
<1> QED
  BY <1>1, <1>2, <1>3, <1>4, <1>5, <1>6

LEMMA PendingFinite ==
    ASSUME WindowTypes
    PROVE  IsFiniteSet(pending) /\ Cardinality(pending) \in Nat
<1>0. 1 \in Int /\ Len(win) \in Int
  BY LenProperties DEF WindowTypes
<1>1. IsFiniteSet(Windows)
  BY <1>0, FS_Interval, Zenon DEF Windows
<1> QED
  BY <1>1, FS_Subset, FS_CardinalityType DEF WindowTypes

(* What Lost counts for a window that closing dropped. *)
Dropped(o) == IF o = NoWindow THEN 0 ELSE Cardinality(win[o].reqs)

(* Closing the current window drops an older one or none. *)
LEMMA CloseSplits ==
    ASSUME WindowTypes, current # NoWindow, NEW at, NEW ws, Close(current, at, ws)
    PROVE  /\ win' = [ws EXCEPT ![current].closedAt = at]
           /\ \E o \in pending \cup {NoWindow} :
                /\ o < current
                /\ pending' = (pending \cup {current}) \ {o}
                /\ Cardinality(pending') <= MaxPending
                /\ lost' = lost + Dropped(o)
<1> DEFINE all == pending \cup {current}
<1>1. /\ current = Len(win) /\ current \in Nat /\ current > 0
      /\ \A v \in pending : v \in Nat /\ v < current /\ v # NoWindow
  BY WindowFacts DEF WindowTypes, NoWindow, Windows
<1>2. /\ IsFiniteSet(all) /\ Cardinality(all) = Cardinality(pending) + 1
      /\ Cardinality(pending) \in Nat
  BY PendingFinite, FS_AddElement DEF WindowTypes
<1>3. Cardinality(pending) <= MaxPending /\ MaxPending \in Nat /\ MaxPending >= 1 /\ lost \in Nat
  BY BoundsAssumption DEF WindowTypes
<1>4. win' = [ws EXCEPT ![current].closedAt = at]
  BY DEF Close
<1>5. CASE Cardinality(all) > MaxPending
  <2>1. PICK o \in all : /\ IsOldest(o, all)
                         /\ pending' = all \ {o}
                         /\ lost' = lost + Cardinality(win[o].reqs)
    BY <1>5 DEF Close
  <2>2. pending # {}
    BY <1>2, <1>3, <1>5, FS_EmptySet
  <2>3. o \in pending /\ o < current /\ o # NoWindow
    BY <1>1, <2>1, <2>2 DEF IsOldest
  <2>4. Cardinality(all \ {o}) = Cardinality(pending)
    BY <1>2, <2>1, FS_RemoveElement
  <2> QED
    BY <1>3, <1>4, <2>1, <2>3, <2>4 DEF Dropped
<1>6. CASE ~(Cardinality(all) > MaxPending)
  <2>1. pending' = all /\ lost' = lost
    BY <1>6 DEF Close
  <2>2. NoWindow \notin all
    BY <1>1 DEF NoWindow
  <2>3. all = all \ {NoWindow}
    BY <2>2
  <2>4. Cardinality(all) <= MaxPending /\ lost = lost + Dropped(NoWindow)
    BY <1>2, <1>3, <1>6 DEF Dropped
  <2> QED
    BY <1>1, <1>4, <2>1, <2>3, <2>4 DEF NoWindow
<1> QED
  BY <1>5, <1>6

(* What closing the current window, starting one and doing neither have in
   common: o is the window that was dropped, if any, at the time the current
   one was closed. *)
Turns(o, at) ==
    /\ win' \in Seq(WindowType) /\ Len(win') \in {Len(win), Len(win) + 1}
    /\ \A i \in Windows : win'[i].start = win[i].start /\ win'[i].reqs = win[i].reqs
    /\ \A i \in Windows : i # current => win'[i].closedAt = win[i].closedAt
    /\ Len(win') = Len(win) => latest' = latest
    /\ Len(win') > Len(win) =>
         /\ latest' > latest /\ latest' \in Minutes
         /\ win'[Len(win')].start = latest' /\ win'[Len(win')].reqs = {}
    /\ current' \in {NoWindow, Len(win')} /\ current' \notin pending'
    /\ pending' \subseteq Windows /\ Cardinality(pending') <= MaxPending
    /\ pending' \subseteq pending \cup {current}
    /\ current \in pending' => win'[current].closedAt = at
    /\ o \in pending \cup {NoWindow} /\ (o # NoWindow => o < current)
    /\ HeldWindows' = (HeldWindows \ {o}) \cup (Windows' \ Windows)
    /\ lost' = lost + Dropped(o)

(* The request's time on the monotonic clock. *)
Taken(r) == now - req[r].age

LEMMA NewTurns ==
    ASSUME Types, Starts, NEW r \in Requests, WindowForNew(r)
    PROVE  /\ Minute(req[r].t) > latest
           /\ \E o : Turns(o, Taken(r))
<1> DEFINE m == Minute(req[r].t)
           new == [start |-> m, closedAt |-> 0, reqs |-> {}]
           ws == Append(win, new)
<1>1. WindowTypes /\ req[r].t \in 0..MaxNow /\ latest \in Int
  BY WindowFacts DEF Types, RequestTypes, RequestType
<1>2. m \in Minutes /\ m \in Nat /\ Taken(r) \in Int
  <2>1. req[r].t \in Nat /\ m \in Minutes
    BY <1>1, MinutesFacts
  <2>2. m \in Nat
    BY <2>1, MinutesFacts
  <2>3. Taken(r) \in Int
    BY BoundsAssumption, DelayAssumption DEF Types, RequestTypes, RequestType, StoreTypes, Taken
  <2> QED
    BY <2>1, <2>2, <2>3
<1>3. m > latest
  BY <1>1, <1>2, MinutesFacts DEF WindowForNew, Belated, NoMinute
<1>4. new \in WindowType
  BY <1>2 DEF WindowType
<1>5. /\ ws \in Seq(WindowType) /\ Len(ws) = Len(win) + 1 /\ Len(win) \in Nat
      /\ \A i \in Windows : ws[i] = win[i]
      /\ ws[Len(win) + 1] = new
  BY <1>1, <1>4, AppendProperties, WindowFacts DEF WindowTypes, Windows
<1>6. new.start = m /\ new.reqs = {}
  OBVIOUS
<1>7. /\ latest' = m /\ current' = Len(ws)
      /\ IF current # NoWindow THEN Close(current, Taken(r), ws)
                               ELSE win' = ws /\ UNCHANGED <<pending, lost>>
  BY DEF WindowForNew, Taken
<1> HIDE DEF m, new, ws
<1>8. CASE current = NoWindow
  <2>1. win' = ws /\ pending' = pending /\ lost' = lost
    BY <1>7, <1>8
  <2>2. Windows' = Windows \cup {Len(win) + 1} /\ Len(win) + 1 \notin Windows
    BY <1>5, <2>1 DEF Windows
  <2>3. pending \subseteq Windows /\ Cardinality(pending) <= MaxPending /\ lost \in Nat
    BY <1>1 DEF WindowTypes
  <2>4. HeldWindows' = (HeldWindows \ {NoWindow}) \cup (Windows' \ Windows)
    BY <1>5, <1>7, <1>8, <2>1, <2>2, <2>3 DEF HeldWindows, NoWindow
  <2>5. lost' = lost + Dropped(NoWindow)
    BY <2>1, <2>3 DEF Dropped
  <2>6. Turns(NoWindow, Taken(r))
    BY <1>2, <1>3, <1>5, <1>6, <1>7, <1>8, <2>1, <2>2, <2>3, <2>4, <2>5, WindowFacts, <1>1 DEF Turns
  <2> QED
    BY <1>3, <2>6 DEF m
<1>9. CASE current # NoWindow
  <2>1. /\ win' = [ws EXCEPT ![current].closedAt = Taken(r)]
        /\ \E o \in pending \cup {NoWindow} :
                /\ o < current
                /\ pending' = (pending \cup {current}) \ {o}
                /\ Cardinality(pending') <= MaxPending
                /\ lost' = lost + Dropped(o)
    BY <1>1, <1>7, <1>9, CloseSplits
  <2>2. PICK o \in pending \cup {NoWindow} :
                /\ o < current
                /\ pending' = (pending \cup {current}) \ {o}
                /\ Cardinality(pending') <= MaxPending
                /\ lost' = lost + Dropped(o)
    BY <2>1
  <2>3. /\ current = Len(win) /\ current \in Windows /\ current \in 1..Len(ws)
        /\ pending \subseteq Windows /\ current \notin pending
    BY <1>1, <1>5, <1>9 DEF WindowTypes, Windows, NoWindow
  <2>4. /\ win' \in Seq(WindowType) /\ Len(win') = Len(ws)
        /\ \A i \in 1..Len(ws) :
             /\ win'[i].start = ws[i].start /\ win'[i].reqs = ws[i].reqs
             /\ win'[i].closedAt = IF i = current THEN Taken(r) ELSE ws[i].closedAt
    <3> DEFINE e == [ws[current] EXCEPT !.closedAt = Taken(r)]
    <3>1. win' = [ws EXCEPT ![current] = e]
      BY <2>1
    <3>2. /\ ws \in Seq(WindowType) /\ current \in 1..Len(ws) /\ Taken(r) \in Int
          /\ ws[current] \in WindowType
      BY <1>2, <1>5, <2>3, ElementOfSeq
    <3>3. /\ e \in WindowType /\ e.start = ws[current].start
          /\ e.reqs = ws[current].reqs /\ e.closedAt = Taken(r)
      BY <3>2 DEF WindowType
    <3> HIDE DEF e
    <3>4. /\ win' \in Seq(WindowType) /\ Len(win') = Len(ws)
          /\ \A i \in 1..Len(ws) : win'[i] = IF i = current THEN e ELSE ws[i]
      BY <3>1, <3>2, <3>3
    <3> QED
      BY <3>3, <3>4
  <2>5. /\ Windows' = Windows \cup {Len(win) + 1} /\ Len(win) + 1 \notin Windows
        /\ Windows \subseteq 1..Len(ws) /\ Len(ws) \in 1..Len(ws)
        /\ Len(win') = Len(win) + 1 /\ Len(win') # Len(win)
    BY <1>5, <2>4 DEF Windows
  <2>6. /\ \A i \in Windows : win'[i].start = win[i].start /\ win'[i].reqs = win[i].reqs
        /\ \A i \in Windows : i # current => win'[i].closedAt = win[i].closedAt
        /\ win'[current].closedAt = Taken(r)
        /\ win'[Len(win')].start = m /\ win'[Len(win')].reqs = {}
    BY <1>5, <1>6, <2>3, <2>4, <2>5
  <2>7. HeldWindows' = (HeldWindows \ {o}) \cup (Windows' \ Windows)
    <3>1. NoWindow \notin Windows /\ current' = Len(win) + 1 /\ current' # NoWindow
      BY <1>1, <1>5, <1>7, WindowFacts DEF NoWindow
    <3>2. Windows' \ Windows = {current'} /\ current' \notin Windows
      BY <2>5, <3>1
    <3>3. o \in pending \cup {NoWindow} /\ pending' = (pending \cup {current}) \ {o}
      BY <2>2
    <3> QED
      BY <1>9, <2>3, <3>1, <3>2, <3>3 DEF HeldWindows
  <2>8. current' \in {NoWindow, Len(win')} /\ current' \notin pending'
    BY <1>5, <1>7, <2>2, <2>3, <2>4, <2>5
  <2>9. pending' \subseteq Windows /\ pending' \subseteq pending \cup {current}
    BY <2>2, <2>3
  <2>10. Turns(o, Taken(r))
    BY <1>2, <1>3, <1>7, <2>2, <2>4, <2>5, <2>6, <2>7, <2>8, <2>9 DEF Turns
  <2> QED
    BY <1>3, <2>10 DEF m
<1> QED
  BY <1>8, <1>9

(* Flush and closeCurrent start no window. *)
LEMMA CloseTurns ==
    ASSUME WindowTypes, current # NoWindow, NEW at \in Int,
           current' = NoWindow, latest' = latest, Close(current, at, win)
    PROVE  \E o : Turns(o, at)
<1>1. /\ win' = [win EXCEPT ![current].closedAt = at]
      /\ \E o \in pending \cup {NoWindow} :
                /\ o < current
                /\ pending' = (pending \cup {current}) \ {o}
                /\ Cardinality(pending') <= MaxPending
                /\ lost' = lost + Dropped(o)
  BY CloseSplits
<1>2. PICK o \in pending \cup {NoWindow} :
                /\ o < current
                /\ pending' = (pending \cup {current}) \ {o}
                /\ Cardinality(pending') <= MaxPending
                /\ lost' = lost + Dropped(o)
  BY <1>1
<1>3. /\ current \in Windows /\ current \in 1..Len(win) /\ win \in Seq(WindowType)
      /\ pending \subseteq Windows /\ Len(win) \in Nat /\ NoWindow \notin Windows
  BY WindowFacts DEF WindowTypes, Windows, NoWindow
<1>4. /\ win' \in Seq(WindowType) /\ Len(win') = Len(win)
      /\ \A i \in 1..Len(win) :
             /\ win'[i].start = win[i].start /\ win'[i].reqs = win[i].reqs
             /\ win'[i].closedAt = IF i = current THEN at ELSE win[i].closedAt
  <2> DEFINE e == [win[current] EXCEPT !.closedAt = at]
  <2>1. win' = [win EXCEPT ![current] = e]
    BY <1>1
  <2>2. /\ win \in Seq(WindowType) /\ current \in 1..Len(win)
        /\ win[current] \in WindowType
    BY <1>3, ElementOfSeq
  <2>3. /\ e \in WindowType /\ e.start = win[current].start
        /\ e.reqs = win[current].reqs /\ e.closedAt = at
    BY <2>2 DEF WindowType
  <2> HIDE DEF e
  <2>4. /\ win' \in Seq(WindowType) /\ Len(win') = Len(win)
        /\ \A i \in 1..Len(win) : win'[i] = IF i = current THEN e ELSE win[i]
    BY <2>1, <2>2, <2>3
  <2> QED
    BY <2>3, <2>4
<1>5. Windows' = Windows /\ Windows = 1..Len(win) /\ ~(Len(win') > Len(win))
  BY <1>3, <1>4 DEF Windows
<1>6. HeldWindows' = (HeldWindows \ {o}) \cup (Windows' \ Windows)
  BY <1>2, <1>3, <1>5 DEF HeldWindows
<1>7. current' \notin pending' /\ pending' \subseteq Windows
  BY <1>2, <1>3
<1>8. Turns(o, at)
  BY <1>2, <1>3, <1>4, <1>5, <1>6, <1>7 DEF Turns
<1> QED
  BY <1>8

LEMMA StillTurns ==
    ASSUME WindowTypes, UNCHANGED collector, NEW at
    PROVE  Turns(NoWindow, at)
<1>1. /\ win' = win /\ current' = current /\ pending' = pending
      /\ latest' = latest /\ lost' = lost
  BY DEF collector
<1>2. Windows' = Windows /\ HeldWindows' = HeldWindows /\ ~(Len(win) > Len(win))
  BY <1>1, WindowFacts DEF Windows, HeldWindows
<1>3. lost' = lost + Dropped(NoWindow)
  BY <1>1 DEF Dropped, WindowTypes
<1>4. NoWindow \notin HeldWindows
  BY DEF HeldWindows
<1> QED
  BY <1>1, <1>2, <1>3, <1>4 DEF Turns, WindowTypes

-----------------------------------------------------------------------------
(* Requests *)

LEMMA RequestFacts ==
    ASSUME Types
    PROVE  \A r \in Requests :
             /\ req[r] \in RequestType /\ req[r].pc \in Steps
             /\ req[r].t \in 0..MaxNow /\ req[r].t \in Nat
             /\ req[r].age \in 0..MaxDelay /\ req[r].age \in Nat /\ req[r].age <= MaxDelay
             /\ req[r].w \in Nat
             /\ Minute(req[r].t) \in Minutes /\ Minute(req[r].t) \in Nat
<1>1. \A r \in Requests : req[r] \in RequestType
  BY DEF Types, RequestTypes
<1>2. \A r \in Requests : /\ req[r].pc \in Steps /\ req[r].t \in 0..MaxNow
                          /\ req[r].age \in 0..MaxDelay /\ req[r].w \in Nat
  BY <1>1 DEF RequestType
<1>3. \A t \in 0..MaxNow : t \in Nat /\ Minute(t) \in Minutes
  BY MinutesFacts
<1>4. Minutes \subseteq Nat
  BY MinutesFacts
<1>5. \A a \in 0..MaxDelay : a \in Nat /\ a <= MaxDelay
  BY DelayAssumption
<1> QED
  BY <1>1, <1>2, <1>3, <1>4, <1>5

LEMMA DoneFacts ==
    ASSUME NEW p \in Steps
    PROVE  /\ Done(p) \in RequestType
           /\ Done(p).pc = p /\ Done(p).t = 0 /\ Done(p).age = 0 /\ Done(p).w = NoWindow
  BY BoundsAssumption, DelayAssumption DEF Done, RequestType, NoWindow

(* What windowFor finds is held, and of the minute asked for. *)
LEMMA HeldFacts ==
    ASSUME Types, Starts, NEW m, Held(m) # NoWindow
    PROVE  /\ Held(m) \in HeldWindows /\ Held(m) \in Windows
           /\ win[Held(m)].start = m
<1> DEFINE mine == {w \in pending : win[w].start = m}
<1>0. WindowTypes
  BY DEF Types
<1>1. CASE current # NoWindow /\ win[current].start = m
  <2>1. Held(m) = current
    BY <1>1 DEF Held
  <2> QED
    BY <1>0, <1>1, <2>1, WindowFacts DEF HeldWindows
<1>2. CASE ~(current # NoWindow /\ win[current].start = m)
  <2>1. mine # {} /\ Held(m) = CHOOSE w \in mine : IsOldest(w, mine)
    BY <1>2 DEF Held
  <2>2. \A v, w \in mine : v = w
    <3> SUFFICES ASSUME NEW v \in mine, NEW w \in mine, v # w PROVE FALSE
      OBVIOUS
    <3>1. /\ v \in Windows /\ w \in Windows /\ v \in Nat /\ w \in Nat
          /\ win[v].start = m /\ win[w].start = m /\ m \in Nat
      BY <1>0, WindowFacts
    <3>2. v < w \/ w < v
      BY <3>1
    <3>3. m < m
      BY <3>1, <3>2 DEF Starts
    <3> QED
      BY <3>1, <3>3
  <2>3. PICK x \in mine : TRUE
    BY <2>1
  <2>4. x \in Nat /\ x <= x
    BY <1>0, <2>3, WindowFacts
  <2>5. IsOldest(x, mine)
    BY <2>2, <2>3, <2>4 DEF IsOldest
  <2>6. Held(m) \in mine
    BY <2>1, <2>3, <2>5
  <2> QED
    BY <1>0, <2>6, WindowFacts
<1> QED
  BY <1>1, <1>2

(* A request gets its window. *)
Goes(r, w) ==
    /\ req[r].pc = "load"
    /\ req' \in [Requests -> RequestType]
    /\ \A q \in Requests : q # r => req'[q] = req[q]
    /\ req'[r].pc = "record" /\ req'[r].t = req[r].t /\ req'[r].age = req[r].age
    /\ req'[r].w = w
    /\ w \in HeldWindows' /\ w \in Windows'
    /\ Minute(req[r].t) <= win'[w].start

(* A request is counted or refused. *)
Ends(r, p) ==
    /\ req' \in [Requests -> RequestType]
    /\ \A q \in Requests : q # r => req'[q] = req[q]
    /\ req'[r].pc = p /\ req'[r].age = 0 /\ req'[r].w = NoWindow

(* The current window was closed after its minute was over. *)
Over(o, at) == o # NoWindow \/ current \in pending' => win[current].start < Minute(at)

Entering(r, w, o) ==
    /\ Goes(r, w) /\ Turns(o, Taken(r)) /\ Over(o, Taken(r))
    /\ UNCHANGED <<fl, rows, delayed, now, off, after, faults>>

LEMMA GotFacts ==
    ASSUME Types, NEW r \in Requests, NEW w \in Nat, Got(r, w)
    PROVE  /\ w = NoWindow => Ends(r, "refused")
           /\ w # NoWindow =>
                /\ req' \in [Requests -> RequestType]
                /\ \A q \in Requests : q # r => req'[q] = req[q]
                /\ req'[r].pc = "record" /\ req'[r].t = req[r].t /\ req'[r].age = req[r].age
                /\ req'[r].w = w
<1>1. req \in [Requests -> RequestType] /\ "refused" \in Steps
  BY DEF Types, RequestTypes, Steps
<1>2. CASE w = NoWindow
  <2>1. req' = [req EXCEPT ![r] = Done("refused")]
    BY <1>2 DEF Got
  <2> QED
    BY <1>1, <1>2, <2>1, DoneFacts DEF Ends
<1>3. CASE w # NoWindow
  <2>1. req' = [req EXCEPT ![r] = [req[r] EXCEPT !.pc = "record", !.w = w]]
    BY <1>1, <1>3 DEF Got
  <2> QED
    BY <1>1, <1>3, <2>1 DEF RequestType, Steps
<1> QED
  BY <1>2, <1>3

LEMMA EntersUnturned ==
    ASSUME Types, NEW r \in Requests, NEW w \in HeldWindows,
           UNCHANGED collector, UNCHANGED <<fl, rows, delayed, now, off, after, faults>>,
           req[r].pc = "load", Minute(req[r].t) <= win[w].start,
           req' \in [Requests -> RequestType],
           \A q \in Requests : q # r => req'[q] = req[q],
           req'[r].pc = "record", req'[r].t = req[r].t, req'[r].age = req[r].age,
           req'[r].w = w
    PROVE  Entering(r, w, NoWindow)
<1>1. WindowTypes /\ w \in Windows /\ current \notin pending
  BY WindowFacts DEF Types, WindowTypes
<1>2. Turns(NoWindow, Taken(r))
  BY <1>1, StillTurns
<1>3. win' = win /\ current' = current /\ pending' = pending
  BY DEF collector
<1>4. Windows' = Windows /\ HeldWindows' = HeldWindows /\ win'[w].start = win[w].start
  BY <1>3 DEF Windows, HeldWindows
<1>5. Goes(r, w)
  BY <1>1, <1>4 DEF Goes
<1>6. Over(NoWindow, Taken(r))
  BY <1>1, <1>3 DEF Over
<1> QED
  BY <1>2, <1>5, <1>6 DEF Entering

LEMMA LoadEnters ==
    ASSUME Types, NEW r \in Requests, LoadCurrent(r)
    PROVE  \E w : Entering(r, w, NoWindow)
<1>1. WindowTypes /\ req[r].pc = "load" /\ IsCurrent(r)
  BY DEF Types, LoadCurrent
<1>2. /\ current \in HeldWindows /\ current \in Nat
      /\ Minute(req[r].t) <= win[current].start
  <2>1. current \in HeldWindows /\ Minute(req[r].t) = win[current].start
    BY <1>1 DEF IsCurrent, HeldWindows
  <2>2. current \in Windows /\ win[current].start \in Nat /\ current \in Nat
    BY <1>1, <2>1, WindowFacts
  <2> QED
    BY <2>1, <2>2
<1>3. req' = [req EXCEPT ![r].pc = "record", ![r].w = current]
  BY DEF LoadCurrent
<1>4. /\ req' \in [Requests -> RequestType]
      /\ \A q \in Requests : q # r => req'[q] = req[q]
      /\ req'[r].pc = "record" /\ req'[r].t = req[r].t /\ req'[r].age = req[r].age
      /\ req'[r].w = current
  <2>1. req \in [Requests -> RequestType]
    BY DEF Types, RequestTypes
  <2> QED
    BY <1>2, <1>3, <2>1 DEF RequestType, Steps
<1>5. UNCHANGED collector /\ UNCHANGED <<fl, rows, delayed, now, off, after, faults>>
  BY DEF LoadCurrent
<1>6. Entering(r, current, NoWindow)
  BY <1>1, <1>2, <1>4, <1>5, EntersUnturned
<1> QED
  BY <1>6

LEMMA HeldEnters ==
    ASSUME Types, Starts, NEW r \in Requests, WindowForHeld(r)
    PROVE  \E w : Entering(r, w, NoWindow)
<1> DEFINE m == Minute(req[r].t)
           w == Held(m)
<1>1. WindowTypes /\ req[r].pc = "load" /\ w # NoWindow /\ Got(r, w)
  BY DEF Types, WindowForHeld
<1>2. w \in HeldWindows /\ w \in Windows /\ win[w].start = m
  BY <1>1, HeldFacts
<1>3. w \in Nat /\ m \in Nat
  BY <1>1, <1>2, WindowFacts
<1>4. UNCHANGED collector /\ UNCHANGED <<fl, rows, delayed, now, off, after, faults>>
  BY DEF WindowForHeld
<1> HIDE DEF w
<1>5. /\ req' \in [Requests -> RequestType]
      /\ \A q \in Requests : q # r => req'[q] = req[q]
      /\ req'[r].pc = "record" /\ req'[r].t = req[r].t /\ req'[r].age = req[r].age
      /\ req'[r].w = w
  BY <1>1, <1>3, GotFacts
<1>6. Minute(req[r].t) <= win[w].start
  BY <1>2, <1>3
<1>7. Entering(r, w, NoWindow)
  BY <1>1, <1>2, <1>4, <1>5, <1>6, EntersUnturned
<1> QED
  BY <1>7

(* A belated request gets the latest window, or is refused and is lost. *)
LEMMA BelatedEnters ==
    ASSUME Types, Starts, NEW r \in Requests, WindowForBelated(r)
    PROVE  \/ \E w : Entering(r, w, NoWindow)
           \/ /\ req[r].pc = "load" /\ Ends(r, "refused")
              /\ lost' = lost + 1
              /\ after' = IF Stopping THEN after \cup {r} ELSE after
              /\ UNCHANGED <<win, current, pending, latest>>
              /\ UNCHANGED <<fl, rows, delayed, now, off, faults>>
<1> DEFINE w == Held(latest)
<1>1. WindowTypes /\ req[r].pc = "load" /\ Got(r, w) /\ Belated(r)
  BY DEF Types, WindowForBelated
<1>2. /\ UNCHANGED <<win, current, pending, latest>>
      /\ UNCHANGED <<fl, rows, delayed, now, off, faults>>
      /\ lost' = IF w = NoWindow THEN lost + 1 ELSE lost
      /\ after' = IF w = NoWindow /\ Stopping THEN after \cup {r} ELSE after
  BY DEF WindowForBelated
<1>3. w # NoWindow => w \in HeldWindows /\ w \in Windows /\ win[w].start = latest
  BY HeldFacts
<1>4. Minute(req[r].t) <= latest
  BY <1>1 DEF Belated
<1> HIDE DEF w
<1>5. CASE w = NoWindow
  <2>1. w \in Nat
    BY <1>5 DEF NoWindow
  <2>2. Ends(r, "refused")
    BY <1>1, <1>5, <2>1, GotFacts
  <2> QED
    BY <1>1, <1>2, <1>5, <2>2
<1>6. CASE w # NoWindow
  <2>1. w \in Nat /\ w \in HeldWindows
    BY <1>1, <1>3, <1>6, WindowFacts
  <2>2. Minute(req[r].t) <= win[w].start
    BY <1>3, <1>4, <1>6
  <2>3. UNCHANGED collector /\ UNCHANGED <<fl, rows, delayed, now, off, after, faults>>
    BY <1>2, <1>6 DEF collector
  <2>4. /\ req' \in [Requests -> RequestType]
        /\ \A q \in Requests : q # r => req'[q] = req[q]
        /\ req'[r].pc = "record" /\ req'[r].t = req[r].t /\ req'[r].age = req[r].age
        /\ req'[r].w = w
    BY <1>1, <1>6, <2>1, GotFacts
  <2>5. Entering(r, w, NoWindow)
    BY <1>1, <2>1, <2>2, <2>3, <2>4, EntersUnturned
  <2> QED
    BY <2>5
<1> QED
  BY <1>5, <1>6

LEMMA TakenFacts ==
    ASSUME Types, Clock, NEW r \in Requests, InRecord(r)
    PROVE  /\ Taken(r) \in Nat /\ Taken(r) <= now /\ req[r].t <= Taken(r)
           /\ ~stepped => Taken(r) = req[r].t
<1>1. req[r].t \in Nat /\ req[r].age \in Nat /\ now \in Nat
  BY RequestFacts, BoundsAssumption DEF Types, StoreTypes
<1>2. req[r].t + req[r].age <= now /\ (~stepped => req[r].t + req[r].age = now)
  BY DEF Clock
<1> QED
  BY <1>1, <1>2 DEF Taken

LEMMA NewEnters ==
    ASSUME Types, Starts, Clock, NEW r \in Requests, WindowForNew(r)
    PROVE  \E w, o : Entering(r, w, o)
<1>1. PICK o : Turns(o, Taken(r))
  BY NewTurns
<1>2. /\ WindowTypes /\ Minute(req[r].t) > latest
      /\ Minute(req[r].t) \in Nat
      /\ req[r].pc = "load" /\ latest' = Minute(req[r].t)
      /\ UNCHANGED <<fl, rows, delayed, now, off, after, faults>>
  BY NewTurns, RequestFacts DEF Types, WindowForNew
<1> DEFINE w == Len(win) + 1
<1>3. Len(win) \in Nat /\ w \in Nat /\ w # NoWindow /\ latest \in Int
  BY <1>2, WindowFacts DEF NoWindow
<1>4. current' = w /\ Got(r, w)
  <2> DEFINE new == [start |-> Minute(req[r].t), closedAt |-> 0, reqs |-> {}]
  <2>1. new \in WindowType /\ win \in Seq(WindowType)
    BY <1>2, RequestFacts DEF WindowType, WindowTypes
  <2>2. Len(Append(win, new)) = w
    BY <2>1, AppendProperties
  <2> QED
    BY <2>2 DEF WindowForNew
<1>5. /\ Len(win') \in {Len(win), Len(win) + 1} /\ (Len(win') = Len(win) => latest' = latest)
      /\ Len(win') > Len(win) => win'[Len(win')].start = latest'
      /\ current' \in {NoWindow, Len(win')}
  BY <1>1 DEF Turns
<1>6. Len(win') = w /\ win'[w].start = latest' /\ w \in Windows'
  BY <1>2, <1>3, <1>5 DEF Windows
<1>7. w \in HeldWindows'
  BY <1>3, <1>4 DEF HeldWindows
<1>8. Minute(req[r].t) <= win'[w].start
  BY <1>2, <1>6
<1> HIDE DEF w
<1>9. /\ req' \in [Requests -> RequestType]
      /\ \A q \in Requests : q # r => req'[q] = req[q]
      /\ req'[r].pc = "record" /\ req'[r].t = req[r].t /\ req'[r].age = req[r].age
      /\ req'[r].w = w
  BY <1>3, <1>4, GotFacts
<1>10. Goes(r, w)
  BY <1>2, <1>6, <1>7, <1>8, <1>9 DEF Goes
<1>11. Over(o, Taken(r))
  <2> SUFFICES ASSUME o # NoWindow \/ current \in pending'
               PROVE  win[current].start < Minute(Taken(r))
    BY DEF Over
  <2>1. current \in Windows
    BY <1>1, <1>2, <1>3, WindowFacts DEF Turns, WindowTypes, Windows, NoWindow
  <2>2. win[current].start <= latest /\ win[current].start \in Nat
    BY <1>2, <2>1, WindowFacts DEF Starts
  <2>3. Minute(req[r].t) <= Minute(Taken(r)) /\ Minute(Taken(r)) \in Nat
    BY <1>2, TakenFacts, RequestFacts, MinuteMonotone, MinuteNat DEF InRecord
  <2> QED
    BY <1>2, <1>3, <2>2, <2>3
<1> QED
  BY <1>1, <1>2, <1>10, <1>11 DEF Entering

-----------------------------------------------------------------------------
(* What every step does to the windows. *)

Grows ==
    /\ Len(win') \in Nat /\ Len(win) <= Len(win') /\ Windows \subseteq Windows'
    /\ \A i \in Windows : win'[i].start = win[i].start /\ win[i].reqs \subseteq win'[i].reqs

LEMMA TurnsGrows ==
    ASSUME WindowTypes, NEW o, NEW at, Turns(o, at)
    PROVE  Grows
<1>1. Len(win) \in Nat /\ Len(win') \in {Len(win), Len(win) + 1}
  BY WindowFacts DEF Turns
<1>2. Windows \subseteq Windows'
  BY <1>1 DEF Windows
<1> QED
  BY <1>1, <1>2 DEF Grows, Turns

LEMMA DroppedNat ==
    ASSUME WindowTypes, NEW o \in pending \cup {NoWindow}
    PROVE  Dropped(o) \in Nat
<1>1. o # NoWindow => win[o].reqs \in SUBSET Requests
  BY WindowFacts DEF WindowTypes
<1> QED
  BY <1>1, RequestsFinite DEF Dropped

LEMMA WindowsTurn ==
    ASSUME WindowTypes, Starts, NEW o, NEW at, Turns(o, at)
    PROVE  WindowTypes' /\ Starts'
<1>1. /\ Len(win) \in Nat /\ Len(win') \in {Len(win), Len(win) + 1}
      /\ Windows' = Windows \/ (Len(win') = Len(win) + 1 /\ Windows' = Windows \cup {Len(win')})
      /\ Windows \subseteq Windows'
  BY WindowFacts DEF Turns, Windows
<1>2. WindowTypes'
  <2>1. lost' \in Nat
    BY DroppedNat DEF Turns, WindowTypes
  <2>2. latest' \in Minutes \cup {NoMinute}
    BY <1>1 DEF Turns, WindowTypes
  <2> QED
    BY <1>1, <2>1, <2>2 DEF Turns, WindowTypes
<1>3. \A i \in Windows : /\ win'[i].start = win[i].start /\ win[i].start \in Nat
                         /\ win[i].start <= latest /\ i \in Nat /\ i <= Len(win)
  BY WindowFacts DEF Turns, Starts
<1>4. latest \in Int
  BY WindowFacts
<1>5. CASE Len(win') = Len(win)
  <2>1. Windows' = Windows /\ latest' = latest
    BY <1>1, <1>5 DEF Turns, Windows
  <2>2. \A i, j \in Windows' : i < j => win'[i].start < win'[j].start
    BY <1>3, <2>1 DEF Starts
  <2>3. \A i \in Windows' : win'[i].start <= latest'
    BY <1>3, <2>1
  <2>4. Len(win') > 0 => latest' = win'[Len(win')].start
    <3> SUFFICES ASSUME Len(win') > 0 PROVE latest' = win'[Len(win')].start
      OBVIOUS
    <3>1. Len(win) \in Windows /\ latest = win[Len(win)].start
      BY <1>1, <1>5 DEF Windows, Starts
    <3> QED
      BY <1>3, <1>5, <2>1, <3>1
  <2> QED
    BY <1>2, <2>2, <2>3, <2>4 DEF Starts
<1>6. CASE Len(win') = Len(win) + 1
  <2>1. /\ latest' > latest /\ latest' \in Minutes /\ win'[Len(win')].start = latest'
        /\ Windows' = Windows \cup {Len(win')} /\ Len(win') \in Nat
    BY <1>1, <1>6 DEF Turns, Windows
  <2>2. latest' \in Nat
    BY <2>1, MinutesFacts
  <2>3. \A i \in Windows : win'[i].start < latest' /\ i < Len(win')
    BY <1>1, <1>3, <1>4, <1>6, <2>1, <2>2
  <2>4. \A i, j \in Windows' : i < j => win'[i].start < win'[j].start
    <3> SUFFICES ASSUME NEW i \in Windows', NEW j \in Windows', i < j
                 PROVE  win'[i].start < win'[j].start
      OBVIOUS
    <3>1. i \in Windows
      BY <1>1, <2>1, <2>3, <1>3
    <3>2. CASE j \in Windows
      BY <1>3, <3>1, <3>2 DEF Starts
    <3>3. CASE j = Len(win')
      BY <2>1, <2>3, <3>1, <3>3
    <3> QED
      BY <2>1, <3>2, <3>3
  <2>5. \A i \in Windows' : win'[i].start <= latest'
    BY <1>3, <2>1, <2>2, <2>3
  <2> QED
    BY <1>2, <2>1, <2>4, <2>5 DEF Starts
<1> QED
  BY <1>1, <1>5, <1>6

(* The types of the other variables when only the windows change. *)
LEMMA RequestFrame ==
    ASSUME Types, Grows, req' = req
    PROVE  RequestTypes'
<1>1. Len(win) \in Nat
  BY WindowFacts DEF Types
<1>2. \A r \in Requests : req[r].w \in Nat
  BY RequestFacts
<1> QED
  BY <1>1, <1>2 DEF Types, RequestTypes, Grows

LEMMA RunFrame ==
    ASSUME RunTypes, Grows, fl' = fl
    PROVE  RunTypes'
  BY DEF RunTypes, Grows

LEMMA StillGrows ==
    ASSUME WindowTypes, win' = win
    PROVE  Grows
<1>1. Windows' = Windows /\ Len(win) \in Nat
  BY WindowFacts DEF Windows
<1> QED
  BY <1>1 DEF Grows

LEMMA StillTypes ==
    ASSUME Types, Starts, UNCHANGED <<win, current, pending, latest, lost>>
    PROVE  WindowTypes' /\ Starts' /\ Grows
<1>1. Windows' = Windows
  BY DEF Windows
<1> QED
  BY <1>1, StillGrows DEF Types, WindowTypes, Starts

-----------------------------------------------------------------------------
(* The types and the order of the windows, action by action. *)

LEMMA EnteringTypes ==
    ASSUME Types, Starts, NEW r \in Requests, NEW w, NEW o, Entering(r, w, o)
    PROVE  Types' /\ Starts' /\ Grows
<1>1. WindowTypes /\ Turns(o, Taken(r)) /\ Goes(r, w)
  BY DEF Types, Entering
<1>2. WindowTypes' /\ Starts' /\ Grows
  BY <1>1, WindowsTurn, TurnsGrows
<1>3. RequestTypes'
  <2>1. w \in Windows' /\ w <= Len(win') /\ Len(win) <= Len(win') /\ Windows \subseteq Windows'
    BY <1>1, <1>2 DEF Goes, Grows, Windows
  <2>2. \A q \in Requests : /\ req[q].w \in Nat /\ req[q].w <= Len(win)
                            /\ req[q].pc = "record" => req[q].w \in Windows
    BY RequestFacts DEF Types, RequestTypes
  <2>3. Len(win) \in Nat /\ Len(win') \in Nat
    BY <1>1, <1>2, WindowFacts DEF Grows
  <2>4. \A q \in Requests : req'[q].w <= Len(win')
    BY <1>1, <2>1, <2>2, <2>3 DEF Goes
  <2>5. \A q \in Requests : req'[q].pc = "record" => req'[q].w \in Windows'
    BY <1>1, <2>1, <2>2 DEF Goes
  <2> QED
    BY <1>1, <2>4, <2>5 DEF Goes, RequestTypes
<1>4. RunTypes' /\ StoreTypes'
  BY <1>2, RunFrame DEF Entering, Types, StoreTypes
<1> QED
  BY <1>2, <1>3, <1>4 DEF Types

LEMMA EndsTypes ==
    ASSUME Types, Grows, NEW r \in Requests, NEW p \in {"counted", "refused"}, Ends(r, p)
    PROVE  RequestTypes'
<1>1. \A q \in Requests : /\ req[q].w \in Nat /\ req[q].w <= Len(win)
                          /\ req[q].pc = "record" => req[q].w \in Windows
  BY RequestFacts DEF Types, RequestTypes
<1>2. Len(win) \in Nat /\ Len(win') \in Nat /\ Len(win) <= Len(win') /\ Windows \subseteq Windows'
  BY WindowFacts DEF Grows, Types
<1>3. \A q \in Requests : req'[q].w <= Len(win')
  BY <1>1, <1>2 DEF Ends, NoWindow
<1>4. \A q \in Requests : req'[q].pc = "record" => req'[q].w \in Windows'
  BY <1>1, <1>2 DEF Ends
<1> QED
  BY <1>3, <1>4 DEF Ends, RequestTypes

LEMMA RefusedTypes ==
    ASSUME Types, Starts, NEW r \in Requests, Ends(r, "refused"), lost' = lost + 1,
           after' = IF Stopping THEN after \cup {r} ELSE after,
           UNCHANGED <<win, current, pending, latest>>,
           UNCHANGED <<fl, rows, delayed, now, off, faults>>
    PROVE  Types' /\ Starts' /\ Grows
<1>1. Grows /\ Windows' = Windows
  BY StillGrows DEF Types, Windows
<1>2. WindowTypes' /\ Starts'
  BY <1>1 DEF Types, WindowTypes, Starts
<1>3. RequestTypes'
  BY <1>1, EndsTypes
<1>4. RunTypes' /\ StoreTypes'
  BY <1>1, RunFrame DEF Types, StoreTypes
<1> QED
  BY <1>1, <1>2, <1>3, <1>4 DEF Types

(* What counting does to the windows and the requests. *)
Counted(r, c) ==
    /\ req[r].pc = "record" /\ c = req[r].w /\ c \in Windows
    /\ Ends(r, "counted")
    /\ win' \in Seq(WindowType) /\ Len(win') = Len(win) /\ Windows' = Windows
    /\ \A i \in Windows :
         /\ win'[i].start = win[i].start /\ win'[i].closedAt = win[i].closedAt
         /\ win'[i].reqs = IF i = c THEN win[i].reqs \cup {r} ELSE win[i].reqs
    /\ after' = IF Stopping THEN after \cup {r} ELSE after
    /\ UNCHANGED <<current, pending, latest, lost>>
    /\ UNCHANGED <<fl, rows, delayed, now, off, faults>>

LEMMA CountInFacts ==
    ASSUME Types, NEW r \in Requests, CountIn(r)
    PROVE  Counted(r, req[r].w)
<1> DEFINE c == req[r].w
           e == [win[c] EXCEPT !.reqs = @ \cup {r}]
<1>1. req[r].pc = "record" /\ WindowTypes /\ c \in Windows /\ c \in 1..Len(win)
  BY DEF CountIn, Types, RequestTypes, Windows
<1>2. win[c] \in WindowType /\ win \in Seq(WindowType)
  BY <1>1, WindowFacts DEF WindowTypes
<1>3. win' = [win EXCEPT ![c] = e]
  BY DEF CountIn
<1>4. /\ e \in WindowType /\ e.start = win[c].start /\ e.closedAt = win[c].closedAt
      /\ e.reqs = win[c].reqs \cup {r}
  BY <1>2 DEF WindowType
<1>5. Ends(r, "counted")
  <2>1. req \in [Requests -> RequestType] /\ "counted" \in Steps
    BY DEF Types, RequestTypes, Steps
  <2>2. req' = [req EXCEPT ![r] = Done("counted")]
    BY DEF CountIn
  <2> QED
    BY <2>1, <2>2, DoneFacts DEF Ends
<1>6. /\ after' = IF Stopping THEN after \cup {r} ELSE after
      /\ UNCHANGED <<current, pending, latest, lost>>
      /\ UNCHANGED <<fl, rows, delayed, now, off, faults>>
  BY DEF CountIn
<1> HIDE DEF e, c
<1>7. /\ win' \in Seq(WindowType) /\ Len(win') = Len(win)
      /\ \A i \in 1..Len(win) : win'[i] = IF i = c THEN e ELSE win[i]
  BY <1>1, <1>2, <1>3, <1>4
<1>8. Windows' = Windows /\ Windows = 1..Len(win)
  BY <1>7 DEF Windows
<1>9. \A i \in Windows :
         /\ win'[i].start = win[i].start /\ win'[i].closedAt = win[i].closedAt
         /\ win'[i].reqs = IF i = c THEN win[i].reqs \cup {r} ELSE win[i].reqs
  BY <1>4, <1>7, <1>8
<1>10. c = req[r].w
  BY DEF c
<1> QED
  BY <1>1, <1>5, <1>6, <1>7, <1>8, <1>9, <1>10 DEF Counted

LEMMA CountedTypes ==
    ASSUME Types, Starts, NEW r \in Requests, NEW c, Counted(r, c)
    PROVE  Types' /\ Starts' /\ Grows
<1>1. Len(win) \in Nat /\ Windows' = Windows /\ Len(win') = Len(win)
  BY WindowFacts DEF Types, Counted
<1>2. Grows
  <2>1. \A i \in Windows :
          win'[i].reqs = IF i = c THEN win[i].reqs \cup {r} ELSE win[i].reqs
    BY DEF Counted
  <2>2. \A i \in Windows : win[i].reqs \subseteq win'[i].reqs
    BY <2>1
  <2>3. \A i \in Windows : win'[i].start = win[i].start
    BY DEF Counted
  <2> QED
    BY <1>1, <2>2, <2>3 DEF Grows
<1>3. WindowTypes' /\ Starts'
  <2>1. Len(win) > 0 => Len(win) \in Windows
    BY <1>1 DEF Windows
  <2>2. WindowTypes'
    BY <1>1 DEF Types, WindowTypes, Counted
  <2>3. \A i \in Windows : win'[i].start = win[i].start
    BY DEF Counted
  <2> QED
    BY <1>1, <2>1, <2>2, <2>3 DEF Starts, Counted
<1>4. RequestTypes'
  BY <1>2, EndsTypes DEF Counted
<1>5. RunTypes' /\ StoreTypes'
  BY <1>2, RunFrame DEF Types, StoreTypes, Counted
<1> QED
  BY <1>2, <1>3, <1>4, <1>5 DEF Types

LEMMA RunFacts ==
    ASSUME RunTypes
    PROVE  /\ fl.pc \in RunSteps /\ fl.now \in 0..MaxNow /\ fl.now \in Nat
           /\ fl.todo \in SUBSET Nat /\ fl.windows \in SUBSET Nat
           /\ fl.windows \subseteq Windows
           /\ fl.snap \in SUBSET Snapshots /\ fl.final \in BOOLEAN /\ fl.failed \in BOOLEAN
<1>1. fl \in RunType /\ fl.windows \subseteq Windows
  BY DEF RunTypes
<1>2. /\ fl.pc \in RunSteps /\ fl.now \in 0..MaxNow
      /\ fl.todo \in SUBSET Nat /\ fl.windows \in SUBSET Nat
      /\ fl.snap \in SUBSET Snapshots /\ fl.final \in BOOLEAN /\ fl.failed \in BOOLEAN
  BY <1>1 DEF RunType
<1>3. fl.now \in Nat
  BY <1>2, BoundsAssumption
<1> QED
  BY <1>1, <1>2, <1>3

LEMMA SnapshotFacts ==
    \A s \in Snapshots : s.start \in Minutes /\ s.start \in Nat /\ s.reqs \in SUBSET Requests
<1>1. \A s \in Snapshots : s.start \in Minutes /\ s.reqs \in SUBSET Requests
  BY DEF Snapshots
<1> QED
  BY <1>1, MinutesFacts

LEMMA FinishFacts ==
    ASSUME Types, NEW r \in Requests, Finish(r)
    PROVE  /\ req[r].pc = "serving"
           /\ req' \in [Requests -> RequestType]
           /\ \A q \in Requests : q # r => req'[q] = req[q]
           /\ req'[r].pc = "load" /\ req'[r].t = Wall /\ req'[r].age = req[r].age
           /\ req'[r].w = req[r].w
           /\ UNCHANGED <<win, current, pending, latest, lost>>
           /\ UNCHANGED <<fl, rows, delayed, now, off, after, faults>>
<1>1. req \in [Requests -> RequestType] /\ Wall \in 0..MaxNow
  BY BoundsAssumption DEF Types, RequestTypes, StoreTypes, Wall
<1>2. req' = [req EXCEPT ![r].pc = "load", ![r].t = Wall] /\ req[r].pc = "serving"
  BY DEF Finish
<1>3. /\ req' \in [Requests -> RequestType]
      /\ \A q \in Requests : q # r => req'[q] = req[q]
      /\ req'[r].pc = "load" /\ req'[r].t = Wall /\ req'[r].age = req[r].age
      /\ req'[r].w = req[r].w
  BY <1>1, <1>2 DEF RequestType, Steps
<1> QED
  BY <1>2, <1>3 DEF Finish, collector

LEMMA FinishTypes ==
    ASSUME Types, Starts, NEW r \in Requests, Finish(r)
    PROVE  Types' /\ Starts' /\ Grows
<1>1. WindowTypes' /\ Starts' /\ Grows
  BY FinishFacts, StillTypes
<1>2. RequestTypes'
  <2>1. \A q \in Requests : /\ req'[q].w = req[q].w
                            /\ req'[q].pc = "record" => req[q].pc = "record"
    BY FinishFacts
  <2>2. Windows' = Windows /\ Len(win') = Len(win)
    BY FinishFacts DEF Windows
  <2> QED
    BY <2>1, <2>2, FinishFacts DEF Types, RequestTypes
<1>3. RunTypes' /\ StoreTypes'
  BY <1>1, FinishFacts, RunFrame DEF Types, StoreTypes
<1> QED
  BY <1>1, <1>2, <1>3 DEF Types

LEMMA TickFacts ==
    ASSUME Types, Tick
    PROVE  /\ req' \in [Requests -> RequestType]
           /\ \A r \in Requests :
                /\ req'[r].pc = req[r].pc /\ req'[r].t = req[r].t /\ req'[r].w = req[r].w
                /\ req'[r].age = IF InRecord(r) THEN req[r].age + 1 ELSE req[r].age
           /\ now < MaxNow /\ now' = now + 1
           /\ UNCHANGED <<win, current, pending, latest, lost>>
           /\ UNCHANGED <<fl, rows, delayed, off, after, faults>>
<1>1. /\ now < MaxNow /\ now' = now + 1
      /\ \A r \in Requests : InRecord(r) => req[r].age < MaxDelay
      /\ req' = [r \in Requests |->
                   IF InRecord(r) THEN [req[r] EXCEPT !.age = @ + 1] ELSE req[r]]
      /\ UNCHANGED <<win, current, pending, latest, lost>>
      /\ UNCHANGED <<fl, rows, delayed, off, after, faults>>
  BY DEF Tick, collector
<1>2. \A r \in Requests : /\ req[r] \in RequestType
                          /\ req[r].age \in Nat /\ req[r].age <= MaxDelay
  BY RequestFacts
<1>3. ASSUME NEW r \in Requests, InRecord(r)
      PROVE  /\ [req[r] EXCEPT !.age = @ + 1] \in RequestType
             /\ [req[r] EXCEPT !.age = @ + 1].pc = req[r].pc
             /\ [req[r] EXCEPT !.age = @ + 1].t = req[r].t
             /\ [req[r] EXCEPT !.age = @ + 1].w = req[r].w
             /\ [req[r] EXCEPT !.age = @ + 1].age = req[r].age + 1
  <2>1. req[r] \in RequestType /\ req[r].age + 1 \in 0..MaxDelay
    BY <1>1, <1>2, <1>3, DelayAssumption
  <2> QED
    BY <2>1 DEF RequestType
<1>4. \A r \in Requests : req'[r] = IF InRecord(r) THEN [req[r] EXCEPT !.age = @ + 1] ELSE req[r]
  BY <1>1
<1>5. \A r \in Requests :
                /\ req'[r].pc = req[r].pc /\ req'[r].t = req[r].t /\ req'[r].w = req[r].w
                /\ req'[r].age = IF InRecord(r) THEN req[r].age + 1 ELSE req[r].age
  BY <1>3, <1>4
<1>6. req' \in [Requests -> RequestType]
  BY <1>1, <1>2, <1>3
<1> QED
  BY <1>1, <1>5, <1>6

LEMMA TickTypes ==
    ASSUME Types, Starts, Tick
    PROVE  Types' /\ Starts' /\ Grows
<1>1. WindowTypes' /\ Starts' /\ Grows
  BY TickFacts, StillTypes
<1>2. RequestTypes'
  <2>1. Windows' = Windows /\ Len(win') = Len(win)
    BY TickFacts DEF Windows
  <2> QED
    BY <2>1, TickFacts DEF Types, RequestTypes
<1>3. RunTypes' /\ StoreTypes'
  <2>1. now' \in 0..MaxNow /\ off' \in 0..now'
    BY TickFacts, BoundsAssumption DEF Types, StoreTypes
  <2> QED
    BY <1>1, <2>1, TickFacts, RunFrame DEF Types, StoreTypes
<1> QED
  BY <1>1, <1>2, <1>3 DEF Types

LEMMA StepBackTypes ==
    ASSUME Types, Starts, StepBack
    PROVE  Types' /\ Starts' /\ Grows
<1>1. /\ UNCHANGED <<win, current, pending, latest, lost>>
      /\ UNCHANGED <<req, fl, rows, delayed, now, after>>
  BY DEF StepBack, collector
<1>2. WindowTypes' /\ Starts' /\ Grows
  BY <1>1, StillTypes
<1>3. off' \in 0..now' /\ faults' \in 0..MaxFaults
  BY BoundsAssumption DEF StepBack, Fault, Wall, Types, StoreTypes
<1>4. RequestTypes' /\ RunTypes' /\ StoreTypes'
  BY <1>1, <1>2, <1>3, RequestFrame, RunFrame DEF Types, StoreTypes
<1> QED
  BY <1>2, <1>4 DEF Types

-----------------------------------------------------------------------------
(* Run and Flush, field by field. *)

LEMMA FlushBeginFacts ==
    ASSUME Types, FlushBegin
    PROVE  /\ \E o : Turns(o, now) /\ Over(o, now)
           /\ fl.pc \in {"wait", "final"}
           /\ fl' \in RunType
           /\ fl'.pc = IF HeldWindows' = {} THEN "forget" ELSE "read"
           /\ fl'.now = now /\ fl'.todo = HeldWindows' /\ fl'.windows = HeldWindows'
           /\ fl'.snap = {} /\ fl'.final = fl.final /\ fl'.failed = fl.failed
           /\ UNCHANGED <<req, rows, delayed, now, off, after, faults>>
<1> DEFINE ended == current # NoWindow /\ win[current].start < Minute(Wall)
<1>1. WindowTypes /\ now \in 0..MaxNow /\ fl \in RunType /\ now \in Int /\ latest' = latest
  BY BoundsAssumption DEF Types, StoreTypes, RunTypes, FlushBegin
<1>2. /\ IF ended THEN current' = NoWindow /\ Close(current, now, win)
                  ELSE UNCHANGED <<win, current, pending, lost>>
      /\ fl.pc \in {"wait", "final"}
      /\ UNCHANGED <<req, rows, delayed, now, off, after, faults>>
      /\ fl' = [fl EXCEPT !.pc = IF HeldWindows' = {} THEN "forget" ELSE "read", !.now = now,
                          !.todo = HeldWindows', !.windows = HeldWindows', !.snap = {}]
  BY DEF FlushBegin, HeldWindows
<1>3. \E o : Turns(o, now) /\ Over(o, now)
  <2>1. CASE ended
    <3>1. PICK o : Turns(o, now)
      BY <1>1, <1>2, <2>1, CloseTurns
    <3>2. /\ Minute(Wall) <= Minute(now) /\ Minute(Wall) \in Nat /\ Minute(now) \in Nat
      <4>1. Wall \in Nat /\ now \in Nat /\ Wall <= now
        BY BoundsAssumption DEF Types, StoreTypes, Wall
      <4> QED
        BY <4>1, MinuteMonotone, MinuteNat
    <3>3. current \in Windows /\ win[current].start \in Nat
      BY <1>1, <2>1, WindowFacts DEF WindowTypes, Windows, NoWindow
    <3>4. win[current].start < Minute(now)
      BY <2>1, <3>2, <3>3
    <3> QED
      BY <3>1, <3>4 DEF Over
  <2>2. CASE ~ended
    <3>1. UNCHANGED collector /\ current \notin pending'
      BY <1>1, <1>2, <2>2 DEF collector, WindowTypes
    <3>2. Turns(NoWindow, now) /\ Over(NoWindow, now)
      BY <1>1, <3>1, StillTurns DEF Over
    <3> QED
      BY <3>2
  <2> QED
    BY <2>1, <2>2
<1>4. HeldWindows' \in SUBSET Nat
  <2>1. PICK o : Turns(o, now)
    BY <1>3
  <2>2. /\ HeldWindows' = (HeldWindows \ {o}) \cup (Windows' \ Windows)
        /\ HeldWindows \subseteq Windows /\ Windows \subseteq Nat /\ Windows' \subseteq Nat
    BY <1>1, <2>1, WindowFacts DEF Turns, Windows
  <2> QED
    BY <2>2
<1>5. {} \in SUBSET Snapshots /\ "forget" \in RunSteps /\ "read" \in RunSteps
  BY DEF RunSteps
<1> DEFINE H == HeldWindows'
           p == IF H = {} THEN "forget" ELSE "read"
<1>6. p \in RunSteps /\ H \in SUBSET Nat
  BY <1>4, <1>5
<1>7. fl' = [fl EXCEPT !.pc = p, !.now = now, !.todo = H, !.windows = H, !.snap = {}]
  BY <1>2
<1> HIDE DEF H, p
<1>8. /\ fl' \in RunType
      /\ fl'.pc = p /\ fl'.now = now /\ fl'.todo = H /\ fl'.windows = H
      /\ fl'.snap = {} /\ fl'.final = fl.final /\ fl'.failed = fl.failed
  BY <1>1, <1>5, <1>6, <1>7 DEF RunType
<1> QED
  BY <1>2, <1>3, <1>8 DEF H, p

LEMMA FlushBeginTypes ==
    ASSUME Types, Starts, FlushBegin
    PROVE  Types' /\ Starts' /\ Grows
<1>1. PICK o : Turns(o, now)
  BY FlushBeginFacts
<1>2. WindowTypes' /\ Starts' /\ Grows
  BY <1>1, WindowsTurn, TurnsGrows DEF Types
<1>3. HeldWindows' \subseteq Windows'
  BY <1>1, <1>2, WindowFacts DEF Types, Turns, Grows
<1>4. RequestTypes' /\ RunTypes' /\ StoreTypes'
  BY <1>2, <1>3, RequestFrame, FlushBeginFacts DEF Types, StoreTypes, RunTypes
<1> QED
  BY <1>2, <1>4 DEF Types

(* w is the window read, snap what was read so far. *)
Reads(w, snap) ==
    /\ w \in fl.todo
    /\ snap = IF win[w].reqs = {} THEN fl.snap
              ELSE fl.snap \cup {[start |-> win[w].start, reqs |-> win[w].reqs]}
    /\ fl'.pc = IF fl.todo # {w} THEN "read" ELSE IF snap = {} THEN "forget" ELSE "write"
    /\ fl'.todo = fl.todo \ {w} /\ fl'.snap = snap
    /\ fl'.now = fl.now /\ fl'.windows = fl.windows
    /\ fl'.final = fl.final /\ fl'.failed = fl.failed

LEMMA FlushReadFacts ==
    ASSUME Types, FlushShape, FlushRead
    PROVE  /\ fl.pc = "read"
           /\ fl' \in RunType
           /\ \E w, snap : Reads(w, snap)
           /\ UNCHANGED <<win, current, pending, latest, lost>>
           /\ UNCHANGED <<req, rows, delayed, now, off, after, faults>>
<1>1. PICK w \in fl.todo : FlushReads(w)
  BY DEF FlushRead
<1> DEFINE new == [start |-> win[w].start, reqs |-> win[w].reqs]
           snap == IF win[w].reqs = {} THEN fl.snap ELSE fl.snap \cup {new}
           p == IF fl.todo # {w} THEN "read" ELSE IF snap = {} THEN "forget" ELSE "write"
<1>2. fl' = [fl EXCEPT !.todo = fl.todo \ {w}, !.snap = snap, !.pc = p]
  BY <1>1 DEF FlushReads
<1>3. fl \in RunType /\ w \in Windows /\ WindowTypes
  BY <1>1 DEF Types, RunTypes, FlushShape
<1>4. new \in Snapshots
  BY <1>3, WindowFacts DEF Snapshots
<1>5. fl.snap \in SUBSET Snapshots /\ fl.todo \in SUBSET Nat
  BY RunFacts DEF Types
<1>6. snap \in SUBSET Snapshots /\ p \in RunSteps /\ fl.todo \ {w} \in SUBSET Nat
  BY <1>4, <1>5 DEF RunSteps
<1>7. snap = IF win[w].reqs = {} THEN fl.snap
              ELSE fl.snap \cup {[start |-> win[w].start, reqs |-> win[w].reqs]}
  OBVIOUS
<1>8. p = IF fl.todo # {w} THEN "read" ELSE IF snap = {} THEN "forget" ELSE "write"
  OBVIOUS
<1> HIDE DEF snap, p
<1>9. /\ fl' \in RunType
      /\ fl'.pc = p /\ fl'.todo = fl.todo \ {w} /\ fl'.snap = snap
      /\ fl'.now = fl.now /\ fl'.windows = fl.windows
      /\ fl'.final = fl.final /\ fl'.failed = fl.failed
  BY <1>2, <1>3, <1>6 DEF RunType
<1>10. Reads(w, snap)
  BY <1>1, <1>7, <1>8, <1>9 DEF Reads
<1> QED
  BY <1>9, <1>10 DEF FlushRead, collector

LEMMA FlushReadTypes ==
    ASSUME Types, Starts, FlushShape, FlushRead
    PROVE  Types' /\ Starts' /\ Grows
<1>1. WindowTypes' /\ Starts' /\ Grows
  BY FlushReadFacts, StillTypes
<1>2. fl'.windows = fl.windows
  BY FlushReadFacts DEF Reads
<1>3. RequestTypes' /\ RunTypes' /\ StoreTypes'
  BY <1>1, <1>2, RequestFrame, FlushReadFacts DEF Types, StoreTypes, RunTypes, Grows
<1> QED
  BY <1>1, <1>3 DEF Types

LEMMA WriteMinutesFacts ==
    ASSUME Types, WriteMinutes
    PROVE  /\ fl.pc = "write"
           /\ rows' = [m \in Minutes |-> Stored(m)]
           /\ fl' \in RunType /\ fl'.pc = "forget"
           /\ fl'.todo = fl.todo /\ fl'.windows = fl.windows /\ fl'.snap = fl.snap
           /\ fl'.now = fl.now /\ fl'.final = fl.final /\ fl'.failed = fl.failed
           /\ UNCHANGED <<win, current, pending, latest, lost>>
           /\ UNCHANGED <<req, delayed, now, off, after, faults>>
<1>1. fl \in RunType /\ fl' = [fl EXCEPT !.pc = "forget"]
  BY DEF Types, RunTypes, WriteMinutes
<1>2. /\ fl' \in RunType /\ fl'.pc = "forget"
      /\ fl'.todo = fl.todo /\ fl'.windows = fl.windows /\ fl'.snap = fl.snap
      /\ fl'.now = fl.now /\ fl'.final = fl.final /\ fl'.failed = fl.failed
  BY <1>1 DEF RunType, RunSteps
<1> QED
  BY <1>2 DEF WriteMinutes, collector

LEMMA WaitingFacts ==
    /\ Waiting \in RunType
    /\ Waiting.now = 0 /\ Waiting.todo = {} /\ Waiting.windows = {} /\ Waiting.snap = {}
    /\ Waiting.final = FALSE /\ Waiting.failed = FALSE /\ Waiting.pc = "wait"
  BY BoundsAssumption DEF Waiting, RunType, RunSteps

LEMMA WriteFailsFacts ==
    ASSUME Types, WriteFails
    PROVE  /\ fl.pc = "write" /\ delayed' = delayed \cup fl.snap
           /\ fl' \in RunType /\ fl'.pc = IF fl.final THEN "stopped" ELSE "wait"
           /\ fl'.todo = {} /\ fl'.windows = {} /\ fl'.snap = {} /\ fl'.now = 0
           /\ fl'.final = fl.final /\ fl'.failed = TRUE
           /\ faults' \in 0..MaxFaults
           /\ UNCHANGED <<win, current, pending, latest, lost>>
           /\ UNCHANGED <<req, rows, now, off, after>>
<1>1. fl.final \in BOOLEAN
  BY RunFacts DEF Types
<1>2. AfterFlush \in RunSteps /\ AfterFlush = IF fl.final THEN "stopped" ELSE "wait"
  BY DEF AfterFlush, RunSteps
<1>3. fl' = [Waiting EXCEPT !.pc = AfterFlush, !.final = fl.final, !.failed = TRUE]
  BY DEF WriteFails
<1>4. /\ fl' \in RunType /\ fl'.pc = AfterFlush
      /\ fl'.todo = {} /\ fl'.windows = {} /\ fl'.snap = {} /\ fl'.now = 0
      /\ fl'.final = fl.final /\ fl'.failed = TRUE
  BY <1>1, <1>2, <1>3, WaitingFacts DEF RunType
<1>5. faults' \in 0..MaxFaults
  BY BoundsAssumption DEF WriteFails, Fault, Types, StoreTypes
<1> QED
  BY <1>2, <1>4, <1>5 DEF WriteFails, collector

LEMMA FlushForgetFacts ==
    ASSUME Types, FlushForget
    PROVE  /\ fl.pc = "forget" /\ pending' = {w \in pending : ~Forgettable(w)}
           /\ fl' \in RunType /\ fl'.pc = IF fl.final THEN "stopped" ELSE "wait"
           /\ fl'.todo = {} /\ fl'.windows = {} /\ fl'.snap = {} /\ fl'.now = 0
           /\ fl'.final = fl.final /\ fl'.failed = FALSE
           /\ UNCHANGED <<win, current, latest, lost>>
           /\ UNCHANGED <<req, rows, delayed, now, off, after, faults>>
<1>1. fl.final \in BOOLEAN
  BY RunFacts DEF Types
<1>2. AfterFlush \in RunSteps /\ AfterFlush = IF fl.final THEN "stopped" ELSE "wait"
  BY DEF AfterFlush, RunSteps
<1>3. fl' = [Waiting EXCEPT !.pc = AfterFlush, !.final = fl.final]
  BY DEF FlushForget
<1>4. /\ fl' \in RunType /\ fl'.pc = AfterFlush
      /\ fl'.todo = {} /\ fl'.windows = {} /\ fl'.snap = {} /\ fl'.now = 0
      /\ fl'.final = fl.final /\ fl'.failed = FALSE
  BY <1>1, <1>2, <1>3, WaitingFacts DEF RunType
<1> QED
  BY <1>2, <1>4 DEF FlushForget

LEMMA StopRunFacts ==
    ASSUME Types, StopRun
    PROVE  /\ \E o : Turns(o, now - Grace)
           /\ fl.pc = "wait"
           /\ fl' \in RunType /\ fl'.pc = "final" /\ fl'.final = TRUE
           /\ fl'.todo = fl.todo /\ fl'.windows = fl.windows /\ fl'.snap = fl.snap
           /\ fl'.now = fl.now /\ fl'.failed = fl.failed
           /\ UNCHANGED <<req, rows, delayed, now, off, after, faults>>
<1>1. /\ WindowTypes /\ fl \in RunType /\ latest' = latest
      /\ fl' = [fl EXCEPT !.pc = "final", !.final = TRUE]
  BY DEF Types, RunTypes, StopRun
<1>2. /\ fl' \in RunType /\ fl'.pc = "final" /\ fl'.final = TRUE
      /\ fl'.todo = fl.todo /\ fl'.windows = fl.windows /\ fl'.snap = fl.snap
      /\ fl'.now = fl.now /\ fl'.failed = fl.failed
  BY <1>1 DEF RunType, RunSteps
<1>3. now - Grace \in Int
  BY BoundsAssumption, DelayAssumption DEF Types, StoreTypes
<1>4. \E o : Turns(o, now - Grace)
  <2>1. CASE current # NoWindow
    <3>1. current' = NoWindow /\ Close(current, now - Grace, win)
      BY <2>1 DEF StopRun
    <3> QED
      BY <1>1, <1>3, <2>1, <3>1, CloseTurns
  <2>2. CASE current = NoWindow
    <3>1. UNCHANGED collector
      BY <1>1, <2>2 DEF StopRun, collector
    <3> QED
      BY <1>1, <3>1, StillTurns
  <2> QED
    BY <2>1, <2>2
<1> QED
  BY <1>2, <1>4 DEF StopRun

LEMMA StopRunTypes ==
    ASSUME Types, Starts, StopRun
    PROVE  Types' /\ Starts' /\ Grows
<1>1. PICK o : Turns(o, now - Grace)
  BY StopRunFacts
<1>2. WindowTypes' /\ Starts' /\ Grows
  BY <1>1, WindowsTurn, TurnsGrows DEF Types
<1>3. RequestTypes' /\ RunTypes' /\ StoreTypes'
  BY <1>2, RequestFrame, StopRunFacts DEF Types, StoreTypes, RunTypes, Grows
<1> QED
  BY <1>2, <1>3 DEF Types

LEMMA WriteFailsTypes ==
    ASSUME Types, Starts, WriteFails
    PROVE  Types' /\ Starts' /\ Grows
<1>1. WindowTypes' /\ Starts' /\ Grows
  BY WriteFailsFacts, StillTypes
<1>2. RequestTypes' /\ RunTypes'
  BY <1>1, RequestFrame, WriteFailsFacts DEF Types, RunTypes
<1>3. delayed' \subseteq Snapshots
  BY WriteFailsFacts, RunFacts DEF Types, StoreTypes
<1>4. StoreTypes'
  BY <1>3, WriteFailsFacts DEF Types, StoreTypes
<1> QED
  BY <1>1, <1>2, <1>4 DEF Types

LEMMA FlushForgetTypes ==
    ASSUME Types, Starts, FlushForget
    PROVE  Types' /\ Starts' /\ Grows
<1>1. Grows /\ Windows' = Windows /\ win' = win /\ latest' = latest
  BY FlushForgetFacts, StillGrows DEF Types, Windows
<1>2. pending' \subseteq pending
  BY FlushForgetFacts
<1>3. Cardinality(pending') <= MaxPending
  <2>1. /\ Cardinality(pending) <= MaxPending /\ Cardinality(pending) \in Nat
        /\ IsFiniteSet(pending) /\ MaxPending \in Nat
    BY PendingFinite, BoundsAssumption DEF Types, WindowTypes
  <2>2. Cardinality(pending') <= Cardinality(pending) /\ Cardinality(pending') \in Nat
    BY <1>2, <2>1, FS_Subset, FS_CardinalityType
  <2> QED
    BY <2>1, <2>2
<1>4. WindowTypes' /\ Starts'
  BY <1>1, <1>2, <1>3, FlushForgetFacts DEF Types, WindowTypes, Starts
<1>5. RequestTypes' /\ RunTypes' /\ StoreTypes'
  BY <1>1, RequestFrame, FlushForgetFacts DEF Types, RunTypes, StoreTypes
<1> QED
  BY <1>1, <1>4, <1>5 DEF Types

-----------------------------------------------------------------------------
(* Stored rows *)

LEMMA SentFacts ==
    ASSUME Types
    PROVE  /\ \A s \in Sent : /\ s \in Snapshots /\ s.start \in Minutes /\ s.start \in Nat
                              /\ s.reqs \in SUBSET Requests
           /\ fl.snap \subseteq Sent /\ delayed \subseteq Sent
           /\ \A m \in Minutes : rows[m] \in SUBSET Requests
<1>1. Sent \subseteq Snapshots
  BY RunFacts DEF Types, StoreTypes, Sent
<1> QED
  BY <1>1, SnapshotFacts DEF Types, StoreTypes, Sent

LEMMA ComparableSwaps ==
    \A S, T : Comparable(S, T) => Comparable(T, S)
  BY DEF Comparable

(* Writing takes a row to what was read of its minute, or leaves it. *)
LEMMA StoredFacts ==
    ASSUME Types, Chains, FlushShape, NEW m \in Minutes
    PROVE  /\ Stored(m) = rows[m] \/ \E s \in fl.snap : s.start = m /\ Stored(m) = s.reqs
           /\ rows[m] \subseteq Stored(m) /\ Stored(m) \in SUBSET Requests
           /\ \A s \in fl.snap : s.start = m => s.reqs \subseteq Stored(m)
<1> DEFINE mine == {s \in fl.snap : s.start = m}
<1>0. rows[m] \in SUBSET Requests
  BY SentFacts
<1>1. CASE mine = {}
  <2>1. Stored(m) = rows[m]
    BY <1>1 DEF Stored
  <2> QED
    BY <1>0, <1>1, <2>1
<1>2. CASE mine # {}
  <2> DEFINE t == CHOOSE s \in mine : TRUE
  <2>1. t \in mine
    BY <1>2
  <2>2. Stored(m) = Upsert(rows[m], t.reqs)
    BY <1>2 DEF Stored
  <2> HIDE DEF t
  <2>3. t \in fl.snap /\ t.start = m /\ t \in Sent /\ t.reqs \in SUBSET Requests
    BY <2>1, SentFacts
  <2>4. Comparable(rows[m], t.reqs)
    BY <2>3, ComparableSwaps DEF Chains
  <2>5. /\ Stored(m) \in {rows[m], t.reqs}
        /\ rows[m] \subseteq Stored(m) /\ t.reqs \subseteq Stored(m)
    BY <1>0, <2>2, <2>3, <2>4, UpsertKeeps
  <2>6. \A s \in fl.snap : s.start = m => s = t
    BY <2>3 DEF FlushShape
  <2> QED
    BY <1>0, <2>3, <2>5, <2>6
<1> QED
  BY <1>1, <1>2

LEMMA WriteMinutesTypes ==
    ASSUME Types, Starts, Chains, FlushShape, WriteMinutes
    PROVE  Types' /\ Starts' /\ Grows
<1>1. WindowTypes' /\ Starts' /\ Grows
  BY WriteMinutesFacts, StillTypes
<1>2. rows' \in [Minutes -> SUBSET Requests]
  BY WriteMinutesFacts, StoredFacts
<1>3. RequestTypes' /\ RunTypes' /\ StoreTypes'
  BY <1>1, <1>2, RequestFrame, WriteMinutesFacts DEF Types, RunTypes, StoreTypes, Grows
<1> QED
  BY <1>1, <1>3 DEF Types

LEMMA DelayedFacts ==
    ASSUME Types, Chains, NEW s \in delayed, DelayedCommit(s)
    PROVE  /\ s \in Sent /\ s.start \in Minutes /\ delayed' = delayed \ {s}
           /\ rows' \in [Minutes -> SUBSET Requests]
           /\ \A m \in Minutes : m # s.start => rows'[m] = rows[m]
           /\ rows'[s.start] \in {rows[s.start], s.reqs}
           /\ \A m \in Minutes : rows[m] \subseteq rows'[m]
           /\ UNCHANGED <<win, current, pending, latest, lost>>
           /\ UNCHANGED <<req, fl, now, off, after, faults>>
<1>1. /\ s \in Sent /\ s.start \in Minutes /\ s.reqs \in SUBSET Requests
      /\ rows[s.start] \in SUBSET Requests
  BY SentFacts
<1>2. Comparable(rows[s.start], s.reqs)
  BY <1>1, ComparableSwaps DEF Chains
<1> DEFINE u == Upsert(rows[s.start], s.reqs)
<1>3. u \in {rows[s.start], s.reqs} /\ rows[s.start] \subseteq u
  BY <1>1, <1>2, UpsertKeeps
<1>4. /\ rows' = [rows EXCEPT ![s.start] = u] /\ delayed' = delayed \ {s}
      /\ UNCHANGED <<win, current, pending, latest, lost>>
      /\ UNCHANGED <<req, fl, now, off, after, faults>>
  BY DEF DelayedCommit, collector
<1> HIDE DEF u
<1>5. rows \in [Minutes -> SUBSET Requests]
  BY DEF Types, StoreTypes
<1>6. /\ \A m \in Minutes : m # s.start => rows'[m] = rows[m]
      /\ rows'[s.start] = u
  BY <1>1, <1>4, <1>5
<1>7. rows' \in [Minutes -> SUBSET Requests]
  BY <1>1, <1>3, <1>4, <1>5
<1>8. \A m \in Minutes : rows[m] \subseteq rows'[m]
  BY <1>3, <1>6
<1> QED
  BY <1>1, <1>3, <1>4, <1>6, <1>7, <1>8

LEMMA DelayedTypes ==
    ASSUME Types, Starts, Chains, NEW s \in delayed, DelayedCommit(s)
    PROVE  Types' /\ Starts' /\ Grows
<1>1. WindowTypes' /\ Starts' /\ Grows
  BY DelayedFacts, StillTypes
<1>2. delayed' \subseteq Snapshots
  BY DelayedFacts DEF Types, StoreTypes
<1>3. RequestTypes' /\ RunTypes' /\ StoreTypes'
  BY <1>1, <1>2, RequestFrame, RunFrame, DelayedFacts DEF Types, StoreTypes
<1> QED
  BY <1>1, <1>3 DEF Types

-----------------------------------------------------------------------------
(* Chains: nothing new is sent or stored. *)
LEMMA ChainsFrame ==
    ASSUME Types, Starts, Chains, Grows, rows' = rows, Sent' \subseteq Sent,
           latest' \in Int, latest <= latest',
           \A i \in Windows' \ Windows : win'[i].start \in Minutes /\ win'[i].start > latest
    PROVE  Chains'
<1>1. latest \in Int /\ \A s \in Sent : s.start \in Minutes /\ s.start \in Nat /\ s.start <= latest
  BY WindowFacts, SentFacts DEF Types, Chains
<1>2. Minutes \subseteq Nat
  BY MinutesFacts
<1>3. \A s \in Sent' : s.start <= latest'
  BY <1>1
<1>4. \A m \in Minutes : m > latest' => rows'[m] = {}
  <2> SUFFICES ASSUME NEW m \in Minutes, m > latest' PROVE rows[m] = {}
    OBVIOUS
  <2>1. m > latest
    BY <1>1, <1>2
  <2> QED
    BY <2>1 DEF Chains
<1>5. \A i \in Windows : win'[i].start = win[i].start /\ win[i].reqs \subseteq win'[i].reqs
  BY DEF Grows
<1>6. \A i \in Windows' : rows'[win'[i].start] \subseteq win'[i].reqs
  <2> SUFFICES ASSUME NEW i \in Windows' PROVE rows[win'[i].start] \subseteq win'[i].reqs
    OBVIOUS
  <2>1. CASE i \in Windows
    BY <1>5, <2>1 DEF Chains
  <2>2. CASE i \notin Windows
    BY <2>2 DEF Chains
  <2> QED
    BY <2>1, <2>2
<1>7. \A i \in Windows' : \A s \in Sent' :
        s.start = win'[i].start => s.reqs \subseteq win'[i].reqs
  <2> SUFFICES ASSUME NEW i \in Windows', NEW s \in Sent, s.start = win'[i].start
               PROVE  s.reqs \subseteq win'[i].reqs
    OBVIOUS
  <2>1. CASE i \in Windows
    BY <1>5, <2>1 DEF Chains
  <2>2. CASE i \notin Windows
    <3>1. s.start > latest /\ s.start <= latest /\ s.start \in Nat
      BY <1>1, <2>2
    <3> QED
      BY <1>1, <3>1
  <2> QED
    BY <2>1, <2>2
<1>8. /\ \A s \in Sent' : Comparable(s.reqs, rows'[s.start])
      /\ \A s, t \in Sent' : s.start = t.start => Comparable(s.reqs, t.reqs)
  BY DEF Chains
<1> QED
  BY <1>3, <1>4, <1>6, <1>7, <1>8 DEF Chains

LEMMA ChainsTurn ==
    ASSUME Types, Starts, Chains, NEW o, NEW at, Turns(o, at), rows' = rows, Sent' \subseteq Sent
    PROVE  Chains'
<1>1. Grows /\ WindowTypes' /\ Len(win) \in Nat /\ latest \in Int
  BY TurnsGrows, WindowsTurn, WindowFacts DEF Types
<1>2. /\ Len(win') \in {Len(win), Len(win) + 1}
      /\ Len(win') = Len(win) => latest' = latest
      /\ Len(win') > Len(win) => /\ latest' > latest /\ latest' \in Minutes
                                 /\ win'[Len(win')].start = latest'
  BY DEF Turns
<1>3. CASE Len(win') = Len(win)
  <2>1. Windows' = Windows /\ latest' = latest
    BY <1>2, <1>3 DEF Windows
  <2>2. latest' \in Int /\ latest <= latest'
    BY <1>1, <2>1
  <2> QED
    BY <1>1, <2>1, <2>2, ChainsFrame
<1>4. CASE Len(win') = Len(win) + 1
  <2>1. Windows' \ Windows = {Len(win')} /\ Len(win') > Len(win)
    BY <1>1, <1>4 DEF Windows
  <2>2. latest' \in Minutes /\ latest' > latest /\ win'[Len(win')].start = latest'
    BY <1>2, <2>1
  <2>3. latest' \in Int /\ latest <= latest'
    BY <1>1, <2>2, MinutesFacts
  <2> QED
    BY <1>1, <2>1, <2>2, <2>3, ChainsFrame
<1> QED
  BY <1>2, <1>3, <1>4

(* The windows stay, up to the requests counted in them. *)
LEMMA ChainsStill ==
    ASSUME Types, Starts, Chains, Grows, Windows' = Windows, latest' = latest,
           rows' = rows, Sent' \subseteq Sent
    PROVE  Chains'
<1>1. latest \in Int /\ latest <= latest
  BY WindowFacts DEF Types
<1> QED
  BY <1>1, ChainsFrame

LEMMA FlushReadChains ==
    ASSUME Types, Starts, Chains, FlushShape, FlushRead
    PROVE  Chains'
<1>1. PICK w, snap : Reads(w, snap)
  BY FlushReadFacts
<1>2. /\ win' = win /\ latest' = latest /\ rows' = rows /\ delayed' = delayed
      /\ Windows' = Windows
  BY FlushReadFacts DEF Windows
<1>3. w \in Windows /\ WindowTypes
  BY <1>1 DEF Types, RunTypes, FlushShape, Reads
<1> DEFINE new == [start |-> win[w].start, reqs |-> win[w].reqs]
<1>4. new.start = win[w].start /\ new.reqs = win[w].reqs
  OBVIOUS
<1>5. fl'.snap \subseteq fl.snap \cup {new}
  BY <1>1 DEF Reads
<1> HIDE DEF new
<1>6. Sent' \subseteq Sent \cup {new}
  BY <1>2, <1>5 DEF Sent
<1>7. new.start <= latest /\ new.start \in Minutes
  BY <1>3, <1>4, WindowFacts DEF Starts
<1>8. \A i \in Windows : win[i].start = new.start => i = w
  <2> SUFFICES ASSUME NEW i \in Windows, win[i].start = win[w].start, i # w PROVE FALSE
    BY <1>4
  <2>1. i \in Nat /\ w \in Nat /\ win[i].start \in Nat
    BY <1>3, WindowFacts
  <2>2. i < w \/ w < i
    BY <2>1
  <2>3. win[i].start < win[i].start
    BY <1>3, <2>2 DEF Starts
  <2> QED
    BY <2>1, <2>3
<1>9. \A s \in Sent : s.start = new.start => s.reqs \subseteq new.reqs
  BY <1>3, <1>4 DEF Chains
<1>10. rows[new.start] \subseteq new.reqs
  BY <1>3, <1>4 DEF Chains
<1>11. \A s \in Sent' : s.start <= latest'
  BY <1>2, <1>6, <1>7 DEF Chains
<1>12. \A i \in Windows' : \A s \in Sent' :
         s.start = win'[i].start => s.reqs \subseteq win'[i].reqs
  <2> SUFFICES ASSUME NEW i \in Windows, NEW s \in Sent', s.start = win[i].start
               PROVE  s.reqs \subseteq win[i].reqs
    BY <1>2
  <2>1. CASE s \in Sent
    BY <2>1 DEF Chains
  <2>2. CASE s = new
    BY <1>4, <1>8, <2>2
  <2> QED
    BY <1>6, <2>1, <2>2
<1>13. \A s \in Sent' : Comparable(s.reqs, rows'[s.start])
  BY <1>2, <1>6, <1>10 DEF Chains, Comparable
<1>14. \A s, t \in Sent' : s.start = t.start => Comparable(s.reqs, t.reqs)
  <2> SUFFICES ASSUME NEW s \in Sent', NEW t \in Sent', s.start = t.start
               PROVE  Comparable(s.reqs, t.reqs)
    OBVIOUS
  <2>1. CASE s \in Sent /\ t \in Sent
    BY <2>1 DEF Chains
  <2>2. CASE s = new \/ t = new
    BY <1>6, <1>9, <2>2 DEF Comparable
  <2> QED
    BY <1>6, <2>1, <2>2
<1> QED
  BY <1>2, <1>11, <1>12, <1>13, <1>14 DEF Chains

(* Every row becomes something that was sent, or stays. *)
LEMMA ChainsStore ==
    ASSUME Types, Chains, win' = win, latest' = latest, Sent' \subseteq Sent,
           \A m \in Minutes : \/ rows'[m] = rows[m]
                              \/ \E s \in Sent : s.start = m /\ rows'[m] = s.reqs
    PROVE  Chains'
<1>1. Windows' = Windows
  BY DEF Windows
<1>2. /\ latest \in Int /\ Minutes \subseteq Nat
      /\ \A i \in Windows : win[i].start \in Minutes
      /\ \A s \in Sent : s.start \in Minutes /\ s.start <= latest
  BY MinutesFacts, WindowFacts, SentFacts DEF Types, Chains
<1>3. \A m \in Minutes : m > latest' => rows'[m] = {}
  <2> SUFFICES ASSUME NEW m \in Minutes, m > latest PROVE rows'[m] = {}
    OBVIOUS
  <2>1. ~ \E s \in Sent : s.start = m
    BY <1>2
  <2> QED
    BY <2>1 DEF Chains
<1>4. \A i \in Windows' : rows'[win'[i].start] \subseteq win'[i].reqs
  <2> SUFFICES ASSUME NEW i \in Windows PROVE rows'[win[i].start] \subseteq win[i].reqs
    BY <1>1
  <2>1. win[i].start \in Minutes
    BY <1>2
  <2>2. CASE rows'[win[i].start] = rows[win[i].start]
    BY <2>2 DEF Chains
  <2>3. CASE \E s \in Sent : s.start = win[i].start /\ rows'[win[i].start] = s.reqs
    BY <2>3 DEF Chains
  <2> QED
    BY <2>1, <2>2, <2>3
<1>5. \A s \in Sent' : Comparable(s.reqs, rows'[s.start])
  <2> SUFFICES ASSUME NEW s \in Sent PROVE Comparable(s.reqs, rows'[s.start])
    OBVIOUS
  <2>1. s.start \in Minutes
    BY <1>2
  <2>2. CASE rows'[s.start] = rows[s.start]
    BY <2>2 DEF Chains
  <2>3. CASE \E t \in Sent : t.start = s.start /\ rows'[s.start] = t.reqs
    BY <2>3 DEF Chains
  <2> QED
    BY <2>1, <2>2, <2>3
<1> QED
  BY <1>1, <1>3, <1>4, <1>5 DEF Chains

LEMMA WriteMinutesChains ==
    ASSUME Types, Chains, FlushShape, WriteMinutes
    PROVE  Chains'
<1>1. win' = win /\ latest' = latest /\ Sent' = Sent
  BY WriteMinutesFacts DEF Sent
<1>2. fl.snap \subseteq Sent /\ \A m \in Minutes : rows'[m] = Stored(m)
  BY SentFacts, WriteMinutesFacts
<1>3. \A m \in Minutes : \/ rows'[m] = rows[m]
                         \/ \E s \in Sent : s.start = m /\ rows'[m] = s.reqs
  BY <1>2, StoredFacts
<1> QED
  BY <1>1, <1>3, ChainsStore

LEMMA DelayedChains ==
    ASSUME Types, Chains, NEW s \in delayed, DelayedCommit(s)
    PROVE  Chains'
<1>1. win' = win /\ latest' = latest /\ Sent' \subseteq Sent
  BY DelayedFacts DEF Sent
<1>2. \A m \in Minutes : \/ rows'[m] = rows[m]
                         \/ \E t \in Sent : t.start = m /\ rows'[m] = t.reqs
  BY DelayedFacts
<1> QED
  BY <1>1, <1>2, ChainsStore

-----------------------------------------------------------------------------
(* Counts and LostBound *)

LEMMA CountsTurn ==
    ASSUME Types, Counts, NEW o, NEW at, Turns(o, at),
           \A q \in Requests : req[q].pc = "counted" => req'[q].pc = "counted"
    PROVE  Counts'
<1>1. /\ \A i \in Windows : win'[i].reqs = win[i].reqs /\ win[i].reqs \in SUBSET Requests
      /\ Len(win') \in {Len(win), Len(win) + 1} /\ Len(win) \in Nat
      /\ Len(win') > Len(win) => win'[Len(win')].reqs = {}
  BY WindowFacts DEF Types, Turns
<1>2. \A i \in Windows' \ Windows : win'[i].reqs = {}
  BY <1>1 DEF Windows
<1>3. \A i \in Windows' : \A r \in win'[i].reqs : req'[r].pc = "counted"
  BY <1>1, <1>2 DEF Counts
<1>4. \A i, j \in Windows' : i # j => win'[i].reqs \cap win'[j].reqs = {}
  BY <1>1, <1>2 DEF Counts
<1> QED
  BY <1>3, <1>4 DEF Counts

LEMMA CountsStill ==
    ASSUME Types, Counts, win' = win,
           \A q \in Requests : req[q].pc = "counted" => req'[q].pc = "counted"
    PROVE  Counts'
<1>1. Windows' = Windows /\ \A i \in Windows : win[i].reqs \in SUBSET Requests
  BY WindowFacts DEF Types, Windows
<1> QED
  BY <1>1 DEF Counts

LEMMA CountedCounts ==
    ASSUME Types, Counts, NEW r \in Requests, NEW c, Counted(r, c)
    PROVE  Counts'
<1>1. /\ Windows' = Windows /\ c \in Windows /\ req[r].pc = "record"
      /\ \A i \in Windows : /\ win'[i].reqs = IF i = c THEN win[i].reqs \cup {r} ELSE win[i].reqs
                            /\ win[i].reqs \in SUBSET Requests
      /\ \A q \in Requests : q # r => req'[q] = req[q]
      /\ req'[r].pc = "counted"
  BY WindowFacts DEF Types, Counted, Ends
<1>2. \A i \in Windows : r \notin win[i].reqs
  BY <1>1 DEF Counts
<1>3. \A i \in Windows : \A q \in win'[i].reqs : req'[q].pc = "counted"
  <2> SUFFICES ASSUME NEW i \in Windows, NEW q \in win'[i].reqs PROVE req'[q].pc = "counted"
    OBVIOUS
  <2>1. CASE q = r
    BY <1>1, <2>1
  <2>2. CASE q # r
    <3>0. /\ win'[i].reqs = IF i = c THEN win[i].reqs \cup {r} ELSE win[i].reqs
          /\ win[i].reqs \in SUBSET Requests
      BY <1>1
    <3>1. q \in win[i].reqs /\ q \in Requests
      BY <2>2, <3>0
    <3> QED
      BY <1>1, <2>2, <3>1 DEF Counts
  <2> QED
    BY <2>1, <2>2
<1>4. \A i, j \in Windows : i # j => win'[i].reqs \cap win'[j].reqs = {}
  <2> SUFFICES ASSUME NEW i \in Windows, NEW j \in Windows, i # j
               PROVE  win'[i].reqs \cap win'[j].reqs = {}
    OBVIOUS
  <2>1. win[i].reqs \cap win[j].reqs = {} /\ r \notin win[i].reqs /\ r \notin win[j].reqs
    BY <1>2 DEF Counts
  <2>2. /\ win'[i].reqs = IF i = c THEN win[i].reqs \cup {r} ELSE win[i].reqs
        /\ win'[j].reqs = IF j = c THEN win[j].reqs \cup {r} ELSE win[j].reqs
    BY <1>1
  <2> QED
    BY <2>1, <2>2
<1> QED
  BY <1>1, <1>3, <1>4 DEF Counts

LEMMA GoneFacts == Gone \in SUBSET Requests /\ Gone' \in SUBSET Requests
  BY DEF Gone, Refused

LEMMA LostTurn ==
    ASSUME Types, Counts, LostBound, NEW o, NEW at, Turns(o, at), Refused \subseteq Refused'
    PROVE  LostBound'
<1>1. /\ WindowTypes /\ Windows \subseteq Windows'
      /\ \A i \in Windows : win'[i].reqs = win[i].reqs /\ win[i].reqs \in SUBSET Requests
      /\ HeldWindows' = (HeldWindows \ {o}) \cup (Windows' \ Windows)
      /\ o \in pending \cup {NoWindow} /\ lost' = lost + Dropped(o)
      /\ pending \subseteq Windows /\ pending \subseteq HeldWindows
  BY TurnsGrows, WindowFacts DEF Types, Turns, Grows, WindowTypes
<1>2. Gone \subseteq Gone'
  BY <1>1 DEF Gone
<1>3. /\ Cardinality(Gone) \in Nat /\ Cardinality(Gone') \in Nat
      /\ Cardinality(Gone) <= Cardinality(Gone') /\ lost \in Nat
  BY <1>1, <1>2, GoneFacts, RequestsFinite, SmallerSet DEF WindowTypes
<1>4. CASE o = NoWindow
  BY <1>1, <1>3, <1>4 DEF LostBound, Dropped
<1>5. CASE o # NoWindow
  <2> DEFINE X == win[o].reqs
  <2>1. /\ o \in Windows /\ o \in HeldWindows /\ o \in Windows' /\ o \notin HeldWindows'
        /\ X \in SUBSET Requests /\ win'[o].reqs = X
    BY <1>1, <1>5
  <2>2. X \subseteq Gone'
    BY <2>1 DEF Gone
  <2>3. Gone \cap X = {}
    <3> SUFFICES ASSUME NEW r \in Gone, r \in X PROVE FALSE
      OBVIOUS
    <3>1. req[r].pc = "counted"
      BY <2>1 DEF Counts
    <3>2. PICK w \in Windows \ HeldWindows : r \in win[w].reqs
      BY <3>1 DEF Gone, Refused
    <3>3. w # o /\ win[w].reqs \cap win[o].reqs = {}
      BY <2>1, <3>2 DEF Counts
    <3> QED
      BY <3>2, <3>3
  <2>4. Cardinality(Gone \cup X) = Cardinality(Gone) + Cardinality(X)
    BY <2>1, <2>3, GoneFacts, DisjointSum
  <2>5. Gone \cup X \in SUBSET Gone'
    BY <1>2, <2>2
  <2>6. Cardinality(Gone \cup X) <= Cardinality(Gone')
    BY <2>5, GoneFacts, SmallerSet
  <2>7. Cardinality(X) \in Nat /\ lost' = lost + Cardinality(X)
    BY <1>1, <1>5, <2>1, RequestsFinite DEF Dropped
  <2> HIDE DEF X
  <2> QED
    BY <1>3, <2>4, <2>6, <2>7 DEF LostBound
<1> QED
  BY <1>4, <1>5

LEMMA LostStill ==
    ASSUME Types, LostBound, lost' = lost, Gone \subseteq Gone'
    PROVE  LostBound'
<1>1. /\ Cardinality(Gone) \in Nat /\ Cardinality(Gone') \in Nat
      /\ Cardinality(Gone) <= Cardinality(Gone') /\ lost \in Nat
  BY GoneFacts, RequestsFinite, SmallerSet DEF Types, WindowTypes
<1> QED
  BY <1>1 DEF LostBound

LEMMA RefusedLost ==
    ASSUME Types, Counts, LostBound, NEW r \in Requests, req[r].pc = "load",
           Ends(r, "refused"), lost' = lost + 1, UNCHANGED <<win, current, pending, latest>>
    PROVE  LostBound'
<1>1. /\ Windows' = Windows /\ HeldWindows' = HeldWindows
      /\ \A i \in Windows : win[i].reqs \in SUBSET Requests
      /\ \A q \in Requests : q # r => req'[q] = req[q]
      /\ req'[r].pc = "refused"
  BY WindowFacts DEF Types, Windows, HeldWindows, Ends
<1>2. r \notin Gone
  BY <1>1 DEF Gone, Refused, Counts
<1>3. Gone \cup {r} \subseteq Gone'
  BY <1>1 DEF Gone, Refused
<1>4. Cardinality(Gone \cup {r}) = Cardinality(Gone) + 1
  BY <1>2, GoneFacts, RequestsFinite, FS_AddElement
<1>5. Cardinality(Gone \cup {r}) <= Cardinality(Gone')
  BY <1>3, GoneFacts, SmallerSet
<1>6. Cardinality(Gone) \in Nat /\ Cardinality(Gone') \in Nat /\ lost \in Nat
  BY GoneFacts, RequestsFinite DEF Types, WindowTypes
<1> QED
  BY <1>4, <1>5, <1>6 DEF LostBound

LEMMA CountedLost ==
    ASSUME Types, LostBound, NEW r \in Requests, NEW c, Counted(r, c)
    PROVE  LostBound'
<1>1. /\ Windows' = Windows /\ HeldWindows' = HeldWindows /\ req[r].pc = "record"
      /\ \A i \in Windows : win'[i].reqs = IF i = c THEN win[i].reqs \cup {r} ELSE win[i].reqs
      /\ \A q \in Requests : q # r => req'[q] = req[q]
      /\ lost' = lost
  BY DEF Counted, Ends, HeldWindows
<1>2. Refused \subseteq Refused'
  BY <1>1 DEF Refused
<1>3. Gone \subseteq Gone'
  BY <1>1, <1>2 DEF Gone
<1> QED
  BY <1>1, <1>3, LostStill

LEMMA ForgetLost ==
    ASSUME Types, LostBound, FlushForget
    PROVE  LostBound'
<1>1. /\ Windows' = Windows /\ HeldWindows' \subseteq HeldWindows
      /\ win' = win /\ req' = req /\ lost' = lost
  BY FlushForgetFacts DEF Windows, HeldWindows
<1>2. Gone \subseteq Gone'
  BY <1>1 DEF Gone, Refused
<1> QED
  BY <1>1, <1>2, LostStill

-----------------------------------------------------------------------------
(* FlushShape *)

LEMMA ShapeFrame ==
    ASSUME RunTypes, FlushShape, Grows, fl' = fl
    PROVE  FlushShape'
<1>1. \A w \in fl.todo : w \in Windows /\ win'[w].start = win[w].start
  BY DEF RunTypes, FlushShape, Grows
<1> QED
  BY <1>1 DEF FlushShape

LEMMA FlushBeginShape ==
    ASSUME Types, FlushBegin
    PROVE  FlushShape'
<1>1. /\ fl'.pc = IF HeldWindows' = {} THEN "forget" ELSE "read"
      /\ fl'.todo = HeldWindows' /\ fl'.windows = HeldWindows' /\ fl'.snap = {}
  BY FlushBeginFacts
<1> QED
  BY <1>1 DEF FlushShape

LEMMA FlushReadShape ==
    ASSUME Types, Starts, FlushShape, FlushRead
    PROVE  FlushShape'
<1>1. PICK w, snap : Reads(w, snap)
  BY FlushReadFacts
<1>2. /\ win' = win /\ fl.pc = "read" /\ w \in fl.todo
      /\ fl'.pc = IF fl.todo # {w} THEN "read" ELSE IF snap = {} THEN "forget" ELSE "write"
      /\ fl'.todo = fl.todo \ {w} /\ fl'.snap = snap /\ fl'.windows = fl.windows
  BY <1>1, FlushReadFacts DEF Reads
<1> DEFINE new == [start |-> win[w].start, reqs |-> win[w].reqs]
<1>3. new.start = win[w].start /\ snap \subseteq fl.snap \cup {new}
  BY <1>1 DEF Reads
<1> HIDE DEF new
<1>4. \A s \in fl.snap : s.start # new.start
  BY <1>2, <1>3 DEF FlushShape
<1>5. \A v \in fl.todo : v # w => win[v].start # new.start
  <2> SUFFICES ASSUME NEW v \in fl.todo, v # w, win[v].start = win[w].start PROVE FALSE
    BY <1>3
  <2>1. v \in Windows /\ w \in Windows
    BY <1>2 DEF Types, RunTypes, FlushShape
  <2>2. v \in Nat /\ w \in Nat /\ win[v].start \in Nat
    BY <2>1, WindowFacts DEF Types
  <2>3. v < w \/ w < v
    BY <2>2
  <2>4. win[v].start < win[v].start
    BY <2>1, <2>3 DEF Starts
  <2> QED
    BY <2>2, <2>4
<1>6. \A s, t \in fl'.snap : s.start = t.start => s = t
  BY <1>2, <1>3, <1>4 DEF FlushShape
<1>7. \A s \in fl'.snap : \A v \in fl'.todo : s.start # win'[v].start
  BY <1>2, <1>3, <1>5 DEF FlushShape
<1>8. fl'.pc \in {"read", "forget", "write"} /\ (fl'.pc # "read" => fl'.todo = {})
  BY <1>2
<1>9. fl'.todo \subseteq fl'.windows
  BY <1>2 DEF FlushShape
<1> QED
  BY <1>6, <1>7, <1>8, <1>9 DEF FlushShape

LEMMA WriteMinutesShape ==
    ASSUME Types, FlushShape, WriteMinutes
    PROVE  FlushShape'
  BY WriteMinutesFacts DEF FlushShape

LEMMA WaitingShape ==
    ASSUME fl'.todo = {}, fl'.windows = {}, fl'.snap = {}, fl'.pc = "stopped" => fl'.final
    PROVE  FlushShape'
  BY DEF FlushShape

LEMMA StopRunShape ==
    ASSUME Types, FlushShape, StopRun
    PROVE  FlushShape'
<1>1. fl'.todo = {} /\ fl'.windows = {} /\ fl'.snap = {} /\ fl'.pc = "final"
  BY StopRunFacts DEF FlushShape
<1> QED
  BY <1>1 DEF FlushShape

-----------------------------------------------------------------------------
(* Order and Clock *)

(* The clock and the stop stay, and no request enters Record. *)
LEMMA OrderStill ==
    ASSUME Types, Order, Grows, fl'.final = fl.final, after' = after,
           pending' \subseteq pending,
           \A w \in pending' : win'[w].closedAt = win[w].closedAt,
           \A q \in Requests : req'[q].pc = "record" =>
               req[q].pc = "record" /\ req'[q].t = req[q].t /\ req'[q].w = req[q].w
    PROVE  Order'
<1>1. /\ \A i \in Windows : win'[i].start = win[i].start
      /\ \A q \in Requests : req[q].pc = "record" => req[q].w \in Windows
      /\ pending \subseteq Windows
  BY DEF Types, RequestTypes, WindowTypes, Grows
<1>2. ~Stopping' => after' = {}
  BY DEF Order, Stopping
<1>3. ~Stopping' => \A w \in pending' :
        win'[w].closedAt \in Nat /\ win'[w].start < Minute(win'[w].closedAt)
  BY <1>1 DEF Order, Stopping
<1>4. \A q \in Requests : req'[q].pc = "record" => Minute(req'[q].t) <= win'[req'[q].w].start
  BY <1>1 DEF Order
<1> QED
  BY <1>2, <1>3, <1>4 DEF Order

(* The current window may be closed, after its minute. *)
LEMMA OrderTurn ==
    ASSUME Types, Order, NEW o, NEW at \in Nat, Turns(o, at), Over(o, at), fl'.final = fl.final
    PROVE  ~Stopping' => \A w \in pending' :
             win'[w].closedAt \in Nat /\ win'[w].start < Minute(win'[w].closedAt)
<1> SUFFICES ASSUME ~Stopping, NEW w \in pending'
             PROVE  win'[w].closedAt \in Nat /\ win'[w].start < Minute(win'[w].closedAt)
  BY DEF Stopping
<1>1. w \in Windows /\ win'[w].start = win[w].start /\ w \in pending \cup {current}
  BY DEF Turns
<1>2. CASE w = current
  BY <1>1, <1>2 DEF Turns, Over
<1>3. CASE w # current
  BY <1>1, <1>3 DEF Turns, Order
<1> QED
  BY <1>2, <1>3

LEMMA EnteringOrder ==
    ASSUME Types, Order, Clock, NEW r \in Requests, NEW w, NEW o, Entering(r, w, o)
    PROVE  Order'
<1>1. /\ Turns(o, Taken(r)) /\ Over(o, Taken(r)) /\ Goes(r, w)
      /\ fl' = fl /\ after' = after /\ Taken(r) \in Nat
  BY TakenFacts DEF Entering, Goes, InRecord
<1>2. ~Stopping' => \A v \in pending' :
             win'[v].closedAt \in Nat /\ win'[v].start < Minute(win'[v].closedAt)
  BY <1>1, OrderTurn
<1>3. ~Stopping' => after' = {}
  BY <1>1 DEF Order, Stopping
<1>4. \A q \in Requests : req'[q].pc = "record" => Minute(req'[q].t) <= win'[req'[q].w].start
  <2> SUFFICES ASSUME NEW q \in Requests, req'[q].pc = "record"
               PROVE  Minute(req'[q].t) <= win'[req'[q].w].start
    OBVIOUS
  <2>1. CASE q = r
    BY <1>1, <2>1 DEF Goes
  <2>2. CASE q # r
    <3>1. req'[q] = req[q] /\ req[q].w \in Windows
      BY <1>1, <2>2 DEF Goes, Types, RequestTypes
    <3>2. win'[req[q].w].start = win[req[q].w].start
      BY <1>1, <3>1 DEF Turns
    <3> QED
      BY <3>1, <3>2 DEF Order
  <2> QED
    BY <2>1, <2>2
<1> QED
  BY <1>2, <1>3, <1>4 DEF Order

LEMMA EndingOrder ==
    ASSUME Types, Order, Grows, NEW r \in Requests, NEW p \in {"counted", "refused"},
           Ends(r, p), fl' = fl, pending' = pending,
           after' = IF Stopping THEN after \cup {r} ELSE after,
           \A w \in Windows : win'[w].closedAt = win[w].closedAt
    PROVE  Order'
<1>1. /\ \A i \in Windows : win'[i].start = win[i].start
      /\ \A q \in Requests : req[q].pc = "record" => req[q].w \in Windows
      /\ pending \subseteq Windows
  BY DEF Types, RequestTypes, WindowTypes, Grows
<1>2. ~Stopping' => after' = {}
  BY DEF Order, Stopping
<1>3. ~Stopping' => \A w \in pending' :
        win'[w].closedAt \in Nat /\ win'[w].start < Minute(win'[w].closedAt)
  BY <1>1 DEF Order, Stopping
<1>4. \A q \in Requests : req'[q].pc = "record" => Minute(req'[q].t) <= win'[req'[q].w].start
  BY <1>1 DEF Order, Ends
<1> QED
  BY <1>2, <1>3, <1>4 DEF Order

LEMMA FlushBeginOrder ==
    ASSUME Types, Order, FlushBegin
    PROVE  Order'
<1>1. PICK o : Turns(o, now) /\ Over(o, now)
  BY FlushBeginFacts
<1>2. fl'.final = fl.final /\ req' = req /\ after' = after /\ now \in Nat
  BY FlushBeginFacts, BoundsAssumption DEF Types, StoreTypes
<1>3. ~Stopping' => \A v \in pending' :
             win'[v].closedAt \in Nat /\ win'[v].start < Minute(win'[v].closedAt)
  BY <1>1, <1>2, OrderTurn
<1>4. \A q \in Requests : req[q].pc = "record" => win'[req[q].w].start = win[req[q].w].start
  BY <1>1 DEF Turns, Types, RequestTypes
<1> QED
  BY <1>2, <1>3, <1>4 DEF Order, Stopping

LEMMA StopRunOrder ==
    ASSUME Types, Order, StopRun
    PROVE  Order'
<1>1. PICK o : Turns(o, now - Grace)
  BY StopRunFacts
<1>2. fl'.final = TRUE /\ req' = req
  BY StopRunFacts
<1>4. \A q \in Requests : req[q].pc = "record" => win'[req[q].w].start = win[req[q].w].start
  BY <1>1 DEF Turns, Types, RequestTypes
<1> QED
  BY <1>2, <1>4 DEF Order, Stopping

(* Nothing is counted sooner or later than before. *)
LEMMA ClockStill ==
    ASSUME Clock, now' = now, off' = off, fl'.now \in {fl.now, now, 0}, now \in Nat,
           \A q \in Requests : /\ req'[q].pc = "serving" => req[q].pc = "serving" /\ req'[q] = req[q]
                               /\ req'[q].pc \in {"load", "record"} =>
                                    /\ req[q].pc \in {"load", "record"}
                                    /\ req'[q].t = req[q].t /\ req'[q].age = req[q].age
    PROVE  Clock'
<1>1. \A q \in Requests : req'[q].pc = "serving" => req'[q].age = 0
  BY DEF Clock
<1>2. ~stepped' => \A q \in Requests : InRecord(q)' => req'[q].t + req'[q].age = now'
  BY DEF Clock, InRecord
<1>3. fl'.now <= now'
  BY DEF Clock
<1>4. \A q \in Requests : InRecord(q)' => req'[q].t + req'[q].age <= now'
  BY DEF Clock, InRecord
<1> QED
  BY <1>1, <1>2, <1>3, <1>4 DEF Clock

LEMMA FinishClock ==
    ASSUME Types, Clock, NEW r \in Requests, Finish(r)
    PROVE  Clock'
<1>1. /\ req[r].pc = "serving" /\ \A q \in Requests : q # r => req'[q] = req[q]
      /\ req'[r].pc = "load" /\ req'[r].t = Wall /\ req'[r].age = req[r].age
      /\ fl' = fl /\ now' = now /\ off' = off
  BY FinishFacts
<1>2. /\ now \in Nat /\ Wall \in Nat /\ Wall <= now /\ req[r].age = 0
      /\ ~stepped => Wall = now
  BY <1>1, BoundsAssumption DEF Clock, Types, StoreTypes, Wall
<1>3. \A q \in Requests : req'[q].pc = "serving" => req'[q].age = 0
  BY <1>1 DEF Clock
<1>4. \A q \in Requests : InRecord(q)' =>
        /\ req'[q].t + req'[q].age <= now'
        /\ ~stepped' => req'[q].t + req'[q].age = now'
  <2> SUFFICES ASSUME NEW q \in Requests, req'[q].pc \in {"load", "record"}
               PROVE  /\ req'[q].t + req'[q].age <= now
                      /\ ~stepped => req'[q].t + req'[q].age = now
    BY <1>1 DEF InRecord
  <2>1. CASE q = r
    BY <1>1, <1>2, <2>1
  <2>2. CASE q # r
    BY <1>1, <2>2 DEF Clock, InRecord
  <2> QED
    BY <2>1, <2>2
<1> QED
  BY <1>1, <1>3, <1>4 DEF Clock

LEMMA TickClock ==
    ASSUME Types, Clock, Tick
    PROVE  Clock'
<1>1. /\ now' = now + 1 /\ fl' = fl /\ off' = off
      /\ \A r \in Requests :
           /\ req'[r].pc = req[r].pc /\ req'[r].t = req[r].t
           /\ req'[r].age = IF InRecord(r) THEN req[r].age + 1 ELSE req[r].age
  BY TickFacts
<1>2. now \in Nat /\ fl.now \in Nat
  BY RunFacts, BoundsAssumption DEF Types, StoreTypes
<1>3. \A q \in Requests : req'[q].pc = "serving" => req'[q].age = 0
  BY <1>1 DEF Clock, InRecord
<1>4. \A q \in Requests : InRecord(q)' =>
        /\ req'[q].t + req'[q].age <= now'
        /\ ~stepped' => req'[q].t + req'[q].age = now'
  <2> SUFFICES ASSUME NEW q \in Requests, req[q].pc \in {"load", "record"}
               PROVE  /\ req'[q].t + req'[q].age <= now'
                      /\ ~stepped => req'[q].t + req'[q].age = now'
    BY <1>1 DEF InRecord
  <2>1. /\ InRecord(q) /\ req[q].t + req[q].age <= now /\ req[q].t \in Nat
        /\ req[q].age \in Nat /\ (~stepped => req[q].t + req[q].age = now)
    BY RequestFacts DEF Clock, InRecord
  <2> QED
    BY <1>1, <1>2, <2>1
<1>5. fl'.now <= now'
  BY <1>1, <1>2 DEF Clock
<1> QED
  BY <1>3, <1>4, <1>5 DEF Clock

LEMMA StepBackSteps ==
    ASSUME Types, StepBack
    PROVE  stepped'
<1>1. off \in Nat /\ Back \in Nat \ {0} /\ off' = off + Back
  BY BoundsAssumption DEF Types, StoreTypes, StepBack
<1> QED
  BY <1>1

LEMMA StepBackClock ==
    ASSUME Types, Clock, StepBack
    PROVE  Clock'
<1>1. stepped' /\ req' = req /\ fl' = fl /\ now' = now
  BY StepBackSteps DEF StepBack
<1> QED
  BY <1>1 DEF Clock, InRecord

-----------------------------------------------------------------------------
(* RecordHeld *)

(* A request in Record is younger than the grace, so its time is later than
   what a flush calls closed long enough. *)
LEMMA Young ==
    ASSUME Types, Clock, ~stepped, NEW r \in Requests, InRecord(r)
    PROVE  /\ req[r].t <= now /\ req[r].t > now - Grace /\ req[r].t > fl.now - Grace
           /\ now <= req[r].t + MinuteLength
<1>1. /\ req[r].t + req[r].age = now /\ fl.now <= now
  BY DEF Clock
<1>2. req[r].t \in Nat /\ req[r].age \in Nat /\ req[r].age <= MaxDelay
  BY RequestFacts
<1>3. now \in Nat /\ fl.now \in Nat /\ MinuteLength \in Nat
  BY RunFacts, BoundsAssumption DEF Types, StoreTypes
<1> QED
  BY <1>1, <1>2, <1>3, DelayAssumption

(* Until the stop a request in Record is in no window a flush may forget. *)
LEMMA NotForgettable ==
    ASSUME Types, Order, Clock, ~stepped, ~Stopping, NEW r \in Requests,
           req[r].pc = "record", req[r].w \in pending
    PROVE  ~(win[req[r].w].closedAt <= fl.now - Grace)
<1> DEFINE w == req[r].w
<1>1. /\ win[w].closedAt \in Nat /\ win[w].start < Minute(win[w].closedAt)
      /\ Minute(req[r].t) <= win[w].start
  BY DEF Order
<1>2. req[r].t \in Nat /\ Minute(req[r].t) \in Nat /\ win[w].start \in Nat
  BY RequestFacts, WindowFacts DEF Types, WindowTypes
<1>3. Minute(win[w].closedAt) \in Nat
  BY <1>1, MinuteNat
<1> HIDE DEF w
<1>4. Minute(req[r].t) < Minute(win[w].closedAt)
  BY <1>1, <1>2, <1>3
<1>5. req[r].t < win[w].closedAt
  BY <1>1, <1>2, <1>4, MinuteBefore
<1>6. req[r].t > fl.now - Grace
  BY Young DEF InRecord
<1>7. fl.now \in Nat /\ Grace \in Nat
  BY RunFacts, DelayAssumption DEF Types
<1> QED
  BY <1>1, <1>2, <1>5, <1>6, <1>7 DEF w

(* Nor in one that is dropped: a whole minute passed since its minute. *)
LEMMA NotDropped ==
    ASSUME Types, Starts, Order, Clock, ~stepped, NEW o, NEW at \in Nat, at <= now,
           Turns(o, at), Over(o, at), o # NoWindow, NEW r \in Requests, req[r].pc = "record"
    PROVE  req[r].w # o
<1> SUFFICES ASSUME req[r].w = o PROVE FALSE
  OBVIOUS
<1>1. o \in pending /\ o < current /\ o \in Windows /\ current \in Windows
  <2>1. o \in pending /\ o < current /\ WindowTypes
    BY DEF Turns, Types
  <2>2. o \in Windows /\ o \in Nat /\ Len(win) \in Nat
    BY <2>1, WindowFacts DEF WindowTypes
  <2>3. current \in Windows
    BY <2>1, <2>2 DEF WindowTypes, Windows, NoWindow
  <2> QED
    BY <2>1, <2>2, <2>3
<1>2. /\ win[o].start < win[current].start /\ win[current].start < Minute(at)
      /\ Minute(req[r].t) <= win[o].start
  BY <1>1 DEF Starts, Over, Order
<1>3. /\ win[o].start \in Nat /\ win[current].start \in Nat
      /\ Minute(req[r].t) \in Nat /\ req[r].t \in Nat /\ Minute(at) \in Nat
  BY <1>1, WindowFacts, RequestFacts, MinuteNat DEF Types
<1>4. Minute(req[r].t) + 2 <= Minute(at)
  BY <1>2, <1>3
<1>5. req[r].t + MinuteLength < at
  BY <1>3, <1>4, MinuteSkipped
<1>6. now <= req[r].t + MinuteLength
  BY Young DEF InRecord
<1>7. now \in Nat /\ MinuteLength \in Nat
  BY BoundsAssumption DEF Types, StoreTypes
<1> QED
  BY <1>3, <1>5, <1>6, <1>7

LEMMA HeldTurn ==
    ASSUME Types, Starts, Order, Clock, RecordHeld, ~stepped, ~Stopping,
           NEW o, NEW at \in Nat, at <= now, Turns(o, at), Over(o, at),
           NEW r \in Requests, req[r].pc = "record"
    PROVE  req[r].w \in HeldWindows'
<1>1. /\ HeldWindows' = (HeldWindows \ {o}) \cup (Windows' \ Windows)
      /\ req[r].w \in HeldWindows
  BY DEF Turns, RecordHeld
<1>2. req[r].w # o
  <2>1. CASE o = NoWindow
    BY <1>1, <2>1 DEF HeldWindows
  <2>2. CASE o # NoWindow
    BY <2>2, NotDropped
  <2> QED
    BY <2>1, <2>2
<1> QED
  BY <1>1, <1>2

LEMMA EnteringHeld ==
    ASSUME Types, Starts, Order, Clock, RecordHeld,
           NEW r \in Requests, NEW w, NEW o, Entering(r, w, o)
    PROVE  RecordHeld'
<1>1. /\ Turns(o, Taken(r)) /\ Over(o, Taken(r)) /\ Goes(r, w)
      /\ fl' = fl /\ off' = off /\ Taken(r) \in Nat
  BY TakenFacts DEF Entering, Goes, InRecord
<1> SUFFICES ASSUME ~stepped, ~Stopping, NEW q \in Requests, req'[q].pc = "record"
             PROVE  req'[q].w \in HeldWindows'
  BY <1>1 DEF RecordHeld, Stopping
<1>2. Taken(r) <= now
  BY <1>1, TakenFacts DEF Goes, InRecord
<1>3. CASE q = r
  BY <1>1, <1>3 DEF Goes
<1>4. CASE q # r
  <2>1. req'[q] = req[q] /\ req[q].pc = "record"
    BY <1>1, <1>4 DEF Goes
  <2> QED
    BY <1>1, <1>2, <2>1, HeldTurn
<1> QED
  BY <1>3, <1>4

LEMMA FlushBeginHeld ==
    ASSUME Types, Starts, Order, Clock, RecordHeld, FlushBegin
    PROVE  RecordHeld'
<1>1. PICK o : Turns(o, now) /\ Over(o, now)
  BY FlushBeginFacts
<1>2. fl'.final = fl.final /\ req' = req /\ off' = off /\ now \in Nat /\ now <= now
  BY FlushBeginFacts, BoundsAssumption DEF Types, StoreTypes
<1> SUFFICES ASSUME ~stepped, ~Stopping, NEW q \in Requests, req[q].pc = "record"
             PROVE  req[q].w \in HeldWindows'
  BY <1>2 DEF RecordHeld, Stopping
<1> QED
  BY <1>1, <1>2, HeldTurn

LEMMA FlushForgetHeld ==
    ASSUME Types, Order, Clock, RecordHeld, FlushForget
    PROVE  RecordHeld'
<1>1. /\ pending' = {w \in pending : ~Forgettable(w)} /\ current' = current
      /\ fl'.final = fl.final /\ req' = req /\ off' = off
  BY FlushForgetFacts
<1> SUFFICES ASSUME ~stepped, ~Stopping, NEW q \in Requests, req[q].pc = "record"
             PROVE  req[q].w \in HeldWindows'
  BY <1>1 DEF RecordHeld, Stopping
<1>2. req[q].w \in HeldWindows
  BY DEF RecordHeld
<1>3. req[q].w \in pending => ~Forgettable(req[q].w)
  BY NotForgettable DEF Forgettable
<1> QED
  BY <1>1, <1>2, <1>3 DEF HeldWindows

(* No request enters Record and no window is dropped. *)
LEMMA HeldStill ==
    ASSUME RecordHeld, fl'.final = fl.final, off' = off,
           UNCHANGED <<current, pending>>,
           \A q \in Requests : req'[q].pc = "record" => req[q].pc = "record" /\ req'[q].w = req[q].w
    PROVE  RecordHeld'
  BY DEF RecordHeld, Stopping, HeldWindows

-----------------------------------------------------------------------------
(* FlushKnows *)

RowsGrow == \A m \in Minutes : rows[m] \subseteq rows'[m]

LEMMA KnowsFrame ==
    ASSUME Types, FlushKnows, Grows, RowsGrow, fl' = fl, ~stepped' => ~stepped,
           \A w \in fl.windows \ fl.todo : ~stepped' /\ Settled(w)' =>
               Settled(w) /\ win'[w].reqs \ after' \subseteq win[w].reqs \ after
    PROVE  FlushKnows'
<1> SUFFICES ASSUME ~stepped', NEW w \in fl.windows \ fl.todo, Settled(w)'
             PROVE  Kept(w)'
  BY DEF FlushKnows
<1>1. w \in Windows /\ win'[w].start = win[w].start /\ win[w].start \in Minutes
  BY RunFacts, WindowFacts DEF Types, Grows
<1>2. Settled(w) /\ win'[w].reqs \ after' \subseteq win[w].reqs \ after
  OBVIOUS
<1>3. ~stepped
  OBVIOUS
<1>4. Kept(w)
  BY <1>2, <1>3 DEF FlushKnows
<1> QED
  BY <1>1, <1>2, <1>4 DEF Kept, RowsGrow

LEMMA RowsStay == ASSUME rows' = rows PROVE RowsGrow
  BY DEF RowsGrow

LEMMA EnteringKnows ==
    ASSUME Types, Clock, FlushKnows, NEW r \in Requests, NEW w, NEW o, Entering(r, w, o)
    PROVE  FlushKnows'
<1>1. /\ Turns(o, Taken(r)) /\ Goes(r, w) /\ fl' = fl /\ off' = off
      /\ after' = after /\ rows' = rows /\ WindowTypes
  BY DEF Entering, Types
<1>2. Grows /\ RowsGrow
  BY <1>1, TurnsGrows, RowsStay
<1>3. ASSUME NEW v \in fl.windows \ fl.todo, ~stepped', Settled(v)'
      PROVE  Settled(v) /\ win'[v].reqs \ after' \subseteq win[v].reqs \ after
  <2>1. v \in Windows /\ win'[v].reqs = win[v].reqs
    BY <1>1, RunFacts DEF Types, Turns
  <2>2. CASE fl.final
    BY <1>1, <2>1, <2>2 DEF Settled
  <2>3. CASE ~fl.final
    <3>1. v \in pending' /\ win'[v].closedAt <= fl.now - Grace
      BY <1>1, <1>3, <2>3 DEF Settled
    <3>2. CASE v = current
      <4>1. win'[v].closedAt = Taken(r) /\ Taken(r) = req[r].t
        BY <1>1, <1>3, <3>1, <3>2, TakenFacts DEF Turns, Goes, InRecord
      <4>2. req[r].t > fl.now - Grace
        BY <1>1, <1>3, Young DEF Goes, InRecord
      <4>3. req[r].t \in Nat /\ fl.now - Grace \in Int
        BY RequestFacts, RunFacts, DelayAssumption DEF Types
      <4> QED
        BY <3>1, <4>1, <4>2, <4>3
    <3>3. CASE v # current
      BY <1>1, <2>1, <3>1, <3>3 DEF Turns, Settled
    <3> QED
      BY <3>2, <3>3
  <2> QED
    BY <2>2, <2>3
<1> QED
  BY <1>1, <1>2, <1>3, KnowsFrame

LEMMA CountedKnows ==
    ASSUME Types, Starts, Order, Clock, FlushKnows, NEW r \in Requests, NEW c, Counted(r, c)
    PROVE  FlushKnows'
<1>1. /\ req[r].pc = "record" /\ c = req[r].w /\ fl' = fl /\ off' = off
      /\ rows' = rows /\ pending' = pending
      /\ after' = IF Stopping THEN after \cup {r} ELSE after
      /\ \A i \in Windows : /\ win'[i].closedAt = win[i].closedAt
                            /\ win'[i].reqs = IF i = c THEN win[i].reqs \cup {r} ELSE win[i].reqs
  BY DEF Counted
<1>2. Grows /\ RowsGrow
  BY <1>1, CountedTypes, RowsStay
<1>3. ASSUME NEW v \in fl.windows \ fl.todo, ~stepped', Settled(v)'
      PROVE  Settled(v) /\ win'[v].reqs \ after' \subseteq win[v].reqs \ after
  <2>1. v \in Windows
    BY RunFacts DEF Types
  <2>2. Settled(v)
    BY <1>1, <1>3, <2>1 DEF Settled
  <2>3. CASE Stopping
    BY <1>1, <2>1, <2>2, <2>3
  <2>4. CASE ~Stopping
    <3>1. v \in pending /\ win[v].closedAt <= fl.now - Grace
      BY <2>2, <2>4 DEF Settled, Stopping
    <3>2. v # c
      BY <1>1, <1>3, <2>4, <3>1, NotForgettable
    <3> QED
      BY <1>1, <2>1, <2>2, <2>4, <3>2
  <2> QED
    BY <2>3, <2>4
<1> QED
  BY <1>1, <1>2, <1>3, KnowsFrame

(* The windows stay; requests may be refused, and rows grow. *)
LEMMA KnowsStill ==
    ASSUME Types, FlushKnows, RowsGrow, fl' = fl, ~stepped' => ~stepped, win' = win,
           pending' = pending, after \subseteq after'
    PROVE  FlushKnows'
<1>1. Grows
  BY StillGrows DEF Types
<1>2. \A w : Settled(w)' => Settled(w)
  BY DEF Settled
<1> QED
  BY <1>1, <1>2, KnowsFrame

LEMMA FlushReadKnows ==
    ASSUME Types, FlushShape, FlushKnows, FlushRead
    PROVE  FlushKnows'
<1>1. PICK w, snap : Reads(w, snap)
  BY FlushReadFacts
<1>2. /\ win' = win /\ pending' = pending /\ fl.pc = "read" /\ off' = off
      /\ rows' = rows /\ after' = after
  BY FlushReadFacts
<1>3. /\ snap = IF win[w].reqs = {} THEN fl.snap
                ELSE fl.snap \cup {[start |-> win[w].start, reqs |-> win[w].reqs]}
      /\ fl'.pc = IF fl.todo # {w} THEN "read" ELSE IF snap = {} THEN "forget" ELSE "write"
      /\ fl'.todo = fl.todo \ {w} /\ fl'.snap = snap /\ w \in fl.todo
      /\ fl'.now = fl.now /\ fl'.windows = fl.windows /\ fl'.final = fl.final
  BY <1>1 DEF Reads
<1> SUFFICES ASSUME ~stepped, NEW v \in fl.windows, v \notin fl.todo \ {w}, Settled(v)'
             PROVE  Kept(v)'
  BY <1>2, <1>3 DEF FlushKnows
<1>4. \A r \in win[v].reqs \ after : \E s \in snap : s.start = win[v].start /\ r \in s.reqs
  <2>1. CASE v = w
    <3> SUFFICES ASSUME NEW r \in win[w].reqs
                 PROVE  \E s \in snap : s.start = win[w].start /\ r \in s.reqs
      BY <2>1
    <3>1. [start |-> win[w].start, reqs |-> win[w].reqs] \in snap
      BY <1>3
    <3> QED
      BY <3>1
  <2>2. CASE v # w
    <3>1. v \in fl.windows \ fl.todo /\ Settled(v)
      BY <1>2, <1>3, <2>2 DEF Settled
    <3>2. Kept(v)
      BY <3>1 DEF FlushKnows
    <3>3. fl.snap \subseteq snap
      BY <1>3
    <3> QED
      BY <1>2, <3>2, <3>3 DEF Kept
  <2> QED
    BY <2>1, <2>2
<1>5. fl'.pc = "forget" => snap = {}
  BY <1>3
<1> QED
  BY <1>2, <1>3, <1>4, <1>5 DEF Kept

LEMMA WriteMinutesKnows ==
    ASSUME Types, Chains, FlushShape, FlushKnows, WriteMinutes
    PROVE  FlushKnows'
<1>1. /\ fl.pc = "write" /\ fl'.pc = "forget" /\ fl'.windows = fl.windows /\ fl'.todo = fl.todo
      /\ fl'.now = fl.now /\ fl'.final = fl.final
      /\ win' = win /\ pending' = pending /\ after' = after /\ off' = off
      /\ \A m \in Minutes : rows'[m] = Stored(m)
  BY WriteMinutesFacts
<1> SUFFICES ASSUME ~stepped, NEW w \in fl.windows \ fl.todo, Settled(w)'
             PROVE  Kept(w)'
  BY <1>1 DEF FlushKnows
<1>2. Settled(w) /\ win[w].start \in Minutes
  BY <1>1, RunFacts, WindowFacts DEF Settled, Types
<1>3. Kept(w)
  BY <1>2 DEF FlushKnows
<1>4. \A r \in win[w].reqs \ after : \E s \in fl.snap : s.start = win[w].start /\ r \in s.reqs
  BY <1>1, <1>3 DEF Kept
<1>5. \A s \in fl.snap : s.start = win[w].start => s.reqs \subseteq rows'[win[w].start]
  BY <1>1, <1>2, StoredFacts
<1> QED
  BY <1>1, <1>4, <1>5 DEF Kept

LEMMA KnowsNothing ==
    ASSUME fl'.windows \subseteq fl'.todo
    PROVE  FlushKnows'
  BY DEF FlushKnows

-----------------------------------------------------------------------------
(* LateOnly and StopKept *)

(* What was counted before the stop began stays where it was. *)
Settles ==
    \A w \in HeldWindows' :
        \/ win'[w].reqs \subseteq after'
        \/ w \in HeldWindows /\ win'[w].reqs \ after' \subseteq win[w].reqs \ after

LEMMA TurnSettles ==
    ASSUME Types, NEW o, NEW at, Turns(o, at), after \subseteq after'
    PROVE  Settles
<1>1. /\ HeldWindows' = (HeldWindows \ {o}) \cup (Windows' \ Windows)
      /\ \A i \in Windows : win'[i].reqs = win[i].reqs
      /\ Len(win') \in {Len(win), Len(win) + 1} /\ Len(win) \in Nat
      /\ Len(win') > Len(win) => win'[Len(win')].reqs = {}
      /\ HeldWindows \subseteq Windows
  BY WindowFacts DEF Types, Turns
<1>2. \A i \in Windows' \ Windows : win'[i].reqs = {}
  BY <1>1 DEF Windows
<1> QED
  BY <1>1, <1>2 DEF Settles

LEMMA StillSettles ==
    ASSUME UNCHANGED <<win, current, pending>>, after \subseteq after'
    PROVE  Settles
  BY DEF Settles, HeldWindows

LEMMA CountedSettles ==
    ASSUME Types, NEW r \in Requests, NEW c, Counted(r, c), Stopping
    PROVE  Settles
<1>1. /\ HeldWindows' = HeldWindows /\ after' = after \cup {r} /\ HeldWindows \subseteq Windows
      /\ \A i \in Windows : win'[i].reqs = IF i = c THEN win[i].reqs \cup {r} ELSE win[i].reqs
  BY WindowFacts DEF Types, Counted, HeldWindows
<1>2. \A i \in Windows : win'[i].reqs \ after' \subseteq win[i].reqs \ after
  BY <1>1
<1> QED
  BY <1>1, <1>2 DEF Settles

LEMMA LateFrame ==
    ASSUME LateOnly, ~stepped' => ~stepped, fl'.final = fl.final, fl'.windows = fl.windows,
           fl'.pc \in {"read", "write", "forget"} => fl.pc \in {"read", "write", "forget"},
           fl.final => Settles
    PROVE  LateOnly'
<1> SUFFICES ASSUME ~stepped, fl.final, fl.pc \in {"read", "write", "forget"},
                    NEW w \in HeldWindows', w \notin fl.windows
             PROVE  win'[w].reqs \subseteq after'
  BY DEF LateOnly
<1>1. w \in HeldWindows => win[w].reqs \subseteq after
  BY DEF LateOnly
<1> QED
  BY <1>1 DEF Settles

LEMMA LateNone ==
    ASSUME \/ fl'.pc \in {"wait", "final", "stopped"}
           \/ fl'.windows = HeldWindows'
    PROVE  LateOnly'
  BY DEF LateOnly

LEMMA KeptFrame ==
    ASSUME Types, FlushShape, StopKept, ~stepped' => ~stepped, Grows, RowsGrow, fl' = fl,
           fl.final => Settles
    PROVE  StopKept'
<1> SUFFICES ASSUME ~stepped, fl.pc = "stopped", ~fl.failed, NEW w \in HeldWindows'
             PROVE  win'[w].reqs \ after' \subseteq rows'[win'[w].start]
  BY DEF StopKept
<1>1. CASE win'[w].reqs \subseteq after'
  BY <1>1
<1>2. CASE w \in HeldWindows /\ win'[w].reqs \ after' \subseteq win[w].reqs \ after
  <2>1. w \in Windows /\ win'[w].start = win[w].start /\ win[w].start \in Minutes
    BY <1>2, WindowFacts DEF Types, Grows
  <2>2. win[w].reqs \ after \subseteq rows[win[w].start]
    BY <1>2 DEF StopKept
  <2> QED
    BY <1>2, <2>1, <2>2 DEF RowsGrow
<1> QED
  BY <1>1, <1>2 DEF Settles, FlushShape

LEMMA KeptNone ==
    ASSUME fl'.pc # "stopped" \/ fl'.failed
    PROVE  StopKept'
  BY DEF StopKept

LEMMA FlushForgetKept ==
    ASSUME Types, FlushShape, FlushKnows, LateOnly, FlushForget
    PROVE  StopKept'
<1>1. /\ fl.pc = "forget" /\ fl'.pc = IF fl.final THEN "stopped" ELSE "wait"
      /\ win' = win /\ rows' = rows /\ after' = after /\ off' = off
      /\ HeldWindows' \subseteq HeldWindows
  BY FlushForgetFacts DEF HeldWindows
<1> SUFFICES ASSUME ~stepped, fl.final, NEW w \in HeldWindows
             PROVE  win[w].reqs \ after \subseteq rows[win[w].start]
  BY <1>1 DEF StopKept
<1>2. CASE w \in fl.windows
  <2>1. Kept(w)
    BY <1>1, <1>2 DEF FlushKnows, FlushShape, Settled
  <2> QED
    BY <1>1, <2>1 DEF Kept
<1>3. CASE w \notin fl.windows
  BY <1>1, <1>3 DEF LateOnly
<1> QED
  BY <1>2, <1>3

-----------------------------------------------------------------------------
(* LostCovers *)

LEMMA OwedFacts == Owed \in SUBSET Requests /\ Owed' \in SUBSET Requests
  BY DEF Owed, Refused, Unstored

LEMMA HeldMeans ==
    /\ \A r : IsHeld(r) <=> \E w \in HeldWindows : r \in win[w].reqs
    /\ \A r : IsHeld(r)' <=> \E w \in HeldWindows' : r \in win'[w].reqs
  BY DEF IsHeld, HeldWindows

LEMMA CoversStill ==
    ASSUME Types, LostCovers, lost' = lost, ~stepped' => ~stepped, ~stepped' => Owed' \subseteq Owed
    PROVE  LostCovers'
<1>1. /\ Cardinality(Owed) \in Nat /\ Cardinality(Owed') \in Nat /\ lost \in Nat
      /\ ~stepped' => Cardinality(Owed') <= Cardinality(Owed)
  BY OwedFacts, RequestsFinite, SmallerSet DEF Types, WindowTypes
<1> QED
  BY <1>1 DEF LostCovers

(* What a turn of the windows drops, Lost counts. *)
LEMMA CoversTurn ==
    ASSUME Types, LostCovers, NEW o, NEW at, Turns(o, at), RowsGrow, after \subseteq after',
           ~stepped' => ~stepped,
           \A q \in Requests : req'[q].pc \in {"counted", "refused"} => req'[q].pc = req[q].pc
    PROVE  LostCovers'
<1>1. /\ HeldWindows' = (HeldWindows \ {o}) \cup (Windows' \ Windows)
      /\ \A i \in Windows : win'[i].reqs = win[i].reqs /\ win[i].reqs \in SUBSET Requests
      /\ o \in pending \cup {NoWindow} /\ lost' = lost + Dropped(o)
      /\ HeldWindows \subseteq Windows /\ pending \subseteq Windows /\ lost \in Nat
  BY WindowFacts DEF Types, Turns, WindowTypes
<1>2. Owed' \subseteq Owed \cup (IF o = NoWindow THEN {} ELSE win[o].reqs)
  <2> SUFFICES ASSUME NEW r \in Owed', r \notin Owed
               PROVE  o # NoWindow /\ r \in win[o].reqs
    OBVIOUS
  <2>1. r \in Requests /\ r \notin after /\ r \notin Refused
    BY DEF Owed, Refused, Unstored
  <2>2. r \in Unstored' /\ ~IsHeld(r)' /\ r \in Unstored
    BY <2>1 DEF Owed, Refused, Unstored, IsStored, RowsGrow
  <2>3. PICK w \in HeldWindows : r \in win[w].reqs
    BY <2>1, <2>2, HeldMeans DEF Owed
  <2>4. w \notin HeldWindows'
    BY <1>1, <2>2, <2>3, HeldMeans
  <2>5. w = o /\ w # NoWindow
    BY <1>1, <2>3, <2>4 DEF HeldWindows
  <2> QED
    BY <2>3, <2>5
<1>3. CASE o = NoWindow
  <2>1. lost' = lost /\ Owed' \subseteq Owed
    BY <1>1, <1>2, <1>3 DEF Dropped
  <2> QED
    BY <2>1, CoversStill
<1>4. CASE o # NoWindow
  <2> DEFINE X == win[o].reqs
  <2>1. X \in SUBSET Requests /\ lost' = lost + Cardinality(X) /\ Cardinality(X) \in Nat
    BY <1>1, <1>4, RequestsFinite DEF Dropped
  <2>2. Owed' \in SUBSET (Owed \cup X) /\ Owed \cup X \in SUBSET Requests
    BY <1>2, <1>4, <2>1, OwedFacts
  <2> HIDE DEF X
  <2>3. Cardinality(Owed') <= Cardinality(Owed \cup X)
    BY <2>2, SmallerSet
  <2>4. Cardinality(Owed \cup X) <= Cardinality(Owed) + Cardinality(X)
    BY <2>1, OwedFacts, UnionSum
  <2>5. /\ Cardinality(Owed) \in Nat /\ Cardinality(Owed') \in Nat
        /\ Cardinality(Owed \cup X) \in Nat
    BY <2>2, OwedFacts, RequestsFinite
  <2> QED
    BY <1>1, <2>1, <2>3, <2>4, <2>5 DEF LostCovers
<1> QED
  BY <1>3, <1>4

LEMMA RefusedCovers ==
    ASSUME Types, LostCovers, NEW r \in Requests, Ends(r, "refused"), lost' = lost + 1,
           after \subseteq after', UNCHANGED <<win, current, pending>>, rows' = rows,
           off' = off
    PROVE  LostCovers'
<1>1. HeldWindows' = HeldWindows /\ \A q \in Requests : q # r => req'[q] = req[q]
  BY DEF HeldWindows, Ends
<1>2. Owed' \subseteq Owed \cup {r}
  <2> SUFFICES ASSUME NEW q \in Owed', q # r PROVE q \in Owed
    OBVIOUS
  <2>1. q \in Requests /\ q \notin after /\ req'[q] = req[q]
    BY <1>1 DEF Owed, Refused, Unstored
  <2>2. q \in Refused' => q \in Refused
    BY <2>1 DEF Refused
  <2>3. q \in Unstored' => q \in Unstored
    BY <2>1 DEF Unstored, IsStored
  <2>4. ~IsHeld(q)' => ~IsHeld(q)
    BY <1>1, HeldMeans
  <2> QED
    BY <2>1, <2>2, <2>3, <2>4 DEF Owed
<1>3. Owed' \in SUBSET (Owed \cup {r}) /\ Owed \cup {r} \in SUBSET Requests
  BY <1>2, OwedFacts
<1>4. Cardinality(Owed') <= Cardinality(Owed \cup {r})
  BY <1>3, SmallerSet
<1>5. Cardinality(Owed) \in Nat /\ Cardinality(Owed') \in Nat /\ lost \in Nat
  BY OwedFacts, RequestsFinite DEF Types, WindowTypes
<1>6. Cardinality(Owed \cup {r}) \in {Cardinality(Owed), Cardinality(Owed) + 1}
  BY OwedFacts, RequestsFinite, FS_AddElement
<1> QED
  BY <1>4, <1>5, <1>6 DEF LostCovers

LEMMA CountedCovers ==
    ASSUME Types, RecordHeld, LostCovers, NEW r \in Requests, NEW c, Counted(r, c)
    PROVE  LostCovers'
<1>1. /\ HeldWindows' = HeldWindows /\ HeldWindows \subseteq Windows /\ c = req[r].w
      /\ req[r].pc = "record" /\ lost' = lost /\ off' = off /\ rows' = rows
      /\ after' = IF Stopping THEN after \cup {r} ELSE after
      /\ \A i \in Windows : win'[i].reqs = IF i = c THEN win[i].reqs \cup {r} ELSE win[i].reqs
      /\ \A q \in Requests : q # r => req'[q] = req[q]
      /\ req'[r].pc = "counted"
  BY WindowFacts DEF Types, Counted, HeldWindows, Ends
<1>2. ~stepped => Owed' \subseteq Owed
  <2> SUFFICES ASSUME ~stepped, NEW q \in Owed' PROVE q \in Owed
    OBVIOUS
  <2>1. CASE q = r
    <3>1. ~Stopping /\ r \notin Refused'
      BY <1>1, <2>1 DEF Owed, Refused
    <3>2. c \in HeldWindows
      BY <1>1, <3>1 DEF RecordHeld
    <3>3. IsHeld(r)'
      BY <1>1, <3>2, HeldMeans
    <3> QED
      BY <2>1, <3>1, <3>3 DEF Owed
  <2>2. CASE q # r
    <3>1. q \in Requests /\ q \notin after /\ req'[q] = req[q]
      BY <1>1, <2>2 DEF Owed, Refused, Unstored
    <3>2. q \in Refused' => q \in Refused
      BY <3>1 DEF Refused
    <3>3. q \in Unstored' => q \in Unstored
      BY <1>1, <3>1 DEF Unstored, IsStored
    <3>4. ~IsHeld(q)' => ~IsHeld(q)
      BY <1>1, HeldMeans
    <3> QED
      BY <3>1, <3>2, <3>3, <3>4 DEF Owed
  <2> QED
    BY <2>1, <2>2
<1> QED
  BY <1>1, <1>2, CoversStill

LEMMA FlushForgetCovers ==
    ASSUME Types, FlushShape, FlushKnows, LostCovers, FlushForget
    PROVE  LostCovers'
<1>1. /\ fl.pc = "forget" /\ pending' = {w \in pending : ~Forgettable(w)}
      /\ current' = current /\ win' = win /\ req' = req /\ rows' = rows /\ after' = after
      /\ off' = off /\ lost' = lost
  BY FlushForgetFacts
<1>2. ~stepped => Owed' \subseteq Owed
  <2> SUFFICES ASSUME ~stepped, NEW r \in Owed', r \notin Owed PROVE FALSE
    OBVIOUS
  <2>1. r \in Requests /\ r \notin after /\ r \in Unstored /\ ~IsHeld(r)' /\ IsHeld(r)
    BY <1>1 DEF Owed, Refused, Unstored, IsStored
  <2>2. PICK w \in HeldWindows : r \in win[w].reqs
    BY <2>1, HeldMeans
  <2>3. w \notin HeldWindows'
    BY <1>1, <2>1, <2>2, HeldMeans
  <2>4. w \in pending /\ Forgettable(w)
    BY <1>1, <2>2, <2>3 DEF HeldWindows
  <2>5. w \in fl.windows \ fl.todo /\ Settled(w)
    BY <1>1, <2>4 DEF Forgettable, Settled, FlushShape
  <2>6. r \in rows[win[w].start]
    BY <1>1, <2>1, <2>2, <2>5 DEF FlushKnows, Kept
  <2>7. win[w].start \in Minutes
    BY <2>2, WindowFacts DEF Types
  <2> QED
    BY <2>1, <2>6, <2>7 DEF Unstored, IsStored
<1> QED
  BY <1>1, <1>2, CoversStill

-----------------------------------------------------------------------------
(* The inductive invariant, action by action. *)

LEMMA InitInv == ASSUME Init PROVE IInv
<1>1. /\ win = <<>> /\ current = NoWindow /\ pending = {} /\ latest = NoMinute /\ lost = 0
      /\ req = [r \in Requests |-> Done("serving")] /\ fl = Waiting
      /\ rows = [m \in Minutes |-> {}] /\ delayed = {} /\ now = 0 /\ off = 0
      /\ after = {} /\ faults = 0
  BY DEF Init
<1>2. Windows = {} /\ HeldWindows = {} /\ Len(win) = 0
  BY <1>1 DEF Windows, HeldWindows
<1>3. /\ fl.now = 0 /\ fl.todo = {} /\ fl.windows = {} /\ fl.snap = {} /\ fl \in RunType
      /\ fl.final = FALSE /\ fl.pc = "wait"
  BY <1>1, WaitingFacts
<1>4. \A r \in Requests : /\ req[r] \in RequestType /\ req[r].pc = "serving"
                          /\ req[r].age = 0 /\ req[r].w = 0
  BY <1>1, DoneFacts DEF Steps, NoWindow
<1>5. Types
  <2>1. WindowTypes
    BY <1>1, <1>2, FS_EmptySet, BoundsAssumption DEF WindowTypes, NoWindow
  <2>2. req \in [Requests -> RequestType]
    BY <1>1, <1>4
  <2>3. RequestTypes
    BY <1>2, <1>4, <2>2 DEF RequestTypes
  <2>4. RunTypes
    BY <1>3 DEF RunTypes
  <2>5. StoreTypes
    <3>1. rows \in [Minutes -> SUBSET Requests] /\ off \in 0..now
      BY <1>1
    <3>2. now \in 0..MaxNow /\ faults \in 0..MaxFaults
      BY <1>1, BoundsAssumption
    <3> QED
      BY <1>1, <3>1, <3>2 DEF StoreTypes
  <2> QED
    BY <2>1, <2>3, <2>4, <2>5 DEF Types
<1>6. Sent = {}
  BY <1>1, <1>3 DEF Sent
<1>7. Starts /\ Counts /\ FlushShape
  BY <1>2, <1>3 DEF Starts, Counts, FlushShape
<1>8. Chains
  BY <1>1, <1>2, <1>6 DEF Chains
<1>9. LostBound
  <2>1. Cardinality(Gone) \in Nat
    BY GoneFacts, RequestsFinite
  <2> QED
    BY <1>1, <2>1 DEF LostBound
<1>10. Order /\ Clock /\ RecordHeld
  BY <1>1, <1>3, <1>4 DEF Order, Clock, RecordHeld, InRecord
<1>11. FlushKnows /\ LateOnly /\ StopKept
  BY <1>3 DEF FlushKnows, LateOnly, StopKept
<1>12. LostCovers
  <2>1. Owed = {}
    BY <1>4 DEF Owed, Refused, Unstored
  <2> QED
    BY <1>1, <2>1, FS_EmptySet DEF LostCovers
<1> QED
  BY <1>5, <1>7, <1>8, <1>9, <1>10, <1>11, <1>12 DEF IInv

LEMMA EnteringInv ==
    ASSUME IInv, NEW r \in Requests, NEW w, NEW o, Entering(r, w, o)
    PROVE  IInv'
<1>1. /\ Types /\ Starts /\ Counts /\ Chains /\ LostBound /\ FlushShape /\ Order /\ Clock
      /\ RecordHeld /\ FlushKnows /\ LateOnly /\ StopKept /\ LostCovers
  BY DEF IInv
<1>2. Types' /\ Starts' /\ Grows
  BY <1>1, EnteringTypes
<1>3. /\ Turns(o, Taken(r)) /\ fl' = fl /\ rows' = rows /\ delayed' = delayed
      /\ off' = off /\ after' = after /\ Sent' = Sent /\ Goes(r, w) /\ now' = now
  BY DEF Entering, Sent
<1>4. /\ \A q \in Requests : q # r => req'[q] = req[q]
      /\ req[r].pc = "load" /\ req'[r].pc = "record"
      /\ req'[r].t = req[r].t /\ req'[r].age = req[r].age
  BY <1>3 DEF Goes
<1>5. Counts'
  BY <1>1, <1>3, <1>4, CountsTurn
<1>6. Chains'
  BY <1>1, <1>3, ChainsTurn
<1>7. LostBound'
  <2>1. Refused \subseteq Refused'
    BY <1>4 DEF Refused
  <2> QED
    BY <1>1, <1>3, <2>1, LostTurn
<1>8. FlushShape'
  BY <1>1, <1>2, <1>3, ShapeFrame DEF Types
<1>9. Order' /\ RecordHeld' /\ FlushKnows'
  BY <1>1, EnteringOrder, EnteringHeld, EnteringKnows
<1>10. Clock'
  <2>1. now \in Nat /\ fl'.now \in {fl.now, now, 0}
    BY <1>1, <1>3, BoundsAssumption DEF Types, StoreTypes
  <2> QED
    BY <1>1, <1>3, <1>4, <2>1, ClockStill
<1>11. Settles /\ RowsGrow
  BY <1>1, <1>3, TurnSettles, RowsStay
<1>12. LateOnly'
  BY <1>1, <1>3, <1>11, LateFrame
<1>13. StopKept'
  BY <1>1, <1>2, <1>3, <1>11, KeptFrame
<1>14. LostCovers'
  BY <1>1, <1>3, <1>4, <1>11, CoversTurn
<1> QED
  BY <1>2, <1>5, <1>6, <1>7, <1>8, <1>9, <1>10, <1>12, <1>13, <1>14 DEF IInv

LEMMA FinishInv ==
    ASSUME IInv, NEW r \in Requests, Finish(r)
    PROVE  IInv'
<1>1. /\ Types /\ Starts /\ Counts /\ Chains /\ LostBound /\ FlushShape /\ Order /\ Clock
      /\ RecordHeld /\ FlushKnows /\ LateOnly /\ StopKept /\ LostCovers
  BY DEF IInv
<1>2. Types' /\ Starts' /\ Grows
  BY <1>1, FinishTypes
<1>3. /\ UNCHANGED <<win, current, pending, latest, lost>>
      /\ UNCHANGED <<fl, rows, delayed, now, off, after, faults>>
      /\ Sent' = Sent /\ Windows' = Windows
  BY <1>1, FinishFacts DEF Sent, Windows
<1>4. /\ \A q \in Requests : q # r => req'[q] = req[q]
      /\ req[r].pc = "serving" /\ req'[r].pc = "load" /\ req'[r].w = req[r].w
  BY <1>1, FinishFacts
<1>5. Turns(NoWindow, 0)
  BY <1>1, <1>3, StillTurns DEF Types, collector
<1>6. Counts'
  BY <1>1, <1>4, <1>5, CountsTurn
<1>7. Chains'
  BY <1>1, <1>3, <1>5, ChainsTurn
<1>8. LostBound'
  <2>1. Refused \subseteq Refused'
    BY <1>4 DEF Refused
  <2> QED
    BY <1>1, <1>5, <2>1, LostTurn
<1>9. FlushShape'
  BY <1>1, <1>2, <1>3, ShapeFrame DEF Types
<1>10. Order'
  BY <1>1, <1>2, <1>3, <1>4, OrderStill
<1>11. Clock'
  BY <1>1, FinishClock
<1>12. RecordHeld'
  BY <1>1, <1>3, <1>4, HeldStill
<1>13. Settles /\ RowsGrow
  BY <1>3, StillSettles, RowsStay
<1>14. FlushKnows'
  BY <1>1, <1>3, <1>13, KnowsStill
<1>15. LateOnly'
  BY <1>1, <1>3, <1>13, LateFrame
<1>16. StopKept'
  BY <1>1, <1>2, <1>3, <1>13, KeptFrame
<1>17. LostCovers'
  BY <1>1, <1>3, <1>4, <1>5, <1>13, CoversTurn
<1> QED
  BY <1>2, <1>6, <1>7, <1>8, <1>9, <1>10, <1>11, <1>12, <1>14, <1>15, <1>16, <1>17 DEF IInv

LEMMA RefusedInv ==
    ASSUME IInv, NEW r \in Requests, req[r].pc = "load", Ends(r, "refused"),
           lost' = lost + 1, after' = IF Stopping THEN after \cup {r} ELSE after,
           UNCHANGED <<win, current, pending, latest>>,
           UNCHANGED <<fl, rows, delayed, now, off, faults>>
    PROVE  IInv'
<1>1. /\ Types /\ Starts /\ Counts /\ Chains /\ LostBound /\ FlushShape /\ Order /\ Clock
      /\ RecordHeld /\ FlushKnows /\ LateOnly /\ StopKept /\ LostCovers
  BY DEF IInv
<1>2. Types' /\ Starts' /\ Grows
  BY <1>1, RefusedTypes
<1>3. Sent' = Sent /\ Windows' = Windows /\ after \subseteq after'
  BY DEF Sent, Windows
<1>4. /\ \A q \in Requests : q # r => req'[q] = req[q]
      /\ req'[r].pc = "refused" /\ "refused" \in {"counted", "refused"}
  BY DEF Ends
<1>5. Counts'
  BY <1>1, <1>4, CountsStill
<1>6. Chains'
  BY <1>1, <1>2, <1>3, ChainsStill
<1>7. LostBound'
  BY <1>1, RefusedLost
<1>8. FlushShape'
  BY <1>1, <1>2, ShapeFrame DEF Types
<1>9. Order'
  BY <1>1, <1>2, <1>4, EndingOrder
<1>10. Clock'
  <2>1. now \in Nat /\ fl'.now \in {fl.now, now, 0}
    BY <1>1, BoundsAssumption DEF Types, StoreTypes
  <2> QED
    BY <1>1, <1>4, <2>1, ClockStill
<1>11. RecordHeld'
  BY <1>1, <1>4, HeldStill
<1>12. Settles /\ RowsGrow
  BY <1>3, StillSettles, RowsStay
<1>13. FlushKnows'
  BY <1>1, <1>3, <1>12, KnowsStill
<1>14. LateOnly'
  BY <1>1, <1>12, LateFrame
<1>15. StopKept'
  BY <1>1, <1>2, <1>12, KeptFrame
<1>16. LostCovers'
  BY <1>1, <1>3, RefusedCovers
<1> QED
  BY <1>2, <1>5, <1>6, <1>7, <1>8, <1>9, <1>10, <1>11, <1>13, <1>14, <1>15, <1>16 DEF IInv

LEMMA CountInInv ==
    ASSUME IInv, NEW r \in Requests, CountIn(r)
    PROVE  IInv'
<1>1. /\ Types /\ Starts /\ Counts /\ Chains /\ LostBound /\ FlushShape /\ Order /\ Clock
      /\ RecordHeld /\ FlushKnows /\ LateOnly /\ StopKept /\ LostCovers
  BY DEF IInv
<1> DEFINE c == req[r].w
<1>2. Counted(r, c)
  BY <1>1, CountInFacts
<1> HIDE DEF c
<1>3. Types' /\ Starts' /\ Grows
  BY <1>1, <1>2, CountedTypes
<1>4. /\ UNCHANGED <<current, pending, latest, lost>> /\ Windows' = Windows
      /\ UNCHANGED <<fl, rows, delayed, now, off, faults>>
      /\ after' = IF Stopping THEN after \cup {r} ELSE after
      /\ Ends(r, "counted")
      /\ \A i \in Windows : win'[i].closedAt = win[i].closedAt
  BY <1>2 DEF Counted
<1>5. /\ \A q \in Requests : q # r => req'[q] = req[q]
      /\ req'[r].pc = "counted" /\ "counted" \in {"counted", "refused"} /\ Sent' = Sent
  BY <1>4 DEF Ends, Sent
<1>6. Counts' /\ LostBound' /\ FlushKnows' /\ LostCovers'
  BY <1>1, <1>2, CountedCounts, CountedLost, CountedKnows, CountedCovers
<1>7. Chains'
  BY <1>1, <1>3, <1>4, <1>5, ChainsStill
<1>8. FlushShape'
  BY <1>1, <1>3, <1>4, ShapeFrame DEF Types
<1>9. Order'
  BY <1>1, <1>3, <1>4, <1>5, EndingOrder
<1>10. Clock'
  <2>1. now \in Nat /\ fl'.now \in {fl.now, now, 0}
    BY <1>1, <1>4, BoundsAssumption DEF Types, StoreTypes
  <2> QED
    BY <1>1, <1>4, <1>5, <2>1, ClockStill
<1>11. RecordHeld'
  BY <1>1, <1>4, <1>5, HeldStill
<1>12. RowsGrow /\ (fl.final => Settles)
  BY <1>1, <1>2, <1>4, CountedSettles, RowsStay DEF Stopping
<1>13. LateOnly'
  BY <1>1, <1>4, <1>12, LateFrame
<1>14. StopKept'
  BY <1>1, <1>3, <1>4, <1>12, KeptFrame
<1> QED
  BY <1>3, <1>6, <1>7, <1>8, <1>9, <1>10, <1>11, <1>13, <1>14 DEF IInv

LEMMA FlushBeginInv ==
    ASSUME IInv, FlushBegin
    PROVE  IInv'
<1>1. /\ Types /\ Starts /\ Counts /\ Chains /\ LostBound /\ FlushShape /\ Order /\ Clock
      /\ RecordHeld /\ FlushKnows /\ LateOnly /\ StopKept /\ LostCovers
  BY DEF IInv
<1>2. Types' /\ Starts' /\ Grows
  BY <1>1, FlushBeginTypes
<1>3. PICK o : Turns(o, now)
  BY <1>1, FlushBeginFacts
<1>4. /\ UNCHANGED <<req, rows, delayed, now, off, after, faults>>
      /\ fl'.now = now /\ fl'.windows = HeldWindows' /\ fl'.todo = HeldWindows' /\ fl'.snap = {}
      /\ fl'.pc \in {"read", "forget"}
  BY <1>1, FlushBeginFacts
<1>5. Sent' \subseteq Sent /\ Refused' = Refused /\ RowsGrow
  BY <1>4, RowsStay DEF Sent, Refused
<1>6. Counts' /\ Chains' /\ LostBound'
  BY <1>1, <1>3, <1>4, <1>5, CountsTurn, ChainsTurn, LostTurn
<1>7. FlushShape' /\ Order' /\ RecordHeld'
  BY <1>1, FlushBeginShape, FlushBeginOrder, FlushBeginHeld
<1>8. Clock'
  <2>1. now \in Nat /\ fl'.now \in {fl.now, now, 0}
    BY <1>1, <1>4, BoundsAssumption DEF Types, StoreTypes
  <2> QED
    BY <1>1, <1>4, <2>1, ClockStill
<1>9. FlushKnows' /\ LateOnly' /\ StopKept'
  BY <1>4, KnowsNothing, LateNone, KeptNone
<1>10. LostCovers'
  BY <1>1, <1>3, <1>4, <1>5, CoversTurn
<1> QED
  BY <1>2, <1>6, <1>7, <1>8, <1>9, <1>10 DEF IInv

LEMMA FlushReadInv ==
    ASSUME IInv, FlushRead
    PROVE  IInv'
<1>1. /\ Types /\ Starts /\ Counts /\ Chains /\ LostBound /\ FlushShape /\ Order /\ Clock
      /\ RecordHeld /\ FlushKnows /\ LateOnly /\ StopKept /\ LostCovers
  BY DEF IInv
<1>2. Types' /\ Starts' /\ Grows
  BY <1>1, FlushReadTypes
<1>3. /\ UNCHANGED <<win, current, pending, latest, lost>> /\ fl.pc = "read"
      /\ UNCHANGED <<req, rows, delayed, now, off, after, faults>>
  BY <1>1, FlushReadFacts
<1>4. /\ fl'.now = fl.now /\ fl'.final = fl.final /\ fl'.windows = fl.windows
      /\ fl'.pc \in {"read", "write", "forget"}
  BY <1>1, FlushReadFacts DEF Reads
<1>5. /\ Refused' = Refused /\ Turns(NoWindow, 0) /\ Settles /\ RowsGrow
  BY <1>1, <1>3, StillTurns, StillSettles, RowsStay DEF Refused, Types, collector
<1>6. Counts' /\ LostBound' /\ LostCovers'
  BY <1>1, <1>3, <1>5, CountsTurn, LostTurn, CoversTurn
<1>7. Chains' /\ FlushShape' /\ FlushKnows'
  BY <1>1, FlushReadChains, FlushReadShape, FlushReadKnows
<1>8. Order' /\ RecordHeld'
  BY <1>1, <1>2, <1>3, <1>4, OrderStill, HeldStill
<1>9. Clock'
  <2>1. now \in Nat /\ fl'.now \in {fl.now, now, 0}
    BY <1>1, <1>4, BoundsAssumption DEF Types, StoreTypes
  <2> QED
    BY <1>1, <1>3, <2>1, ClockStill
<1>10. LateOnly' /\ StopKept'
  BY <1>1, <1>3, <1>4, <1>5, LateFrame, KeptNone
<1> QED
  BY <1>2, <1>6, <1>7, <1>8, <1>9, <1>10 DEF IInv

LEMMA WriteMinutesInv ==
    ASSUME IInv, WriteMinutes
    PROVE  IInv' /\ RowsGrow
<1>1. /\ Types /\ Starts /\ Counts /\ Chains /\ LostBound /\ FlushShape /\ Order /\ Clock
      /\ RecordHeld /\ FlushKnows /\ LateOnly /\ StopKept /\ LostCovers
  BY DEF IInv
<1>2. Types' /\ Starts' /\ Grows
  BY <1>1, WriteMinutesTypes
<1>3. /\ UNCHANGED <<win, current, pending, latest, lost>> /\ fl.pc = "write"
      /\ UNCHANGED <<req, delayed, now, off, after, faults>>
      /\ fl'.now = fl.now /\ fl'.final = fl.final /\ fl'.windows = fl.windows
      /\ fl'.pc = "forget" /\ \A m \in Minutes : rows'[m] = Stored(m)
  BY <1>1, WriteMinutesFacts
<1>4. RowsGrow
  BY <1>1, <1>3, StoredFacts DEF RowsGrow
<1>5. /\ Refused' = Refused /\ Turns(NoWindow, 0) /\ Settles
  BY <1>1, <1>3, StillTurns, StillSettles DEF Refused, Types, collector
<1>6. Counts' /\ LostBound' /\ LostCovers'
  BY <1>1, <1>3, <1>4, <1>5, CountsTurn, LostTurn, CoversTurn
<1>7. Chains' /\ FlushShape' /\ FlushKnows'
  BY <1>1, WriteMinutesChains, WriteMinutesShape, WriteMinutesKnows
<1>8. Order' /\ RecordHeld'
  BY <1>1, <1>2, <1>3, OrderStill, HeldStill
<1>9. Clock'
  <2>1. now \in Nat /\ fl'.now \in {fl.now, now, 0}
    BY <1>1, <1>3, BoundsAssumption DEF Types, StoreTypes
  <2> QED
    BY <1>1, <1>3, <2>1, ClockStill
<1>10. LateOnly' /\ StopKept'
  BY <1>1, <1>3, <1>5, LateFrame, KeptNone
<1> QED
  BY <1>2, <1>4, <1>6, <1>7, <1>8, <1>9, <1>10 DEF IInv

LEMMA WriteFailsInv ==
    ASSUME IInv, WriteFails
    PROVE  IInv'
<1>1. /\ Types /\ Starts /\ Counts /\ Chains /\ LostBound /\ FlushShape /\ Order /\ Clock
      /\ RecordHeld /\ FlushKnows /\ LateOnly /\ StopKept /\ LostCovers
  BY DEF IInv
<1>2. Types' /\ Starts' /\ Grows
  BY <1>1, WriteFailsTypes
<1>3. /\ UNCHANGED <<win, current, pending, latest, lost>>
      /\ UNCHANGED <<req, rows, now, off, after>>
      /\ delayed' = delayed \cup fl.snap
      /\ fl'.pc = (IF fl.final THEN "stopped" ELSE "wait")
      /\ fl'.todo = {} /\ fl'.windows = {} /\ fl'.snap = {} /\ fl'.now = 0
      /\ fl'.final = fl.final /\ fl'.failed = TRUE
  BY <1>1, WriteFailsFacts
<1>4. /\ Refused' = Refused /\ Turns(NoWindow, 0) /\ RowsGrow /\ Sent' \subseteq Sent
  BY <1>1, <1>3, StillTurns, RowsStay DEF Refused, Types, collector, Sent
<1>5. Counts' /\ LostBound' /\ LostCovers' /\ Chains'
  BY <1>1, <1>3, <1>4, CountsTurn, LostTurn, CoversTurn, ChainsTurn
<1>6. FlushShape' /\ FlushKnows' /\ LateOnly' /\ StopKept'
  BY <1>3, WaitingShape, KnowsNothing, LateNone, KeptNone
<1>7. Order' /\ RecordHeld'
  BY <1>1, <1>2, <1>3, OrderStill, HeldStill
<1>8. Clock'
  <2>1. now \in Nat /\ fl'.now \in {fl.now, now, 0}
    BY <1>1, <1>3, BoundsAssumption DEF Types, StoreTypes
  <2> QED
    BY <1>1, <1>3, <2>1, ClockStill
<1> QED
  BY <1>2, <1>5, <1>6, <1>7, <1>8 DEF IInv

LEMMA DelayedInv ==
    ASSUME IInv, NEW s \in delayed, DelayedCommit(s)
    PROVE  IInv' /\ RowsGrow
<1>1. /\ Types /\ Starts /\ Counts /\ Chains /\ LostBound /\ FlushShape /\ Order /\ Clock
      /\ RecordHeld /\ FlushKnows /\ LateOnly /\ StopKept /\ LostCovers
  BY DEF IInv
<1>2. Types' /\ Starts' /\ Grows
  BY <1>1, DelayedTypes
<1>3. /\ UNCHANGED <<win, current, pending, latest, lost>>
      /\ UNCHANGED <<req, fl, now, off, after, faults>>
      /\ \A m \in Minutes : rows[m] \subseteq rows'[m]
  BY <1>1, DelayedFacts
<1>4. RowsGrow
  BY <1>3 DEF RowsGrow
<1>5. /\ Refused' = Refused /\ Turns(NoWindow, 0) /\ Settles
  BY <1>1, <1>3, StillTurns, StillSettles DEF Refused, Types, collector
<1>6. Counts' /\ LostBound' /\ LostCovers' /\ Chains'
  BY <1>1, <1>3, <1>4, <1>5, CountsTurn, LostTurn, CoversTurn, DelayedChains
<1>7. FlushShape' /\ FlushKnows' /\ LateOnly' /\ StopKept'
  BY <1>1, <1>2, <1>3, <1>4, <1>5, ShapeFrame, KnowsStill, LateFrame, KeptFrame DEF Types
<1>8. Order' /\ RecordHeld'
  BY <1>1, <1>2, <1>3, OrderStill, HeldStill
<1>9. Clock'
  BY <1>1, <1>3 DEF Clock, InRecord
<1> QED
  BY <1>2, <1>4, <1>6, <1>7, <1>8, <1>9 DEF IInv

LEMMA FlushForgetInv ==
    ASSUME IInv, FlushForget
    PROVE  IInv'
<1>1. /\ Types /\ Starts /\ Counts /\ Chains /\ LostBound /\ FlushShape /\ Order /\ Clock
      /\ RecordHeld /\ FlushKnows /\ LateOnly /\ StopKept /\ LostCovers
  BY DEF IInv
<1>2. Types' /\ Starts' /\ Grows
  BY <1>1, FlushForgetTypes
<1>3. /\ UNCHANGED <<win, current, latest, lost>> /\ pending' \subseteq pending
      /\ UNCHANGED <<req, rows, delayed, now, off, after, faults>>
      /\ fl'.pc = (IF fl.final THEN "stopped" ELSE "wait")
      /\ fl'.todo = {} /\ fl'.windows = {} /\ fl'.snap = {} /\ fl'.now = 0
      /\ fl'.final = fl.final
  BY <1>1, FlushForgetFacts
<1>4. Sent' \subseteq Sent /\ Windows' = Windows
  BY <1>3 DEF Sent, Windows
<1>5. Counts' /\ Chains'
  BY <1>1, <1>2, <1>3, <1>4, CountsStill, ChainsStill
<1>6. LostBound' /\ LostCovers' /\ StopKept' /\ RecordHeld'
  BY <1>1, ForgetLost, FlushForgetCovers, FlushForgetKept, FlushForgetHeld
<1>7. FlushShape' /\ FlushKnows' /\ LateOnly'
  BY <1>3, WaitingShape, KnowsNothing, LateNone
<1>8. Order'
  BY <1>1, <1>2, <1>3, OrderStill
<1>9. Clock'
  <2>1. now \in Nat /\ fl'.now \in {fl.now, now, 0}
    BY <1>1, <1>3, BoundsAssumption DEF Types, StoreTypes
  <2> QED
    BY <1>1, <1>3, <2>1, ClockStill
<1> QED
  BY <1>2, <1>5, <1>6, <1>7, <1>8, <1>9 DEF IInv

LEMMA StopRunInv ==
    ASSUME IInv, StopRun
    PROVE  IInv'
<1>1. /\ Types /\ Starts /\ Counts /\ Chains /\ LostBound /\ FlushShape /\ Order /\ Clock
      /\ RecordHeld /\ FlushKnows /\ LateOnly /\ StopKept /\ LostCovers
  BY DEF IInv
<1>2. Types' /\ Starts' /\ Grows
  BY <1>1, StopRunTypes
<1>3. PICK o : Turns(o, now - Grace)
  BY <1>1, StopRunFacts
<1>4. /\ UNCHANGED <<req, rows, delayed, now, off, after, faults>>
      /\ fl.pc = "wait" /\ fl'.pc = "final" /\ fl'.final = TRUE
      /\ fl'.windows = fl.windows /\ fl'.todo = fl.todo /\ fl'.snap = fl.snap /\ fl'.now = fl.now
  BY <1>1, StopRunFacts
<1>5. Sent' \subseteq Sent /\ Refused' = Refused /\ RowsGrow /\ fl'.windows \subseteq fl'.todo
  BY <1>1, <1>4, RowsStay DEF Sent, Refused, FlushShape
<1>6. Counts' /\ Chains' /\ LostBound' /\ LostCovers'
  BY <1>1, <1>3, <1>4, <1>5, CountsTurn, ChainsTurn, LostTurn, CoversTurn
<1>7. FlushShape' /\ Order'
  BY <1>1, StopRunShape, StopRunOrder
<1>8. RecordHeld'
  BY <1>4 DEF RecordHeld, Stopping
<1>9. Clock'
  <2>1. now \in Nat /\ fl'.now \in {fl.now, now, 0}
    BY <1>1, <1>4, BoundsAssumption DEF Types, StoreTypes
  <2> QED
    BY <1>1, <1>4, <2>1, ClockStill
<1>10. FlushKnows' /\ LateOnly' /\ StopKept'
  BY <1>4, <1>5, KnowsNothing, LateNone, KeptNone
<1> QED
  BY <1>2, <1>6, <1>7, <1>8, <1>9, <1>10 DEF IInv

LEMMA TickInv ==
    ASSUME IInv, Tick
    PROVE  IInv'
<1>1. /\ Types /\ Starts /\ Counts /\ Chains /\ LostBound /\ FlushShape /\ Order /\ Clock
      /\ RecordHeld /\ FlushKnows /\ LateOnly /\ StopKept /\ LostCovers
  BY DEF IInv
<1>2. Types' /\ Starts' /\ Grows
  BY <1>1, TickTypes
<1>3. /\ UNCHANGED <<win, current, pending, latest, lost>>
      /\ UNCHANGED <<fl, rows, delayed, off, after, faults>>
      /\ \A r \in Requests : /\ req'[r].pc = req[r].pc /\ req'[r].t = req[r].t
                             /\ req'[r].w = req[r].w
  BY <1>1, TickFacts
<1>4. /\ Refused' = Refused /\ Turns(NoWindow, 0) /\ Settles /\ RowsGrow /\ Sent' = Sent
  BY <1>1, <1>3, StillTurns, StillSettles, RowsStay DEF Refused, Types, collector, Sent
<1>5. Counts' /\ LostBound' /\ LostCovers' /\ Chains'
  BY <1>1, <1>3, <1>4, CountsTurn, LostTurn, CoversTurn, ChainsTurn
<1>6. FlushShape' /\ FlushKnows' /\ LateOnly' /\ StopKept'
  BY <1>1, <1>2, <1>3, <1>4, ShapeFrame, KnowsStill, LateFrame, KeptFrame DEF Types
<1>7. Order' /\ RecordHeld'
  BY <1>1, <1>2, <1>3, OrderStill, HeldStill
<1>8. Clock'
  BY <1>1, TickClock
<1> QED
  BY <1>2, <1>5, <1>6, <1>7, <1>8 DEF IInv

LEMMA StepBackInv ==
    ASSUME IInv, StepBack
    PROVE  IInv'
<1>1. /\ Types /\ Starts /\ Counts /\ Chains /\ LostBound /\ FlushShape /\ Order /\ Clock
      /\ RecordHeld /\ FlushKnows /\ LateOnly /\ StopKept /\ LostCovers
  BY DEF IInv
<1>2. Types' /\ Starts' /\ Grows
  BY <1>1, StepBackTypes
<1>3. /\ UNCHANGED <<win, current, pending, latest, lost>>
      /\ UNCHANGED <<req, fl, rows, delayed, after>> /\ stepped'
  BY <1>1, StepBackSteps DEF StepBack, collector
<1>4. /\ Refused' = Refused /\ Turns(NoWindow, 0) /\ Sent' = Sent
  BY <1>1, <1>3, StillTurns DEF Refused, Types, collector, Sent
<1>5. Counts' /\ LostBound' /\ Chains'
  BY <1>1, <1>3, <1>4, CountsTurn, LostTurn, ChainsTurn
<1>6. FlushShape' /\ Order'
  BY <1>1, <1>2, <1>3, ShapeFrame, OrderStill DEF Types
<1>7. RecordHeld' /\ FlushKnows' /\ LateOnly' /\ StopKept' /\ LostCovers'
  BY <1>3 DEF RecordHeld, FlushKnows, LateOnly, StopKept, LostCovers
<1>8. Clock'
  BY <1>1, StepBackClock
<1> QED
  BY <1>2, <1>5, <1>6, <1>7, <1>8 DEF IInv

LEMMA StutterInv ==
    ASSUME IInv, UNCHANGED vars
    PROVE  IInv'
<1>1. /\ win' = win /\ current' = current /\ pending' = pending /\ latest' = latest
      /\ lost' = lost /\ req' = req /\ fl' = fl /\ rows' = rows /\ delayed' = delayed
      /\ now' = now /\ off' = off /\ after' = after /\ faults' = faults
  BY DEF vars, collector
<1>2. Types'
  BY <1>1 DEF IInv, Types, WindowTypes, RequestTypes, RunTypes, StoreTypes, Windows
<1>3. Starts' /\ Counts' /\ Chains' /\ LostBound'
  BY <1>1 DEF IInv, Starts, Counts, Chains, LostBound, Gone, Refused, Windows, HeldWindows, Sent
<1>4. FlushShape' /\ Order' /\ Clock' /\ RecordHeld'
  BY <1>1 DEF IInv, FlushShape, Order, Clock, RecordHeld, HeldWindows, InRecord, Stopping
<1>5. FlushKnows' /\ LateOnly' /\ StopKept' /\ LostCovers'
  BY <1>1 DEF IInv, FlushKnows, LateOnly, StopKept, LostCovers, Settled, Kept, HeldWindows,
              Owed, Refused, Unstored, IsStored, IsHeld
<1> QED
  BY <1>2, <1>3, <1>4, <1>5 DEF IInv

LEMMA RecordInv ==
    ASSUME IInv, NEW r \in Requests, Record(r)
    PROVE  IInv' /\ rows' = rows
<1>1. Types /\ Starts /\ Clock
  BY DEF IInv
<1>2. CASE LoadCurrent(r)
  BY <1>1, <1>2, LoadEnters, EnteringInv DEF LoadCurrent
<1>3. CASE WindowForHeld(r)
  BY <1>1, <1>3, HeldEnters, EnteringInv DEF WindowForHeld
<1>4. CASE WindowForBelated(r)
  <2>1. rows' = rows
    BY <1>4 DEF WindowForBelated
  <2>2. CASE \E w : Entering(r, w, NoWindow)
    BY <2>1, <2>2, EnteringInv
  <2>3. CASE /\ req[r].pc = "load" /\ Ends(r, "refused")
             /\ lost' = lost + 1
             /\ after' = IF Stopping THEN after \cup {r} ELSE after
             /\ UNCHANGED <<win, current, pending, latest>>
             /\ UNCHANGED <<fl, rows, delayed, now, off, faults>>
    BY <2>1, <2>3, RefusedInv
  <2> QED
    BY <1>1, <1>4, <2>2, <2>3, BelatedEnters
<1>5. CASE WindowForNew(r)
  BY <1>1, <1>5, NewEnters, EnteringInv DEF WindowForNew
<1>6. CASE CountIn(r)
  BY <1>6, CountInInv DEF CountIn
<1> QED
  BY <1>2, <1>3, <1>4, <1>5, <1>6 DEF Record

LEMMA NextInv ==
    ASSUME IInv, [Next]_vars
    PROVE  IInv' /\ RowsGrow
<1>1. CASE \E r \in Requests : Finish(r)
  BY <1>1, FinishInv, RowsStay DEF Finish
<1>2. CASE \E r \in Requests : Record(r)
  BY <1>2, RecordInv, RowsStay
<1>3. CASE FlushBegin
  BY <1>3, FlushBeginInv, RowsStay DEF FlushBegin
<1>4. CASE FlushRead
  BY <1>4, FlushReadInv, RowsStay DEF FlushRead
<1>5. CASE WriteMinutes
  BY <1>5, WriteMinutesInv
<1>6. CASE FlushForget
  BY <1>6, FlushForgetInv, RowsStay DEF FlushForget
<1>7. CASE WriteFails
  BY <1>7, WriteFailsInv, RowsStay DEF WriteFails
<1>8. CASE StopRun
  BY <1>8, StopRunInv, RowsStay DEF StopRun
<1>9. CASE \E s \in delayed : DelayedCommit(s)
  BY <1>9, DelayedInv
<1>10. CASE Tick
  BY <1>10, TickInv, RowsStay DEF Tick
<1>11. CASE StepBack
  BY <1>11, StepBackInv, RowsStay DEF StepBack
<1>12. CASE UNCHANGED vars
  BY <1>12, StutterInv, RowsStay DEF vars
<1> QED
  BY <1>1, <1>2, <1>3, <1>4, <1>5, <1>6, <1>7, <1>8, <1>9, <1>10, <1>11, <1>12 DEF Next, Flush

(* The invariant holds in every reachable state. *)
LEMMA Invariance == Spec => []IInv
<1>1. Init => IInv
  BY InitInv
<1>2. IInv /\ [Next]_vars => IInv'
  BY NextInv
<1> QED
  BY <1>1, <1>2, PTL DEF Spec

-----------------------------------------------------------------------------
(* The collector keeps its types: it holds no more than MaxPending windows
   besides the current one, and Lost never counts a request twice. *)
THEOREM TypeCorrect == Spec => []TypeOK
<1>1. ASSUME IInv PROVE TypeOK
  <2>1. Types /\ LostBound /\ FlushShape
    BY <1>1 DEF IInv
  <2>2. lost \in 0..MaxRequests
    <3>1. Cardinality(Gone) <= Cardinality(Requests) /\ Cardinality(Gone) \in Nat
      BY GoneFacts, RequestsFinite, SmallerSet
    <3> QED
      BY <2>1, <3>1, RequestsFinite, BoundsAssumption DEF LostBound, Types, WindowTypes
  <2>3. Len(win) \in Nat /\ Windows = 1..Len(win)
    BY <2>1, WindowFacts DEF Types, Windows
  <2>4. current \in 0..Len(win)
    BY <2>1, <2>3 DEF Types, WindowTypes, NoWindow
  <2>5. req \in [Requests -> [pc : Steps, t : 0..MaxNow, age : 0..MaxDelay, w : 0..Len(win)]]
    <3>1. req \in [Requests -> RequestType] /\ \A r \in Requests : req[r].w <= Len(win)
      BY <2>1 DEF Types, RequestTypes
    <3>2. \A r \in Requests :
            req[r] \in [pc : Steps, t : 0..MaxNow, age : 0..MaxDelay, w : 0..Len(win)]
      BY <2>3, <3>1 DEF RequestType
    <3> QED
      BY <3>1, <3>2
  <2>6. fl \in [pc : RunSteps, now : 0..MaxNow, todo : SUBSET (1..Len(win)),
                windows : SUBSET (1..Len(win)), snap : SUBSET Snapshots,
                final : BOOLEAN, failed : BOOLEAN]
    <3>1. fl \in RunType /\ fl.windows \subseteq 1..Len(win) /\ fl.todo \subseteq 1..Len(win)
      BY <2>1, <2>3 DEF Types, RunTypes, FlushShape
    <3> QED
      BY <3>1 DEF RunType
  <2>7. win \in Seq([start : Minutes, closedAt : Int, reqs : SUBSET Requests])
    BY <2>1 DEF Types, WindowTypes, WindowType
  <2> QED
    BY <2>1, <2>2, <2>3, <2>4, <2>5, <2>6, <2>7 DEF TypeOK, Types, WindowTypes, StoreTypes
<1> QED
  BY <1>1, Invariance, PTL

(* A stored minute never loses a request, whatever fails, commits late, comes
   late or happens to the clock (writeMinutesSQL, windowFor). *)
THEOREM RowsNeverShrink == Spec => RowsOnlyGrow
<1>1. IInv /\ [Next]_vars => [\A m \in Minutes : rows[m] \subseteq rows'[m]]_vars
  BY NextInv DEF RowsGrow
<1> QED
  BY <1>1, Invariance, PTL DEF Spec, RowsOnlyGrow

(* Until Run stops Lost covers every request that is not stored and never will
   be, as long as the clock is not set back (closeLocked, Flush, Record). *)
THEOREM LostAccounts == Spec => []LostCoversDrops
<1>1. ASSUME IInv PROVE LostCoversDrops
  <2> SUFFICES ASSUME ~stepped, ~Stopping
               PROVE  Cardinality(Refused \cup {r \in Unstored : ~IsHeld(r)}) <= lost
    BY DEF LostCoversDrops
  <2>1. after = {} /\ LostCovers
    BY <1>1 DEF IInv, Order
  <2>2. Refused \cup {r \in Unstored : ~IsHeld(r)} = Owed
    BY <2>1 DEF Owed
  <2> QED
    BY <2>1, <2>2 DEF LostCovers
<1> QED
  BY <1>1, Invariance, PTL

(* A stop whose last write succeeded leaves unstored only what Lost covers and
   what was counted after the stop began (Run, closeCurrent). *)
THEOREM StopComplete == Spec => []StopLosesOnlyLate
<1>1. ASSUME IInv PROVE StopLosesOnlyLate
  <2> SUFFICES ASSUME fl.pc = "stopped", ~fl.failed, ~stepped
               PROVE  Cardinality((Refused \cup Unstored) \ after) <= lost
    BY DEF StopLosesOnlyLate
  <2>1. Types /\ StopKept /\ LostCovers
    BY <1>1 DEF IInv
  <2>2. ASSUME NEW r \in Unstored, r \notin after PROVE ~IsHeld(r)
    <3> SUFFICES ASSUME IsHeld(r) PROVE FALSE
      OBVIOUS
    <3>1. PICK w \in HeldWindows : r \in win[w].reqs
      BY HeldMeans
    <3>2. r \in rows[win[w].start] /\ win[w].start \in Minutes
      BY <2>1, <2>2, <3>1, WindowFacts DEF StopKept, Types
    <3> QED
      BY <2>2, <3>2 DEF Unstored, IsStored
  <2>3. (Refused \cup Unstored) \ after = Owed
    BY <2>2 DEF Owed
  <2> QED
    BY <2>1, <2>3 DEF LostCovers
<1> QED
  BY <1>1, Invariance, PTL
=============================================================================
