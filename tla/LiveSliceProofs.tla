--------------------------- MODULE LiveSliceProofs ---------------------------
(***************************************************************************)
(* Proofs about the live multi-view capture, for any number of cameras,    *)
(* any window, tolerance and freshness, any resolution of the clock and    *)
(* any number of captures and faults.                                      *)
(***************************************************************************)
EXTENDS LiveSlice, WellFoundedInduction, TLAPS

(* A set of naturals that is not empty has a least member.                 *)
LEMMA LeastExists ==
  ASSUME NEW T \in SUBSET Nat, T # {}
  PROVE  \E m \in T : \A t \in T : m <= t
<1>1. IsWellFoundedOn(OpToRel(<, Nat), Nat)
  BY NatLessThanWellFounded
<1>2. PICK m \in T : \A t \in T : ~(<<t, m>> \in OpToRel(<, Nat))
  BY <1>1, WFMin
<1>3. ASSUME NEW t \in T
      PROVE  m <= t
  <2>1. <<t, m>> \notin {ss \in Nat \X Nat : ss[1] < ss[2]}
    BY <1>2 DEF OpToRel
  <2>2. ~(t < m)
    BY <2>1
  <2> QED  BY <2>2
<1> QED  BY <1>3

(* A bounded one has a greatest: its distance to the bound is least.       *)
LEMMA GreatestExists ==
  ASSUME NEW n \in Nat, NEW T \in SUBSET (0 .. n), T # {}
  PROVE  \E m \in T : \A t \in T : t <= m
<1> DEFINE D == {n - t : t \in T}
<1>1. D \in SUBSET Nat
  OBVIOUS
<1>2. D # {}
  OBVIOUS
<1>3. PICK x \in D : \A y \in D : x <= y
  <2> HIDE DEF D
  <2> QED  BY <1>1, <1>2, LeastExists
<1>4. PICK m \in T : x = n - m
  OBVIOUS
<1>5. \A t \in T : t <= m
  BY <1>3, <1>4
<1> QED  BY <1>5

(* The shared end of a capture is a time that has come.                    *)
LEMMA SharedEndBounded ==
  ASSUME TypeOK
  PROVE  /\ \A c \in Camera : LatestEnd(c) \in 0 .. clock
         /\ SharedEnd \in 0 .. clock
<1> USE SliceAssumption
<1>1. clock \in Nat
  BY DEF TypeOK, Time
<1>2. ASSUME NEW c \in Camera
      PROVE  LatestEnd(c) \in 0 .. clock
  <2> DEFINE T == {0} \cup {s.end : s \in {r \in rows : r.camera = c}}
  <2>1. T \in SUBSET (0 .. clock)
    BY <1>1 DEF TypeOK, Segment, Time
  <2>2. T # {}
    OBVIOUS
  <2>3. LatestEnd(c) = Max(T)
    BY DEF LatestEnd
  <2> HIDE DEF T
  <2>4. \E m \in T : \A t \in T : t <= m
    BY <1>1, <2>1, <2>2, GreatestExists
  <2>5. \E m \in T : \A t \in T : m >= t
    BY <2>1, <2>4
  <2>6. Max(T) \in T
    BY <2>5 DEF Max
  <2> QED  BY <2>1, <2>3, <2>6
<1>3. SharedEnd \in 0 .. clock
  <2> DEFINE T == {LatestEnd(c) : c \in Camera}
  <2>1. T \in SUBSET (0 .. clock)
    BY <1>2
  <2>2. T # {}
    <3>1. 1 \in Camera
      BY DEF Camera
    <3> QED  BY <3>1
  <2>3. SharedEnd = Min(T)
    BY DEF SharedEnd
  <2> HIDE DEF T
  <2>4. T \in SUBSET Nat
    BY <1>1, <2>1
  <2>5. \E m \in T : \A t \in T : m <= t
    BY <2>2, <2>4, LeastExists
  <2>6. Min(T) \in T
    BY <2>5 DEF Min
  <2> QED  BY <2>1, <2>3, <2>6
<1> QED  BY <1>2, <1>3

(* The segments one camera contributes to a capture cover its window, and  *)
(* none of them ended a longest hole before it.                            *)
LEMMA WindowCovers ==
  ASSUME TypeOK,
         NEW c \in Camera, NEW e \in Nat,
         WindowSegments(c, e) # {}
  PROVE  /\ WindowSegments(c, e) \subseteq {s \in rows \cap files : s.camera = c}
         /\ Covers(WindowSegments(c, e), e)
         /\ \A h \in Nat : HolesWithin(c, e, h) =>
              \A s \in WindowSegments(c, e) : s.end > e - Window - h
<1> USE SliceAssumption
<1> DEFINE eligible == Eligible(c, e)
           Higher(s) == Above(eligible, s)
           Adjoins(s) == \/ s.end >= e - MaxGap
                         \/ \E u \in Higher(s) : s.end >= u.start - MaxGap
           picked == {s \in eligible :
                        /\ Adjoins(s) /\ \A u \in Higher(s) : Adjoins(u)
                        /\ \A u \in Higher(s) : e - u.start < Window}
<1>0. MaxGap \in Nat /\ Window \in Nat \ {0}
  OBVIOUS
<1>1. /\ WindowSegments(c, e) = picked
      /\ \E s \in picked : e - s.start >= Window
  <2>1. WindowSegments(c, e) = IF \E s \in picked : e - s.start >= Window THEN picked ELSE {}
    BY DEF WindowSegments
  <2> HIDE DEF picked
  <2> QED  BY <2>1
<1>2. /\ eligible \subseteq {s \in rows \cap files : s.camera = c}
      /\ \A s \in eligible : /\ s.start \in Nat /\ s.end \in Nat /\ s.start < s.end
                             /\ s.start <= MaxTime /\ s.end <= MaxTime
                             /\ s.start <= e + MaxGap
  BY DEF TypeOK, Segment, Time, Eligible
<1>3. \A s \in eligible : \A u \in Higher(s) :
        /\ u \in eligible /\ u.start >= s.start
        /\ Higher(u) \subseteq Higher(s)
  BY <1>2 DEF Above
<1>4. \A s \in picked : \A u \in Higher(s) : u \in picked
  BY <1>3
<1>5. ASSUME NEW h \in Nat, NEW s \in picked,
             \/ s.end >= e - h
             \/ \E u \in picked : u.start > s.start /\ s.end >= u.start - h
      PROVE  s.end > e - Window - h
  <2>1. s.end \in Nat
    BY <1>2
  <2>2. CASE s.end >= e - h
    BY <1>0, <2>1, <2>2
  <2>3. CASE \E u \in picked : u.start > s.start /\ s.end >= u.start - h
    <3>1. PICK u \in picked : u.start > s.start /\ s.end >= u.start - h
      BY <2>3
    <3>2. u \in Higher(s)
      BY <3>1 DEF Above
    <3>3. u.start \in Nat /\ e - u.start < Window
      BY <1>2, <3>2
    <3> QED  BY <1>0, <2>1, <3>1, <3>3
  <2> QED  BY <1>5, <2>2, <2>3
<1>6. \A s \in picked : s.start <= e + MaxGap /\ s.end > e - Window - MaxGap
  <2> SUFFICES ASSUME NEW s \in picked
               PROVE  s.start <= e + MaxGap /\ s.end > e - Window - MaxGap
    OBVIOUS
  <2>1. s.start <= e + MaxGap /\ s.end \in Nat
    BY <1>2
  <2>2. CASE s.end >= e - MaxGap
    BY <1>0, <2>1, <2>2
  <2>3. CASE \E u \in Higher(s) : s.end >= u.start - MaxGap
    <3>1. PICK u \in Higher(s) : s.end >= u.start - MaxGap
      BY <2>3
    <3>2. u.start \in Nat /\ e - u.start < Window
      BY <1>2, <1>3
    <3> QED  BY <1>0, <2>1, <3>1, <3>2
  <2> QED  BY <2>2, <2>3
<1>7. ASSUME NEW x \in (e - Window) .. (e - MaxGap - 1)
      PROVE  \E s \in picked : s.start <= x + MaxGap /\ s.end > x
  <2>1. x \in Int /\ e - Window <= x /\ x <= e - MaxGap - 1
    BY <1>0
  <2> DEFINE Low == {s \in picked : s.start <= x + MaxGap}
             starts == {s.start : s \in Low}
  <2>2. starts \in SUBSET (0 .. MaxTime)
    BY <1>2
  <2>3. starts # {}
    <3>1. PICK s \in picked : e - s.start >= Window
      BY <1>1
    <3>2. s.start \in Nat
      BY <1>2
    <3>3. s.start <= x + MaxGap
      BY <1>0, <2>1, <3>1, <3>2
    <3> QED  BY <3>1, <3>3
  <2>4. PICK m \in starts : \A n \in starts : n <= m
    <3> HIDE DEF starts
    <3>1. MaxTime \in Nat
      OBVIOUS
    <3> QED  BY <2>2, <2>3, <3>1, GreatestExists
  <2> DEFINE ends == {s.end : s \in {l \in Low : l.start = m}}
  <2>5. ends \in SUBSET (0 .. MaxTime) /\ ends # {}
    BY <1>2, <2>4
  <2>6. PICK k \in ends : \A n \in ends : n <= k
    <3> HIDE DEF ends
    <3>1. MaxTime \in Nat
      OBVIOUS
    <3> QED  BY <2>5, <3>1, GreatestExists
  <2>7. PICK s \in Low : s.start = m /\ s.end = k
    BY <2>6
  <2>8. ASSUME NEW u \in Higher(s)
        PROVE  u.start > x + MaxGap /\ u.start \in Nat
    <3>1. u \in picked /\ u.start \in Nat /\ u.end \in Nat
      BY <1>2, <1>4, <2>7
    <3>2. u.start > m \/ (u.start = m /\ u.end > k)
      BY <2>7 DEF Above
    <3>3. m \in Nat /\ k \in Nat
      BY <1>2, <2>7
    <3>4. CASE u \in Low
      <4>1. u.start \in starts
        BY <3>4
      <4>2. u.start <= m
        BY <2>4, <4>1
      <4>3. u.start = m /\ u.end > k
        BY <3>1, <3>2, <3>3, <4>2
      <4>4. u.end \in ends
        BY <3>4, <4>3
      <4>5. u.end <= k
        BY <2>6, <4>4
      <4> QED  BY <3>1, <3>3, <4>3, <4>5
    <3>5. CASE u \notin Low
      BY <1>0, <2>1, <3>1, <3>5
    <3> QED  BY <3>4, <3>5
  <2>9. s \in picked /\ s.start <= x + MaxGap /\ s.end \in Nat
    BY <1>2, <2>7
  <2>10. CASE s.end >= e - MaxGap
    BY <1>0, <2>1, <2>9, <2>10
  <2>11. CASE \E u \in Higher(s) : s.end >= u.start - MaxGap
    <3>1. PICK u \in Higher(s) : s.end >= u.start - MaxGap
      BY <2>11
    <3>2. u.start > x + MaxGap /\ u.start \in Nat
      BY <2>8
    <3>3. s.end > x
      BY <1>0, <2>1, <2>9, <3>1, <3>2
    <3> QED  BY <2>9, <3>3
  <2> QED  BY <2>9, <2>10, <2>11
<1> HIDE DEF picked
<1>8. Covers(picked, e)
  BY <1>1, <1>6, <1>7 DEF Covers
<1>9. picked \subseteq {s \in rows \cap files : s.camera = c}
  BY <1>2 DEF picked
<1>10. ASSUME NEW h \in Nat, HolesWithin(c, e, h)
       PROVE  \A s \in picked : s.end > e - Window - h
  BY <1>1, <1>5, <1>10 DEF HolesWithin
<1> QED  BY <1>1, <1>8, <1>9, <1>10

-----------------------------------------------------------------------------
(* What is inductive: the pins of every row; a capture that has pinned its *)
(* windows keeps their rows until it has given them back, and one that has *)
(* not frozen them has pinned nothing; and a capture comes to its save     *)
(* with its directory in place.                                            *)
Pins ==
  /\ PinsAccounted
  /\ snapshot \subseteq rows

Phases ==
  /\ capture \in {"idle", "freeze"} => snapshot = {}
  /\ capture # "idle" => case \in Case
  /\ capture = "save" => case \in published

IInv == TypeOK /\ Pins /\ Phases /\ ReadyComplete /\ SharedWindow

LEMMA InitIInv == Init => IInv
<1> SUFFICES ASSUME Init PROVE IInv
  OBVIOUS
<1> USE SliceAssumption
<1>1. /\ clock = 0 /\ 0 \in Time /\ faults \in 0 .. MaxFaults
      /\ files = {} /\ rows = {} /\ seen = {} /\ snapshot = {}
      /\ now \in 0 .. clock /\ end \in 0 .. clock
      /\ camera \in 0 .. NumCameras /\ case \in 0 .. MaxCase
      /\ capture = "idle" /\ worker = "idle" /\ published = {}
  BY DEF Init, Time
<1>2. refs \in [rows -> Nat] /\ leaked \in [rows -> Nat]
  BY <1>1 DEF Init
<1>3. /\ online \in [Camera -> BOOLEAN]
      /\ latestAt \in [Camera -> 0 .. clock]
      /\ ffmpeg \in [Camera -> {"off", "up", "exited"}]
      /\ restartAt \in [Camera -> Nat]
      /\ written \in [Camera -> {w \in 0 .. clock : w < MaxLength}]
      /\ cases = [i \in Case |-> "none"]
  BY DEF Init
<1>4. TypeOK
  BY <1>1, <1>2, <1>3 DEF TypeOK
<1>5. Pins
  BY <1>1 DEF Pins, PinsAccounted
<1>6. Phases /\ ReadyComplete /\ SharedWindow
  BY <1>1, <1>3 DEF Phases, ReadyComplete, SharedWindow
<1> QED  BY <1>4, <1>5, <1>6 DEF IInv

(* Steps of the host and the worker leave the capture as it is.            *)
LEMMA CaptureLeft ==
  ASSUME IInv, TypeOK', Pins', UNCHANGED coordinator
  PROVE  IInv'
<1>1. Phases' /\ ReadyComplete'
  BY DEF IInv, Phases, ReadyComplete, coordinator
<1>2. SharedWindow'
  BY DEF IInv, SharedWindow, Covers, coordinator
<1> QED  BY <1>1, <1>2 DEF IInv

(* Most of them, and most of the server's, leave the index as it is.       *)
LEMMA PinsKept ==
  ASSUME IInv, UNCHANGED <<index, snapshot>>
  PROVE  Pins'
BY DEF IInv, Pins, PinsAccounted, index

(* A new row has no pins, and a row that stays keeps its own.              *)
LEMMA Reindexed ==
  ASSUME IInv, NEW newRows, snapshot \subseteq newRows,
         Reindex(newRows), UNCHANGED snapshot
  PROVE  /\ rows' = newRows
         /\ refs' \in [rows' -> Nat] /\ leaked' \in [rows' -> Nat]
         /\ Pins'
<1> DEFINE Count(f) == [s \in newRows |-> IF s \in rows THEN f[s] ELSE 0]
<1>1. /\ rows' = newRows
      /\ refs' = Count(refs) /\ leaked' = Count(leaked)
  BY DEF Reindex
<1>2. refs' \in [rows' -> Nat] /\ leaked' \in [rows' -> Nat]
  BY <1>1 DEF IInv, TypeOK
<1>3. ASSUME NEW s \in rows'
      PROVE  refs'[s] = leaked'[s] + (IF s \in snapshot' THEN 1 ELSE 0)
  <2>1. CASE s \in rows
    BY <1>1, <2>1 DEF IInv, Pins, PinsAccounted
  <2>2. CASE s \notin rows
    BY <1>1, <2>2 DEF IInv, Pins
  <2> QED  BY <2>1, <2>2
<1> QED  BY <1>1, <1>2, <1>3 DEF Pins, PinsAccounted

LEMMA HealthTyped ==
  ASSUME TypeOK, NEW c \in Camera, NEW isOnline \in BOOLEAN, NEW at \in 0 .. clock,
         SetHealth(c, isOnline, at)
  PROVE  /\ online' \in [Camera -> BOOLEAN]
         /\ latestAt' \in [Camera -> 0 .. clock]
BY DEF TypeOK, SetHealth

LEMMA FaultTyped ==
  ASSUME TypeOK, Fault \/ UNCHANGED faults
  PROVE  faults' \in 0 .. MaxFaults
BY SliceAssumption DEF TypeOK, Fault

(* What FFmpeg has written ends as a segment of the time that has come.    *)
LEMMA CutTyped ==
  ASSUME NEW cameras \in SUBSET Camera, NEW time \in Time, NEW length,
         \A c \in cameras : length[c] \in 1 .. time /\ length[c] <= MaxLength
  PROVE  Cut(cameras, length, time) \subseteq {s \in Segment : s.end <= time}
<1> USE SliceAssumption
<1> SUFFICES ASSUME NEW c \in cameras
             PROVE  [camera |-> c, start |-> time - length[c], end |-> time] \in Segment
  BY DEF Cut, Time
<1>1. time \in Nat /\ time <= MaxTime
  BY DEF Time
<1>2. length[c] \in Nat /\ 1 <= length[c] /\ length[c] <= time /\ length[c] <= MaxLength
  BY <1>1
<1>3. /\ time - length[c] \in Time
      /\ time - length[c] < time
      /\ time - (time - length[c]) <= MaxLength
  BY <1>1, <1>2 DEF Time
<1> QED  BY <1>3 DEF Segment

LEMMA LastSegmentsTyped ==
  ASSUME TypeOK, NEW cameras \in SUBSET Camera
  PROVE  LastSegments(cameras) \subseteq {s \in Segment : s.end <= clock}
<1> DEFINE writing == {c \in cameras : written[c] > 0}
<1>1. \A c \in writing : written[c] \in 1 .. clock /\ written[c] <= MaxLength
  BY SliceAssumption DEF TypeOK, Time
<1>2. writing \in SUBSET Camera /\ clock \in Time
  BY DEF TypeOK
<1>3. LastSegments(cameras) = Cut(writing, written, clock)
  BY DEF LastSegments
<1> HIDE DEF writing
<1> QED  BY <1>1, <1>2, <1>3, CutTyped

LEMMA WriteStep ==
  ASSUME IInv, NEW cameras \in SUBSET Camera, Write(cameras),
         faults' \in 0 .. MaxFaults
  PROVE  IInv'
<1> USE SliceAssumption
<1> DEFINE length == [c \in Camera |->
                        IF c \in cameras THEN written[c] + 1 ELSE written[c]]
<1>1. PICK done \in SUBSET cameras :
        /\ \A c \in done : length[c] >= SegmentTime
        /\ \A c \in cameras \ done : length[c] < MaxLength
        /\ files' = files \cup Cut(done, length, clock + 1)
        /\ written' = [c \in Camera |-> IF c \in done THEN 0 ELSE length[c]]
  BY DEF Write
<1>2. /\ clock' = clock + 1 /\ clock' \in Time /\ clock \in Nat
      /\ UNCHANGED <<index, health, ffmpeg, restartAt, seen, worker, camera, now,
                     coordinator>>
  BY DEF Write, IInv, TypeOK, Time
<1>3. ASSUME NEW c \in Camera
      PROVE  /\ written[c] \in Nat /\ written[c] <= clock /\ written[c] < MaxLength
             /\ length[c] = IF c \in cameras THEN written[c] + 1 ELSE written[c]
  BY <1>2 DEF IInv, TypeOK
<1> HIDE DEF length
<1>4. \A c \in done : length[c] \in 1 .. clock' /\ length[c] <= MaxLength
  BY <1>1, <1>2, <1>3
<1>5. files' \subseteq {s \in Segment : s.end <= clock'} /\ files \subseteq files'
  <2>1. Cut(done, length, clock') \subseteq {s \in Segment : s.end <= clock'}
    BY <1>1, <1>2, <1>4, CutTyped
  <2>2. files \subseteq {s \in Segment : s.end <= clock'}
    BY <1>2 DEF IInv, TypeOK, Segment, Time
  <2> QED  BY <1>1, <1>2, <2>1, <2>2
<1>6. written' \in [Camera -> {w \in 0 .. clock' : w < MaxLength}]
  <2> SUFFICES ASSUME NEW c \in Camera
               PROVE  (IF c \in done THEN 0 ELSE length[c]) \in {w \in 0 .. clock' : w < MaxLength}
    BY <1>1
  <2> QED  BY <1>1, <1>2, <1>3
<1>7. 0 .. clock \subseteq 0 .. clock'
  BY <1>2
<1>8. latestAt' \in [Camera -> 0 .. clock'] /\ now' \in 0 .. clock' /\ end' \in 0 .. clock'
  BY <1>2, <1>7 DEF IInv, TypeOK, health, coordinator
<1>9. TypeOK'
  BY <1>2, <1>5, <1>6, <1>8 DEF IInv, TypeOK, index, health, coordinator
<1> QED  BY <1>2, <1>9, PinsKept, CaptureLeft DEF coordinator

LEMMA HostStep == IInv /\ Host => IInv'
<1> SUFFICES ASSUME IInv, Host PROVE IInv'
  OBVIOUS
<1>1. CASE Tick
  <2>1. faults' \in 0 .. MaxFaults
    BY <1>1, FaultTyped DEF IInv, Tick
  <2>2. Running \in SUBSET Camera
    BY DEF Running
  <2> QED  BY <1>1, <2>1, <2>2, WriteStep DEF Tick
<1>2. ASSUME NEW c \in Camera, TickStalled(c)
      PROVE  IInv'
  <2>1. faults' \in 0 .. MaxFaults
    BY <1>2, FaultTyped DEF IInv, TickStalled
  <2>2. Running \ {c} \in SUBSET Camera
    BY DEF Running
  <2> QED  BY <1>2, <2>1, <2>2, WriteStep DEF TickStalled
<1>3. ASSUME NEW c \in Camera, FfmpegExits(c)
      PROVE  IInv'
  <2>1. faults' \in 0 .. MaxFaults
    BY <1>3, FaultTyped DEF IInv, FfmpegExits
  <2>2. LastSegments({c}) \subseteq {s \in Segment : s.end <= clock}
    BY LastSegmentsTyped DEF IInv
  <2>3. 0 \in {w \in 0 .. clock : w < MaxLength}
    BY SliceAssumption DEF IInv, TypeOK, Time
  <2>4. TypeOK'
    BY <1>3, <2>1, <2>2, <2>3 DEF IInv, TypeOK, FfmpegExits, index, health, coordinator
  <2> QED  BY <1>3, <2>4, PinsKept, CaptureLeft DEF FfmpegExits, coordinator
<1> QED  BY <1>1, <1>2, <1>3 DEF Host

(* A visit to a camera starts or starts not its FFmpeg.                    *)
LEMMA VisitStep ==
  ASSUME IInv, NEW c \in Camera, NEW time \in 0 .. clock, Visit(c, time)
  PROVE  IInv'
<1> USE SliceAssumption DEF Visit
<1>0. clock \in Nat /\ 0 \in 0 .. clock /\ time \in Nat
  BY DEF IInv, TypeOK, Time
<1>1. /\ online' \in [Camera -> BOOLEAN]
      /\ latestAt' \in [Camera -> 0 .. clock]
  <2>1. CASE UNCHANGED health
    BY <2>1 DEF IInv, TypeOK, health
  <2>2. CASE SetHealth(c, FALSE, 0)
    BY <1>0, <2>2, HealthTyped DEF IInv
  <2> QED  BY <2>1, <2>2 DEF EnsureProcess
<1>2. /\ ffmpeg' \in [Camera -> {"off", "up", "exited"}]
      /\ restartAt' \in [Camera -> Nat]
  <2>1. time + RestartDelay \in Nat /\ time + RetryDelay \in Nat
    BY <1>0
  <2>2. /\ ffmpeg \in [Camera -> {"off", "up", "exited"}]
        /\ restartAt \in [Camera -> Nat]
    BY DEF IInv, TypeOK
  <2>3. \/ ffmpeg' = ffmpeg
        \/ ffmpeg' = [ffmpeg EXCEPT ![c] = "off"]
        \/ ffmpeg' = [ffmpeg EXCEPT ![c] = "up"]
    BY DEF EnsureProcess
  <2>4. \/ restartAt' = restartAt
        \/ restartAt' = [restartAt EXCEPT ![c] = time + RestartDelay]
        \/ restartAt' = [restartAt EXCEPT ![c] = time + RetryDelay]
    BY DEF EnsureProcess
  <2> HIDE DEF Visit
  <2> QED  BY <2>1, <2>2, <2>3, <2>4
<1>3. faults' \in 0 .. MaxFaults
  BY FaultTyped DEF EnsureProcess, IInv
<1>4. camera' \in 0 .. NumCameras
  BY DEF Camera
<1>5. TypeOK'
  BY <1>1, <1>2, <1>3, <1>4 DEF IInv, TypeOK, index, coordinator
<1> QED  BY <1>5, PinsKept, CaptureLeft DEF coordinator

LEMMA ReconcileStep ==
  ASSUME IInv, NEW s \in files,
         NEW isOnline \in BOOLEAN, NEW at \in 0 .. clock,
         Reconcile(s), SetHealth(s.camera, isOnline, at),
         Reindex(rows \cup {s}) \/ UNCHANGED index,
         faults' \in 0 .. MaxFaults
  PROVE  IInv'
<1>1. s.camera \in Camera
  BY DEF IInv, TypeOK, Segment
<1>2. /\ online' \in [Camera -> BOOLEAN]
      /\ latestAt' \in [Camera -> 0 .. clock]
  BY <1>1, HealthTyped DEF IInv
<1>3. UNCHANGED snapshot
  BY DEF Reconcile, coordinator
<1>4. /\ rows' \subseteq files
      /\ refs' \in [rows' -> Nat] /\ leaked' \in [rows' -> Nat]
      /\ Pins'
  <2>1. CASE UNCHANGED index
    BY <1>3, <2>1, PinsKept DEF IInv, TypeOK, index
  <2>2. CASE Reindex(rows \cup {s})
    <3>1. snapshot \subseteq rows \cup {s}
      BY DEF IInv, Pins
    <3>2. /\ rows' = rows \cup {s}
          /\ refs' \in [rows' -> Nat] /\ leaked' \in [rows' -> Nat]
          /\ Pins'
      BY <1>3, <2>2, <3>1, Reindexed
    <3> QED  BY <3>2 DEF IInv, TypeOK
  <2> QED  BY <2>1, <2>2
<1>5. TypeOK'
  BY <1>2, <1>4 DEF IInv, TypeOK, Reconcile, processes, coordinator
<1> QED  BY <1>4, <1>5, CaptureLeft DEF Reconcile

(* The rows that are pruned are pinned by nobody.                          *)
LEMMA PruneRowsStep == IInv /\ PruneRows => IInv'
<1> SUFFICES ASSUME IInv, PruneRows PROVE IInv'
  OBVIOUS
<1> USE DEF PruneRows
<1>1. ASSUME NEW s \in snapshot
      PROVE  s \in rows /\ refs[s] > 0
  <2>1. s \in rows
    BY DEF IInv, Pins
  <2>2. refs[s] = leaked[s] + 1 /\ leaked[s] \in Nat
    BY <2>1 DEF IInv, TypeOK, Pins, PinsAccounted
  <2> QED  BY <2>1, <2>2
<1>2. snapshot \subseteq rows \ Prunable
  BY <1>1 DEF Prunable
<1>3. UNCHANGED snapshot
  BY DEF coordinator
<1>4. /\ rows' = rows \ Prunable
      /\ refs' \in [rows' -> Nat] /\ leaked' \in [rows' -> Nat]
      /\ Pins'
  BY <1>2, <1>3, Reindexed
<1>5. TypeOK'
  BY <1>4, SliceAssumption DEF IInv, TypeOK, health, processes, coordinator
<1> QED  BY <1>4, <1>5, CaptureLeft

LEMMA UnlinkStep ==
  ASSUME IInv, NEW paths, paths \cap rows = {}, Unlink(paths),
         faults' \in 0 .. MaxFaults
  PROVE  IInv'
<1>1. TypeOK'
  BY DEF IInv, TypeOK, Unlink, index, health, processes, coordinator
<1> QED  BY <1>1, PinsKept, CaptureLeft DEF Unlink, coordinator

LEMMA WorkerStep == IInv /\ (Round \/ RoundFails) => IInv'
<1> SUFFICES ASSUME IInv, Round \/ RoundFails PROVE IInv'
  OBVIOUS
<1> USE SliceAssumption
<1>0. clock \in Nat /\ now \in 0 .. clock /\ camera \in 0 .. NumCameras
  BY DEF IInv, TypeOK, Time
<1>1. CASE WorkerStarts
  <2>1. TypeOK'
    BY <1>0, <1>1 DEF IInv, TypeOK, WorkerStarts, index, health, processes, coordinator
  <2> QED  BY <1>1, <2>1, PinsKept, CaptureLeft DEF WorkerStarts, coordinator
<1>2. CASE WorkerStops
  <2>1. faults' \in 0 .. MaxFaults
    BY <1>2, FaultTyped DEF IInv, WorkerStops
  <2>2. LastSegments(Camera) \subseteq {s \in Segment : s.end <= clock}
    BY LastSegmentsTyped DEF IInv
  <2>3. TypeOK'
    BY <1>0, <1>2, <2>1, <2>2 DEF IInv, TypeOK, WorkerStops, index, health, coordinator
  <2> QED  BY <1>2, <2>3, PinsKept, CaptureLeft DEF WorkerStops, coordinator
<1>3. CASE BeginRound
  <2>1. 1 \in Camera /\ clock \in 0 .. clock
    BY <1>0 DEF Camera
  <2> QED  BY <1>3, <2>1, VisitStep DEF BeginRound
<1>4. CASE NextCamera
  <2>1. camera + 1 \in Camera
    BY <1>0, <1>4 DEF NextCamera, Camera
  <2> QED  BY <1>0, <1>4, <2>1, VisitStep DEF NextCamera
<1>5. CASE PruneRows
  BY <1>5, PruneRowsStep
<1>6. CASE PruneFiles
  <2>1. Unlink(Stale(rows)) /\ UNCHANGED faults
    BY <1>6 DEF PruneFiles
  <2>2. faults' \in 0 .. MaxFaults
    BY <2>1, FaultTyped DEF IInv
  <2>3. Stale(rows) \cap rows = {}
    BY DEF Stale
  <2> QED  BY <2>1, <2>2, <2>3, UnlinkStep
<1>7. ASSUME NEW s \in Unseen, RecordSegment(s)
      PROVE  IInv'
  <2>0. s \in files
    BY DEF Unseen
  <2>1. faults' \in 0 .. MaxFaults
    BY <1>7, FaultTyped DEF IInv, RecordSegment
  <2>2. s.end \in 0 .. clock
    BY <1>0, <2>0 DEF IInv, TypeOK, Segment, Time
  <2> QED  BY <1>7, <2>0, <2>1, <2>2, ReconcileStep DEF RecordSegment
<1>8. ASSUME NEW s \in Unseen, RejectSegment(s)
      PROVE  IInv'
  <2>0. s \in files
    BY DEF Unseen
  <2>1. faults' \in 0 .. MaxFaults
    BY <1>8, FaultTyped DEF IInv, RejectSegment, ProbeFails
  <2>2. 0 \in 0 .. clock
    BY <1>0
  <2> QED  BY <1>8, <2>0, <2>1, <2>2, ReconcileStep DEF RejectSegment, ProbeFails
<1>9. ASSUME NEW s \in Stale(rows), PruneFilesFails(s)
      PROVE  IInv'
  <2>1. Unlink(Stale(rows) \ {s}) /\ Fault
    BY <1>9 DEF PruneFilesFails
  <2>2. faults' \in 0 .. MaxFaults
    BY <2>1, FaultTyped DEF IInv
  <2>3. (Stale(rows) \ {s}) \cap rows = {}
    BY DEF Stale
  <2> QED  BY <2>1, <2>2, <2>3, UnlinkStep
<1> QED  BY <1>1, <1>2, <1>3, <1>4, <1>5, <1>6, <1>7, <1>8, <1>9 DEF Round, RoundFails

-----------------------------------------------------------------------------
(* A step of the server leaves the host and the worker as they are.        *)
LEMMA ServerTyped ==
  ASSUME IInv,
         NEW from \in {"idle", "freeze", "copy", "save", "fail", "release"},
         NEW to \in {"idle", "freeze", "copy", "save", "fail", "release"},
         Server(from, to),
         refs' \in [rows -> Nat], leaked' \in [rows -> Nat],
         case' \in 0 .. MaxCase, end' \in 0 .. clock,
         snapshot' \subseteq Segment,
         cases' \in [Case -> {"none", "ready", "failed"}],
         published' \subseteq Case, faults' \in 0 .. MaxFaults
  PROVE  TypeOK'
BY DEF IInv, TypeOK, Server, health, processes, supervisor

LEMMA TriggerStep == IInv /\ Trigger => IInv'
<1> SUFFICES ASSUME IInv, Trigger PROVE IInv'
  OBVIOUS
<1> USE SliceAssumption DEF Trigger
<1>1. case' \in Case /\ case' \in 0 .. MaxCase
  <2>1. case \in Nat /\ MaxCase \in Nat /\ case < MaxCase
    BY DEF IInv, TypeOK
  <2>2. case + 1 \in 1 .. MaxCase /\ case + 1 \in 0 .. MaxCase
    BY <2>1
  <2> QED  BY <2>2 DEF Case
<1>2. end' \in 0 .. clock
  BY SharedEndBounded DEF IInv
<1>3. TypeOK'
  BY <1>1, <1>2, ServerTyped DEF IInv, TypeOK
<1>4. Pins' /\ ReadyComplete'
  BY PinsKept DEF IInv, ReadyComplete, Server, index
<1>5. Phases' /\ SharedWindow'
  BY <1>1 DEF IInv, Phases, SharedWindow, Server
<1> QED  BY <1>3, <1>4, <1>5 DEF IInv

(* The transaction reads the windows and pins them at once.                *)
LEMMA FreezeStep == IInv /\ Freeze => IInv'
<1> SUFFICES ASSUME IInv, Freeze PROVE IInv'
  OBVIOUS
<1> USE SliceAssumption DEF Freeze
<1>0. snapshot = {}
  BY DEF IInv, Phases, Server
<1>1. end \in Nat /\ rows \subseteq Segment
  BY DEF IInv, TypeOK
<1>2. ASSUME NEW c \in Camera
      PROVE  /\ WindowSegments(c, end) \subseteq {s \in rows \cap files : s.camera = c}
             /\ Covers(WindowSegments(c, end), end)
  <2>1. WindowSegments(c, end) # {}
    BY DEF SharedWindowReady
  <2> QED  BY <1>1, <2>1, WindowCovers DEF IInv
<1>3. snapshot' \subseteq rows /\ snapshot' \subseteq Segment
  <2>1. snapshot' = UNION {WindowSegments(c, end) : c \in Camera}
    OBVIOUS
  <2>2. \A c \in Camera : WindowSegments(c, end) \subseteq rows
    BY <1>2
  <2> HIDE DEF Freeze
  <2> QED  BY <1>1, <2>1, <2>2
<1>4. refs' \in [rows -> Nat]
  BY DEF IInv, TypeOK
<1>5. TypeOK'
  BY <1>3, <1>4, ServerTyped DEF IInv, TypeOK
<1>6. Pins'
  <2>1. ASSUME NEW s \in rows
        PROVE  refs'[s] = leaked'[s] + (IF s \in snapshot' THEN 1 ELSE 0)
    <3>1. refs[s] = leaked[s] /\ leaked[s] \in Nat
      BY <1>0 DEF IInv, TypeOK, Pins, PinsAccounted
    <3>2. refs'[s] = IF s \in snapshot' THEN refs[s] + 1 ELSE refs[s]
      <4> HIDE DEF Freeze
      <4>1. refs' = [u \in rows |-> IF u \in snapshot' THEN refs[u] + 1 ELSE refs[u]]
        BY DEF Freeze
      <4> QED  BY <4>1
    <3> QED  BY <3>1, <3>2
  <2> QED  BY <1>3, <2>1 DEF Pins, PinsAccounted, Server
<1>7. Phases' /\ ReadyComplete'
  BY DEF IInv, Phases, ReadyComplete, Server
<1>8. SharedWindow'
  <2>1. ASSUME NEW c \in Camera
        PROVE  {s \in snapshot' : s.camera = c} = WindowSegments(c, end)
    BY <1>2
  <2>2. end' = end
    OBVIOUS
  <2>3. \A c \in Camera : Covers({s \in snapshot' : s.camera = c}, end')
    BY <1>2, <2>1, <2>2
  <2> QED  BY <2>3 DEF SharedWindow, Covers
<1> QED  BY <1>5, <1>6, <1>7, <1>8 DEF IInv

(* A pin is given back exactly once.                                       *)
LEMMA ReleaseStep ==
  ASSUME IInv, NEW s \in snapshot, Release(s)
  PROVE  IInv'
<1> USE SliceAssumption DEF Release, ReleaseNext
<1>0. /\ capture = "release" /\ capture' \in {"idle", "release"}
      /\ snapshot' = snapshot \ {s} /\ snapshot \subseteq rows /\ s \in rows
      /\ capture' = "idle" => snapshot' = {}
      /\ rows' = rows /\ leaked' = leaked
  BY DEF Server, IInv, Pins
<1>1. end' \in 0 .. clock
  BY DEF IInv, TypeOK, Time
<1>2. refs[s] = leaked[s] + 1 /\ leaked[s] \in Nat
  BY <1>0 DEF IInv, TypeOK, Pins, PinsAccounted
<1>3. refs' = [refs EXCEPT ![s] = leaked[s]]
  <2>1. (IF refs[s] > 0 THEN refs[s] - 1 ELSE 0) = leaked[s]
    BY <1>2
  <2> QED  BY <2>1
<1>4. refs' \in [rows -> Nat]
  BY <1>2, <1>3 DEF IInv, TypeOK
<1>5. TypeOK'
  BY <1>0, <1>1, <1>4, ServerTyped DEF IInv, TypeOK
<1>6. Pins'
  <2>1. ASSUME NEW u \in rows
        PROVE  refs'[u] = leaked[u] + (IF u \in snapshot' THEN 1 ELSE 0)
    <3>1. CASE u = s
      BY <1>0, <1>2, <1>3, <3>1 DEF IInv, TypeOK
    <3>2. CASE u # s
      <4>1. refs'[u] = refs[u]
        BY <1>3, <3>2 DEF IInv, TypeOK
      <4>2. u \in snapshot' <=> u \in snapshot
        BY <1>0, <3>2
      <4>3. refs[u] = leaked[u] + (IF u \in snapshot THEN 1 ELSE 0)
        BY DEF IInv, Pins, PinsAccounted
      <4> QED  BY <4>1, <4>2, <4>3
    <3> QED  BY <3>1, <3>2
  <2> QED  BY <1>0, <2>1 DEF Pins, PinsAccounted
<1>7. Phases' /\ ReadyComplete' /\ SharedWindow'
  BY <1>0 DEF IInv, Phases, ReadyComplete, SharedWindow, Server
<1> QED  BY <1>5, <1>6, <1>7 DEF IInv

(* A crash, and a release that fails, leave the pins of the capture behind *)
(* them.                                                                   *)
LEMMA AbandonStep == IInv /\ Abandon => IInv'
<1> SUFFICES ASSUME IInv, Abandon PROVE IInv'
  OBVIOUS
<1> USE SliceAssumption DEF Abandon
<1>0. /\ end' \in 0 .. clock /\ faults' \in 0 .. MaxFaults
      /\ rows' = rows /\ refs' = refs /\ snapshot' = {}
  BY FaultTyped DEF IInv, TypeOK, Server, Time
<1>1. ASSUME NEW s \in rows
      PROVE  leaked'[s] = refs[s] /\ leaked'[s] \in Nat
  <2>1. /\ refs[s] = leaked[s] + (IF s \in snapshot THEN 1 ELSE 0)
        /\ leaked[s] \in Nat
    BY DEF IInv, TypeOK, Pins, PinsAccounted
  <2>2. leaked'[s] = IF s \in snapshot THEN leaked[s] + 1 ELSE leaked[s]
    OBVIOUS
  <2> QED  BY <2>1, <2>2
<1>2. leaked' \in [rows -> Nat]
  BY <1>1
<1>3. TypeOK'
  BY <1>0, <1>2, ServerTyped DEF IInv, TypeOK
<1>4. Pins'
  BY <1>0, <1>1 DEF IInv, TypeOK, Pins, PinsAccounted
<1>5. Phases' /\ ReadyComplete' /\ SharedWindow'
  BY <1>0 DEF IInv, Phases, ReadyComplete, SharedWindow, Server
<1> QED  BY <1>3, <1>4, <1>5 DEF IInv

LEMMA CaptureStep == IInv /\ (Capture \/ CaptureFails) => IInv'
<1> SUFFICES ASSUME IInv, Capture \/ CaptureFails PROVE IInv'
  OBVIOUS
<1> USE SliceAssumption
<1>0. 0 \in 0 .. clock /\ faults \in 0 .. MaxFaults
  BY DEF IInv, TypeOK, Time
<1>1. CASE Freeze
  BY <1>1, FreezeStep
<1>2. ASSUME NEW s \in snapshot, Release(s)
      PROVE  IInv'
  BY <1>2, ReleaseStep
<1>3. CASE ReleaseFails \/ ServerCrash
  BY <1>3, AbandonStep DEF ReleaseFails, ServerCrash
<1>4. CASE FreezeRefused
  <2>0. faults' \in 0 .. MaxFaults
    BY <1>4, FaultTyped DEF FreezeRefused, IInv
  <2>1. TypeOK'
    BY <1>0, <1>4, <2>0, ServerTyped DEF FreezeRefused, IInv, TypeOK
  <2>2. Pins'
    BY <1>4, PinsKept DEF FreezeRefused, Server, index
  <2>3. Phases' /\ ReadyComplete' /\ SharedWindow'
    BY <1>4 DEF FreezeRefused, Server, IInv, Phases, ReadyComplete, SharedWindow
  <2> QED  BY <2>1, <2>2, <2>3 DEF IInv
<1>5. CASE Publish
  <2>1. case \in Case
    BY <1>5 DEF Publish, Server, IInv, Phases
  <2>2. TypeOK'
    BY <1>0, <1>5, <2>1, ServerTyped DEF Publish, IInv, TypeOK
  <2>3. Pins'
    BY <1>5, PinsKept DEF Publish, Server, index
  <2>4. Phases' /\ ReadyComplete' /\ SharedWindow'
    BY <1>5, <2>1 DEF Publish, Server, IInv, Phases, ReadyComplete, SharedWindow
  <2> QED  BY <2>2, <2>3, <2>4 DEF IInv
<1>6. CASE CreateFails
  <2>1. faults' \in 0 .. MaxFaults
    BY <1>6, FaultTyped DEF CreateFails, IInv
  <2>2. TypeOK'
    BY <1>6, <2>1, ServerTyped DEF CreateFails, IInv, TypeOK
  <2>3. Pins'
    BY <1>6, PinsKept DEF CreateFails, Server, index
  <2>4. Phases' /\ ReadyComplete' /\ SharedWindow'
    BY <1>6 DEF CreateFails, Server, IInv, Phases, ReadyComplete, SharedWindow
  <2> QED  BY <2>2, <2>3, <2>4 DEF IInv
<1>7. ASSUME NEW from \in {"save", "fail"}, NEW state \in {"ready", "failed"},
             SaveCase(from, state), state = "ready" => from = "save"
      PROVE  IInv'
  <2>1. case \in Case /\ (state = "ready" => case \in published)
    BY <1>7 DEF SaveCase, Server, IInv, Phases
  <2>2. cases' \in [Case -> {"none", "ready", "failed"}]
    BY <1>7 DEF SaveCase, IInv, TypeOK
  <2>3. TypeOK'
    BY <1>0, <1>7, <2>2, ServerTyped DEF SaveCase, IInv, TypeOK
  <2>4. Pins'
    BY <1>7, PinsKept DEF SaveCase, Server, index
  <2>5. ReadyComplete'
    BY <1>7, <2>1 DEF SaveCase, IInv, ReadyComplete, TypeOK
  <2>6. Phases' /\ SharedWindow'
    BY <1>7, <2>1 DEF SaveCase, Server, IInv, Phases, SharedWindow
  <2> QED  BY <2>3, <2>4, <2>5, <2>6 DEF IInv
<1>8. CASE Save
  BY <1>7, <1>8 DEF Save
<1>9. CASE SaveFails
  <2>1. faults' \in 0 .. MaxFaults
    BY <1>9, FaultTyped DEF SaveFails, IInv
  <2>2. TypeOK'
    BY <1>9, <2>1, ServerTyped DEF SaveFails, IInv, TypeOK
  <2>3. Pins'
    BY <1>9, PinsKept DEF SaveFails, Server, index
  <2>4. Phases' /\ ReadyComplete' /\ SharedWindow'
    BY <1>9 DEF SaveFails, Server, IInv, Phases, ReadyComplete, SharedWindow
  <2> QED  BY <2>2, <2>3, <2>4 DEF IInv
<1> QED  BY <1>1, <1>2, <1>3, <1>4, <1>5, <1>6, <1>8, <1>9 DEF Capture, CaptureFails

LEMMA NextIInv == IInv /\ [Next]_vars => IInv'
<1> SUFFICES ASSUME IInv, [Next]_vars PROVE IInv'
  OBVIOUS
<1>1. CASE Host
  BY <1>1, HostStep
<1>2. CASE Round \/ RoundFails
  BY <1>2, WorkerStep
<1>3. CASE Trigger
  BY <1>3, TriggerStep
<1>4. CASE Capture \/ CaptureFails
  BY <1>4, CaptureStep
<1>5. CASE UNCHANGED vars
  <2>1. TypeOK'
    BY <1>5 DEF vars, index, health, processes, supervisor, coordinator, IInv, TypeOK
  <2> QED  BY <1>5, <2>1, PinsKept, CaptureLeft DEF vars, coordinator
<1> QED  BY <1>1, <1>2, <1>3, <1>4, <1>5 DEF Next

LEMMA Inductive == Spec => []IInv
<1> QED  BY InitIInv, NextIInv, PTL DEF Spec

-----------------------------------------------------------------------------
(* Every variable keeps its type: no pin count goes below zero, every row  *)
(* has a file, and no file is later than the clock.                        *)
THEOREM TypeCorrect == Spec => []TypeOK
<1>1. IInv => TypeOK
  BY DEF IInv
<1> QED  BY <1>1, Inductive, PTL

(* As long as a capture copies its segments the worker takes none of them  *)
(* away, however its rounds and the capture interleave and whatever fails. *)
THEOREM FrozenWindowKept == Spec => []FrozenKept
<1>1. IInv => FrozenKept
  BY DEF IInv, TypeOK, Pins, FrozenKept
<1> QED  BY <1>1, Inductive, PTL

(* Every pin on a row is one that the capture under way has yet to give    *)
(* back, or one left behind by a capture that died with the server or      *)
(* whose release failed half-way.                                          *)
THEOREM PinsExact == Spec => []PinsAccounted
<1>1. IInv => PinsAccounted
  BY DEF IInv, TypeOK, Pins, PinsAccounted
<1> QED  BY <1>1, Inductive, PTL

(* No case is offered as ready without its directory.                      *)
THEOREM ReadyCasesComplete == Spec => []ReadyComplete
<1>1. IInv => ReadyComplete
  BY DEF IInv
<1> QED  BY <1>1, Inductive, PTL

(* The segments a capture has frozen cover its window for every camera.    *)
THEOREM WindowsShared == Spec => []SharedWindow
<1>1. IInv => SharedWindow
  BY DEF IInv
<1> QED  BY <1>1, Inductive, PTL
-----------------------------------------------------------------------------
(* The time that a camera's health records is that of a row, until the row *)
(* is past its retention.                                                  *)
HealthRow(c) ==
  \/ latestAt[c] = 0
  \/ \E s \in rows : s.camera = c /\ s.end = latestAt[c]
  \/ latestAt[c] < clock - Retention

HealthRows == \A c \in Camera : HealthRow(c)

LEMMA HealthRowKept ==
  ASSUME IInv, NEW c \in Camera, HealthRow(c),
         rows \subseteq rows', clock' = clock \/ clock' = clock + 1,
         latestAt'[c] = latestAt[c]
  PROVE  HealthRow(c)'
<1> USE SliceAssumption
<1>1. clock \in Nat /\ latestAt[c] \in Nat
  BY DEF IInv, TypeOK, Time
<1>2. Retention \in Nat
  BY DEF Retention
<1>3. CASE latestAt[c] = 0
  BY <1>3 DEF HealthRow
<1>4. CASE \E s \in rows : s.camera = c /\ s.end = latestAt[c]
  BY <1>4 DEF HealthRow
<1>5. CASE latestAt[c] < clock - Retention
  <2>1. latestAt'[c] < clock' - Retention
    BY <1>1, <1>2, <1>5
  <2>2. Retention' = Retention
    BY DEF Retention
  <2> QED  BY <2>1, <2>2 DEF HealthRow
<1> QED  BY <1>3, <1>4, <1>5 DEF HealthRow

(* A health written without a time keeps the last one.                     *)
LEMMA OfflineKept ==
  ASSUME IInv, NEW c \in Camera, SetHealth(c, FALSE, 0)
  PROVE  latestAt' = latestAt
BY DEF IInv, TypeOK, SetHealth

LEMMA HealthRowsStep == IInv /\ HealthRows /\ [Next]_vars => HealthRows'
<1> SUFFICES ASSUME IInv, HealthRows, [Next]_vars, NEW c \in Camera
             PROVE  HealthRow(c)'
  BY DEF HealthRows
<1> USE SliceAssumption
<1>0. /\ HealthRow(c)
      /\ clock \in Nat /\ now \in 0 .. clock
      /\ latestAt \in [Camera -> 0 .. clock]
  BY DEF IInv, TypeOK, HealthRows, Time
<1>1. ASSUME rows \subseteq rows', clock' = clock \/ clock' = clock + 1,
             UNCHANGED latestAt
      PROVE  HealthRow(c)'
  BY <1>0, <1>1, HealthRowKept
<1>2. ASSUME NEW d \in Camera, NEW time, EnsureProcess(d, time)
      PROVE  UNCHANGED latestAt
  BY <1>2, OfflineKept DEF EnsureProcess, health
<1>3. ASSUME NEW from, NEW to, Server(from, to)
      PROVE  HealthRow(c)'
  BY <1>1, <1>3 DEF Server, health
<1>4. CASE Host
  <2>1. ASSUME NEW cameras, Write(cameras)
        PROVE  HealthRow(c)'
    BY <1>1, <2>1 DEF Write, index, health
  <2>2. ASSUME NEW d \in Camera, FfmpegExits(d)
        PROVE  HealthRow(c)'
    BY <1>1, <2>2 DEF FfmpegExits, index, health
  <2> QED  BY <1>4, <2>1, <2>2 DEF Host, Tick, TickStalled
<1>5. CASE WorkerStarts \/ WorkerStops \/ PruneFiles
  BY <1>1, <1>5 DEF WorkerStarts, WorkerStops, PruneFiles, Unlink, index, health
<1>6. CASE BeginRound
  <2>1. 1 \in Camera
    BY DEF Camera
  <2> QED  BY <1>1, <1>2, <1>6, <2>1 DEF BeginRound, Visit, index
<1>7. CASE NextCamera
  <2>1. camera \in 0 .. NumCameras /\ camera < NumCameras
    BY <1>7 DEF NextCamera, IInv, TypeOK
  <2>2. camera + 1 \in Camera
    BY <2>1 DEF Camera
  <2> QED  BY <1>1, <1>2, <1>7, <2>2 DEF NextCamera, Visit, index
<1>8. ASSUME NEW s \in Unseen, RecordSegment(s)
      PROVE  HealthRow(c)'
  <2>1. s.camera \in Camera /\ s.end \in Nat \ {0}
    BY DEF IInv, TypeOK, Unseen, Segment, Time
  <2>2. /\ rows' = rows \cup {s}
        /\ latestAt' = [latestAt EXCEPT ![s.camera] = s.end]
        /\ clock' = clock
    BY <1>8, <2>1 DEF RecordSegment, Reconcile, Reindex, SetHealth
  <2>3. CASE c = s.camera
    BY <1>0, <2>1, <2>2, <2>3 DEF HealthRow
  <2>4. CASE c # s.camera
    <3>1. latestAt'[c] = latestAt[c]
      BY <1>0, <2>2, <2>4
    <3> QED  BY <1>0, <2>2, <3>1, HealthRowKept
  <2> QED  BY <2>3, <2>4
<1>9. ASSUME NEW s \in Unseen, RejectSegment(s)
      PROVE  HealthRow(c)'
  <2>1. s.camera \in Camera
    BY DEF IInv, TypeOK, Unseen, Segment
  <2>2. SetHealth(s.camera, FALSE, 0) /\ UNCHANGED <<rows, clock>>
    BY <1>9 DEF RejectSegment, Reconcile, index
  <2> QED  BY <1>1, <2>1, <2>2, OfflineKept
<1>10. ASSUME NEW s, PruneFilesFails(s)
       PROVE  HealthRow(c)'
  BY <1>1, <1>10 DEF PruneFilesFails, Unlink, index, health
<1>11. CASE PruneRows
  <2>1. /\ rows' = rows \ Prunable
        /\ UNCHANGED <<clock, latestAt>>
    BY <1>11 DEF PruneRows, Reindex, health
  <2>2. ASSUME NEW s \in Prunable, s.end = latestAt[c]
        PROVE  HealthRow(c)'
    <3>1. latestAt[c] < now - Retention /\ Retention \in Nat
      BY <2>2 DEF Prunable, OlderThan, Retention
    <3>2. latestAt[c] \in Nat
      BY <1>0
    <3>3. latestAt[c] < clock - Retention
      BY <1>0, <3>1, <3>2
    <3> QED  BY <2>1, <3>3 DEF HealthRow, Retention
  <2>3. CASE ~\E s \in Prunable : s.camera = c /\ s.end = latestAt[c]
    BY <1>0, <2>1, <2>3 DEF HealthRow, Retention
  <2> QED  BY <2>2, <2>3
<1>12. CASE Trigger \/ Capture \/ CaptureFails
  BY <1>3, <1>12 DEF Trigger, Capture, CaptureFails, Freeze, FreezeRefused,
       Publish, Save, SaveCase, Release, ReleaseNext, CreateFails, SaveFails,
       ReleaseFails, ServerCrash, Abandon
<1>13. CASE UNCHANGED vars
  BY <1>1, <1>13 DEF vars, index, health
<1> QED  BY <1>4, <1>5, <1>6, <1>7, <1>8, <1>9, <1>10, <1>11, <1>12, <1>13
         DEF Next, Round, RoundFails

(* A camera's newest row is no older than any of its rows.                 *)
LEMMA LatestEndGreatest ==
  ASSUME TypeOK, NEW s \in rows
  PROVE  s.end <= LatestEnd(s.camera)
<1> DEFINE T == {0} \cup {u.end : u \in {r \in rows : r.camera = s.camera}}
<1>1. clock \in Nat /\ T \in SUBSET (0 .. clock) /\ s.end \in T
  BY SliceAssumption DEF TypeOK, Segment, Time
<1>2. LatestEnd(s.camera) = Max(T)
  BY DEF LatestEnd
<1> HIDE DEF T
<1>3. \E m \in T : \A t \in T : t <= m
  BY <1>1, GreatestExists
<1>4. \E m \in T : \A t \in T : m >= t
  BY <1>1, <1>3
<1>5. \A t \in T : Max(T) >= t
  BY <1>4 DEF Max
<1>6. Max(T) \in T
  BY <1>4 DEF Max
<1> QED  BY <1>1, <1>2, <1>5, <1>6

(* The page that says a capture can be triggered says so of a capture that *)
(* _capture_end would accept, although the one asks the health and the     *)
(* other the rows, if a segment is kept for as long as it counts as fresh: *)
(* a camera whose health is fresh has then a row as fresh.  Where the      *)
(* configuration counts a segment as fresh for longer than it is kept the  *)
(* promise is broken (a pinned old row stands in for the pruned one).      *)
THEOREM StatusKeepsPromise ==
  ASSUME MaxAge <= Retention
  PROVE  Spec => []StatusPromise
<1> USE SliceAssumption
<1>1. Init => HealthRows
  BY DEF Init, HealthRows, HealthRow
<1>2. ASSUME IInv, HealthRows
      PROVE  StatusPromise
  <2> SUFFICES ASSUME StatusReady PROVE Fresh
    BY DEF StatusPromise
  <2> SUFFICES ASSUME NEW c \in Camera
               PROVE  /\ online[c] /\ LatestEnd(c) > 0
                      /\ clock - LatestEnd(c) <= MaxAge
    BY DEF Fresh
  <2>1. /\ online[c] /\ latestAt[c] > 0 /\ clock - latestAt[c] <= MaxAge
        /\ LatestEnd(c) > 0
    BY DEF StatusReady
  <2>2. /\ clock \in Nat /\ latestAt[c] \in 0 .. clock
        /\ LatestEnd(c) \in 0 .. clock
    BY <1>2, SharedEndBounded DEF IInv, TypeOK, Time
  <2>3. PICK s \in rows : s.camera = c /\ s.end = latestAt[c]
    <3>1. HealthRow(c)
      BY <1>2 DEF HealthRows
    <3>2. ~(latestAt[c] < clock - Retention)
      BY <2>1, <2>2 DEF Retention
    <3> QED  BY <2>1, <2>2, <3>1, <3>2 DEF HealthRow
  <2>4. latestAt[c] <= LatestEnd(c)
    BY <1>2, <2>3, LatestEndGreatest DEF IInv
  <2> QED  BY <2>1, <2>2, <2>4
<1> QED  BY <1>1, <1>2, HealthRowsStep, Inductive, PTL DEF Spec

-----------------------------------------------------------------------------
(* Only the prune takes rows away.                                         *)
LEMMA OnlyPruneTakes ==
  ASSUME [Next]_vars, rows' # rows, rows' \subseteq rows
  PROVE  PruneRows
<1>1. ASSUME NEW from, NEW to, Server(from, to)
      PROVE  FALSE
  BY <1>1 DEF Server
<1>2. ASSUME NEW s, RecordSegment(s)
      PROVE  FALSE
  BY <1>2 DEF RecordSegment, Reindex
<1>3. ~(Trigger \/ Capture \/ CaptureFails)
  BY <1>1 DEF Trigger, Capture, CaptureFails, Freeze, FreezeRefused, Publish,
       Save, SaveCase, Release, ReleaseNext, CreateFails, SaveFails,
       ReleaseFails, ServerCrash, Abandon
<1>4. ~Host
  BY DEF Host, Tick, TickStalled, FfmpegExits, Write, index
<1>5. ~(WorkerStarts \/ BeginRound \/ NextCamera \/ PruneFiles \/ RoundFails)
  BY DEF WorkerStarts, BeginRound, NextCamera, Visit, PruneFiles, Unlink,
       RoundFails, WorkerStops, RejectSegment, PruneFilesFails, index
<1> QED  BY <1>2, <1>3, <1>4, <1>5 DEF Next, Round, vars, index

(* Pruning spares the windows that could be triggered, wherever their      *)
(* segments begin and end: a window reaches no further back than its       *)
(* longest hole before its begin, so that of the two segments kept beyond  *)
(* a window the rest is how old the shared end may be.                     *)
THEOREM PruneSparesWindows == Spec => PruneKeepsReady
<1> USE SliceAssumption
<1>1. ASSUME IInv, [Next]_vars, rows' # rows, rows' \subseteq rows,
             NEW c \in Camera, NEW h \in 0 .. MaxGap,
             HolesWithin(c, SharedEnd, h),
             SharedEnd >= now - (2 * SegmentTime - h)
      PROVE  WindowSegments(c, SharedEnd) \subseteq rows'
  <2>1. rows' = rows \ Prunable
    BY <1>1, OnlyPruneTakes DEF PruneRows, Reindex
  <2>2. /\ SharedEnd \in Nat /\ now \in Nat /\ h \in Nat
        /\ TypeOK
    BY <1>1, SharedEndBounded DEF IInv, TypeOK, Time
  <2> SUFFICES ASSUME NEW s \in WindowSegments(c, SharedEnd)
               PROVE  s \in rows /\ s \notin Prunable
    BY <2>1
  <2>3. s \in rows /\ s.end > SharedEnd - Window - h
    BY <1>1, <2>2, WindowCovers
  <2>4. s.end \in Nat
    BY <2>2, <2>3 DEF TypeOK, Segment, Time
  <2>5. ~(s.end < now - Retention)
    <3>1. Window \in Nat /\ SegmentTime \in Nat
      OBVIOUS
    <3> QED  BY <1>1, <2>2, <2>3, <2>4, <3>1 DEF Retention
  <2> QED  BY <2>3, <2>5 DEF Prunable, OlderThan
<1>2. IInv /\ [Next]_vars =>
        [(rows' # rows /\ rows' \subseteq rows) =>
           \A c \in Camera, h \in 0 .. MaxGap :
             (HolesWithin(c, SharedEnd, h) /\ SharedEnd >= now - (2 * SegmentTime - h)) =>
               WindowSegments(c, SharedEnd) \subseteq rows']_vars
  BY <1>1
<1> QED  BY <1>2, Inductive, PTL DEF Spec, PruneKeepsReady
=============================================================================
