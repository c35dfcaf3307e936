------------------------ MODULE PipelineControlProofs ------------------------
(***************************************************************************)
(* For any number of pipelines, threads and sources: no capture is left    *)
(* without an owner, no pipeline has two readers, no recording is opened   *)
(* twice, and a stop sticks.                                               *)
(***************************************************************************)
EXTENDS PipelineControl, TLAPS

(* From the first test of _running to the step that lowers it.             *)
Loop == {"check", "read", "frame", "write", "clear"}

(* What has not been built has nothing.                                    *)
Fresh(p) ==
  /\ ~running[p] /\ recorder[p] = "off" /\ files[p] = 0 /\ late[p] = 0
  /\ p \notin stopped /\ \A t \in Thread : owner[t] # p

Places ==
  /\ \A t \in Thread : owner[t] = 0 <=> at[t] = "none"
  /\ \A p \in Pipe : p > built => Fresh(p) /\ source[p] = "none"
  /\ slot <= built /\ next <= built /\ \A t \in Thread : owner[t] <= built

(* Where a handler stands, what it has built and what it stops.            *)
Handling ==
  /\ next # 0 <=> (handler # "idle" /\ then = "launch")
  /\ next # 0 => next # slot /\ Fresh(next)
  /\ handler \in {"stop", "release", "record"} => slot # 0
  /\ handler \in {"release", "record"} => ~running[slot]
  /\ handler = "tail" => slot = 0 \/ slot \in stopped
  /\ handler # "tail" => slot \notin stopped

(* A pipeline that may still be started has a thread in its loop only      *)
(* while _running is set, and never two.                                   *)
Stopping(p) == p \in stopped \/ (p = slot /\ handler \in {"release", "record"})

Loops ==
  /\ \A t \in Thread : at[t] \in Loop => running[owner[t]] \/ Stopping(owner[t])
  /\ \A t, u \in Thread :
       t # u /\ owner[t] = owner[u] /\ at[t] \in Loop => at[u] \notin Loop

(* A capture is released once and for all, before the recorder is stopped. *)
Released ==
  /\ \A t \in Thread : at[t] = "record" => source[owner[t]] = "released"
  /\ handler = "record" => source[slot] = "released"
  /\ \A p \in stopped : source[p] = "released" /\ ~running[p]

(* A file that was opened is being written, or its pipeline reads no more. *)
Recordings ==
  /\ \A p \in Pipe : files[p] <= 1
  /\ \A p \in Pipe : files[p] = 1 =>
       recorder[p] = "writing" \/ source[p] = "released"
  /\ \A t \in Thread : at[t] \in {"frame", "write"} =>
       ~(recorder[owner[t]] = "active" /\ files[owner[t]] = 1)

Lateness ==
  /\ \A p \in Pipe : late[p] <= 1 /\ (late[p] = 1 => p \in stopped)
  /\ \A t \in Thread : at[t] \in {"frame", "write"} => late[owner[t]] = 0

Owned ==
  \A p \in Pipe : source[p] \in {"open", "eof"} => p = slot \/ p = next

Inv == /\ TypeOK /\ Places /\ Handling /\ Loops /\ Released
       /\ Recordings /\ Lateness /\ Owned /\ StopSticks

-----------------------------------------------------------------------------
(* Handlers that start a pipeline.                                         *)

LEMMA Numbers == /\ 0 \in 0 .. MaxPipe /\ MaxPipe \in Nat
                 /\ \A p \in Pipe : p \in 0 .. MaxPipe /\ p # 0
  BY BoundsAssumption DEF Pipe

(* Resuming the pipeline in the slot and launching the one just built      *)
(* leave the same state behind: the pipeline is in the slot and, unless it *)
(* was running, has one new thread.                                        *)
LEMMA RunKeeps ==
  ASSUME Inv, NEW p \in Pipe, p <= built, p \notin stopped,
         handler \in {"idle", "tail"},
         StartPipe(p) \/ (flag' = TRUE /\ UNCHANGED <<pipes, threads>>),
         slot' = p, next' = 0, handler' = "idle", command' = "start",
         config' \in Source \cup {NoSource},
         UNCHANGED <<status, then, asked, stopped, late, files>>,
         \A q \in Pipe : source[q] \in {"open", "eof"} => q = p
  PROVE  Inv'
<1> USE DEF Inv
<1>1. /\ flag' = TRUE /\ UNCHANGED <<built, source>>
      /\ \/ UNCHANGED <<running, recorder, owner, at>>
         \/ /\ ~running[p]
            /\ \E t \in Thread :
                 /\ owner[t] = 0
                 /\ owner' = [owner EXCEPT ![t] = p]
                 /\ at' = [at EXCEPT ![t] = "check"]
                 /\ running' = [running EXCEPT ![p] = TRUE]
                 /\ recorder' = [recorder EXCEPT ![p] = IF @ = "off" THEN "active" ELSE @]
  BY Zenon DEF StartPipe, StartRecorder, pipes, threads
<1>2. ~Stopping(p) /\ \A q \in Pipe : Stopping(q) => q \in stopped
  BY DEF Stopping
<1>3. ASSUME TypeOK', Places', Loops',
             \A t \in Thread : at'[t] = "record" => source[owner'[t]] = "released",
             \A q \in stopped : ~running'[q],
             Recordings', Lateness'
      PROVE  Inv'
  <2>1. Handling'
    BY Numbers DEF Handling
  <2>2. Released'
    BY <1>1, <1>3 DEF Released
  <2>3. Owned'
    BY <1>1 DEF Owned
  <2>4. StopSticks'
    BY DEF StopSticks
  <2> QED BY <1>3, <2>1, <2>2, <2>3, <2>4
<1>4. CASE UNCHANGED <<running, recorder, owner, at>>
  <2>1. TypeOK'
    BY <1>1, <1>4, Numbers DEF TypeOK
  <2>2. Places'
    BY <1>1, <1>4, Numbers DEF Places, Fresh, TypeOK
  <2>3. Loops'
    BY <1>2, <1>4 DEF Loops, Stopping, TypeOK
  <2>4. Recordings' /\ Lateness'
    BY <1>1, <1>4 DEF Recordings, Lateness
  <2> QED BY <1>3, <1>4, <2>1, <2>2, <2>3, <2>4 DEF Released
<1>5. CASE /\ ~running[p]
           /\ \E t \in Thread :
                /\ owner[t] = 0
                /\ owner' = [owner EXCEPT ![t] = p]
                /\ at' = [at EXCEPT ![t] = "check"]
                /\ running' = [running EXCEPT ![p] = TRUE]
                /\ recorder' = [recorder EXCEPT ![p] = IF @ = "off" THEN "active" ELSE @]
  <2>1. PICK t \in Thread :
          /\ owner[t] = 0
          /\ owner' = [owner EXCEPT ![t] = p]
          /\ at' = [at EXCEPT ![t] = "check"]
          /\ running' = [running EXCEPT ![p] = TRUE]
          /\ recorder' = [recorder EXCEPT ![p] = IF @ = "off" THEN "active" ELSE @]
    BY <1>5
  <2>2. \A u \in Thread : /\ owner'[u] = IF u = t THEN p ELSE owner[u]
                          /\ at'[u] = IF u = t THEN "check" ELSE at[u]
    BY <2>1 DEF TypeOK
  <2>3. \A q \in Pipe : /\ running'[q] = IF q = p THEN TRUE ELSE running[q]
                        /\ q # p => recorder'[q] = recorder[q]
    BY <2>1 DEF TypeOK
  <2>4. \/ recorder'[p] = recorder[p]
        \/ recorder[p] = "off" /\ recorder'[p] = "active"
    BY <2>1 DEF TypeOK
  <2>5. \A u \in Thread : owner[u] = p => at[u] \notin Loop
    BY <1>2, <1>5 DEF Loops
  <2>6. TypeOK'
    <3>1. owner' \in [Thread -> 0 .. MaxPipe] /\ running' \in [Pipe -> BOOLEAN]
      BY <2>1, Numbers DEF TypeOK
    <3>2. at' \in [Thread -> {"none", "check", "read", "frame", "write", "clear",
                              "lower", "release", "record"}]
      BY <2>1 DEF TypeOK
    <3>3. recorder' \in [Pipe -> {"off", "active", "writing"}]
      BY <2>1 DEF TypeOK
    <3> QED BY <1>1, <3>1, <3>2, <3>3, Numbers DEF TypeOK
  <2>7. Places'
    <3>1. \A u \in Thread : owner'[u] = 0 <=> at'[u] = "none"
      BY <2>2, Numbers DEF Places
    <3>2. ASSUME NEW q \in Pipe, q > built
          PROVE  Fresh(q)' /\ source'[q] = "none"
      <4>1. q # p /\ Fresh(q) /\ source[q] = "none"
        BY <3>2 DEF Places, TypeOK, Pipe
      <4> QED BY <1>1, <2>2, <2>3, <4>1 DEF Fresh
    <3>3. 0 <= built /\ \A u \in Thread : owner'[u] <= built
      BY <2>2 DEF Places, TypeOK
    <3> QED BY <1>1, <3>1, <3>2, <3>3 DEF Places
  <2>8. Loops'
    <3>1. ASSUME NEW u \in Thread, at'[u] \in Loop
          PROVE  (running[owner[u]] \/ Stopping(owner[u]))'
      <4>1. CASE u = t
        BY <2>2, <2>3, <4>1
      <4>2. CASE u # t
        <5>1. owner[u] \in Pipe /\ at[u] \in Loop
          BY <2>2, <3>1, <4>2 DEF Places, TypeOK, Loop, Pipe
        <5>2. running[owner[u]] \/ owner[u] \in stopped
          BY <1>2, <5>1 DEF Loops
        <5> QED BY <2>2, <2>3, <4>2, <5>1, <5>2 DEF Stopping
      <4> QED BY <4>1, <4>2
    <3>2. ASSUME NEW u \in Thread, NEW v \in Thread, u # v, owner'[u] = owner'[v],
                 at'[u] \in Loop
          PROVE  at'[v] \notin Loop
      <4>1. CASE u = t
        BY <2>2, <2>5, <3>2, <4>1
      <4>2. CASE v = t
        BY <2>2, <2>5, <3>2, <4>2
      <4>3. CASE u # t /\ v # t
        BY <2>2, <3>2, <4>3 DEF Loops
      <4> QED BY <4>1, <4>2, <4>3
    <3> QED BY <3>1, <3>2 DEF Loops
  <2>9. \A u \in Thread : at'[u] = "record" => source[owner'[u]] = "released"
    BY <2>2 DEF Released
  <2>10. \A q \in stopped : ~running'[q]
    BY <2>3 DEF Released, TypeOK
  <2>11. Recordings'
    <3>1. \A q \in Pipe : files[q] = 1 =>
            recorder'[q] = "writing" \/ source[q] = "released"
      BY <2>3, <2>4 DEF Recordings
    <3>2. ASSUME NEW u \in Thread, at'[u] \in {"frame", "write"}
          PROVE  ~(recorder'[owner'[u]] = "active" /\ files[owner'[u]] = 1)
      <4>1. u # t /\ owner'[u] = owner[u] /\ at[u] \in {"frame", "write"}
        BY <2>2, <3>2
      <4>2. owner[u] # p /\ owner[u] \in Pipe
        BY <2>5, <4>1 DEF Loop, Places, TypeOK, Pipe
      <4> QED BY <2>3, <4>1, <4>2 DEF Recordings
    <3> QED BY <1>1, <3>1, <3>2 DEF Recordings
  <2>12. Lateness'
    BY <2>2 DEF Lateness
  <2> QED BY <1>3, <2>6, <2>7, <2>8, <2>9, <2>10, <2>11, <2>12
<1> QED BY <1>1, <1>4, <1>5

LEMMA ResumeKeeps ==
  ASSUME Inv, NEW r \in Request, Resume(r)
  PROVE  Inv'
<1> USE DEF Inv
<1>1. slot \in Pipe /\ slot <= built /\ slot \notin stopped /\ next = 0
  BY DEF Resume, StartRaises, TypeOK, Places, Handling, Pipe
<1>2. \A q \in Pipe : source[q] \in {"open", "eof"} => q = slot
  BY <1>1, Numbers DEF Owned
<1> QED BY <1>1, <1>2, RunKeeps DEF Resume, StartRaises, loop, TypeOK, pipes, threads

LEMMA LaunchKeeps ==
  ASSUME Inv, Launch
  PROVE  Inv'
<1> USE DEF Inv
<1>1. next \in Pipe /\ next <= built /\ next \notin stopped
  BY DEF Launch, TypeOK, Places, Handling, Pipe, Fresh
<1>2. \A q \in Pipe : source[q] \in {"open", "eof"} => q = next
  BY <1>1, Numbers DEF Owned, Launch, Handling, Released
<1> QED BY <1>1, <1>2, RunKeeps DEF Launch, TypeOK

-----------------------------------------------------------------------------
(* The other handlers.                                                     *)

LEMMA BuildKeeps ==
  ASSUME Inv, NEW s \in Source, Build(s)
  PROVE  Inv'
<1> USE DEF Inv
<1>1. TypeOK'
  BY BoundsAssumption DEF Build, OpenSource, store, pipes, threads, loop, history,
     TypeOK, Places, Handling, Pipe, Request
<1>2. Places'
  BY BoundsAssumption DEF Build, OpenSource, store, pipes, threads, loop, history,
     TypeOK, Places, Handling, Loops, Released, Fresh, Loop, Stopping, Pipe
<1>3. Handling'
  BY BoundsAssumption DEF Build, OpenSource, store, pipes, threads, loop, history,
     TypeOK, Places, Handling, Loops, Released, Fresh, Loop, Stopping, Pipe
<1>4. Loops'
  BY BoundsAssumption DEF Build, OpenSource, store, pipes, threads, loop, history,
     TypeOK, Places, Handling, Loops, Released, Fresh, Loop, Stopping, Pipe
<1>5. Released'
  BY BoundsAssumption DEF Build, OpenSource, store, pipes, threads, loop, history,
     TypeOK, Places, Handling, Loops, Released, Fresh, Loop, Stopping, Pipe
<1>6. Recordings'
  BY BoundsAssumption DEF Build, OpenSource, store, pipes, threads, loop, history,
     TypeOK, Places, Handling, Loops, Released, Fresh, Loop, Stopping, Pipe, Recordings
<1>7. Lateness'
  BY BoundsAssumption DEF Build, OpenSource, store, pipes, threads, loop, history,
     TypeOK, Places, Handling, Loops, Released, Fresh, Loop, Stopping, Pipe, Lateness
<1>8. Owned'
  BY BoundsAssumption DEF Build, OpenSource, store, pipes, threads, loop, history,
     TypeOK, Places, Handling, Loops, Released, Fresh, Loop, Stopping, Pipe, Owned
<1>9. StopSticks'
  BY BoundsAssumption DEF Build, OpenSource, store, pipes, threads, loop, history,
     TypeOK, Places, Handling, Loops, Released, Fresh, Loop, Stopping, Pipe, StopSticks
<1> QED BY <1>1, <1>2, <1>3, <1>4, <1>5, <1>6, <1>7, <1>8, <1>9

LEMMA CreateFailsKeeps ==
  ASSUME Inv, NEW r \in Request, CreateFails(r)
  PROVE  Inv'
<1> USE DEF Inv
<1>1. TypeOK'
  BY BoundsAssumption DEF CreateFails, store, pipes, threads, loop, history,
     TypeOK, Places, Handling, Pipe, Request
<1>2. Places'
  BY BoundsAssumption DEF CreateFails, store, pipes, threads, loop, history,
     TypeOK, Places, Handling, Loops, Released, Fresh, Loop, Stopping, Pipe
<1>3. Handling'
  BY BoundsAssumption DEF CreateFails, store, pipes, threads, loop, history,
     TypeOK, Places, Handling, Loops, Released, Fresh, Loop, Stopping, Pipe
<1>4. Loops'
  BY BoundsAssumption DEF CreateFails, store, pipes, threads, loop, history,
     TypeOK, Places, Handling, Loops, Released, Fresh, Loop, Stopping, Pipe
<1>5. Released'
  BY BoundsAssumption DEF CreateFails, store, pipes, threads, loop, history,
     TypeOK, Places, Handling, Loops, Released, Fresh, Loop, Stopping, Pipe
<1>6. Recordings'
  BY BoundsAssumption DEF CreateFails, store, pipes, threads, loop, history,
     TypeOK, Places, Handling, Loops, Released, Fresh, Loop, Stopping, Pipe, Recordings
<1>7. Lateness'
  BY BoundsAssumption DEF CreateFails, store, pipes, threads, loop, history,
     TypeOK, Places, Handling, Loops, Released, Fresh, Loop, Stopping, Pipe, Lateness
<1>8. Owned'
  BY BoundsAssumption DEF CreateFails, store, pipes, threads, loop, history,
     TypeOK, Places, Handling, Loops, Released, Fresh, Loop, Stopping, Pipe, Owned
<1>9. StopSticks'
  BY BoundsAssumption DEF CreateFails, store, pipes, threads, loop, history,
     TypeOK, Places, Handling, Loops, Released, Fresh, Loop, Stopping, Pipe, StopSticks
<1> QED BY <1>1, <1>2, <1>3, <1>4, <1>5, <1>6, <1>7, <1>8, <1>9

LEMMA CalibrationFailsKeeps ==
  ASSUME Inv, NEW r \in Request, CalibrationFails(r)
  PROVE  Inv'
<1> USE DEF Inv
<1>1. TypeOK'
  BY BoundsAssumption DEF CalibrationFails, store, pipes, threads, loop, history,
     TypeOK, Places, Handling, Pipe, Request
<1>2. Places'
  BY BoundsAssumption DEF CalibrationFails, store, pipes, threads, loop, history,
     TypeOK, Places, Handling, Loops, Released, Fresh, Loop, Stopping, Pipe
<1>3. Handling'
  BY BoundsAssumption DEF CalibrationFails, store, pipes, threads, loop, history,
     TypeOK, Places, Handling, Loops, Released, Fresh, Loop, Stopping, Pipe
<1>4. Loops'
  BY BoundsAssumption DEF CalibrationFails, store, pipes, threads, loop, history,
     TypeOK, Places, Handling, Loops, Released, Fresh, Loop, Stopping, Pipe
<1>5. Released'
  BY BoundsAssumption DEF CalibrationFails, store, pipes, threads, loop, history,
     TypeOK, Places, Handling, Loops, Released, Fresh, Loop, Stopping, Pipe
<1>6. Recordings'
  BY BoundsAssumption DEF CalibrationFails, store, pipes, threads, loop, history,
     TypeOK, Places, Handling, Loops, Released, Fresh, Loop, Stopping, Pipe, Recordings
<1>7. Lateness'
  BY BoundsAssumption DEF CalibrationFails, store, pipes, threads, loop, history,
     TypeOK, Places, Handling, Loops, Released, Fresh, Loop, Stopping, Pipe, Lateness
<1>8. Owned'
  BY BoundsAssumption DEF CalibrationFails, store, pipes, threads, loop, history,
     TypeOK, Places, Handling, Loops, Released, Fresh, Loop, Stopping, Pipe, Owned
<1>9. StopSticks'
  BY BoundsAssumption DEF CalibrationFails, store, pipes, threads, loop, history,
     TypeOK, Places, Handling, Loops, Released, Fresh, Loop, Stopping, Pipe, StopSticks
<1> QED BY <1>1, <1>2, <1>3, <1>4, <1>5, <1>6, <1>7, <1>8, <1>9

LEMMA SetConfigKeeps ==
  ASSUME Inv, NEW s \in Source, SetConfig(s)
  PROVE  Inv'
<1> USE DEF Inv
<1>1. TypeOK'
  BY BoundsAssumption DEF SetConfig, store, pipes, threads, loop, history,
     TypeOK, Places, Handling, Pipe, Request
<1>2. Places'
  BY BoundsAssumption DEF SetConfig, store, pipes, threads, loop, history,
     TypeOK, Places, Handling, Loops, Released, Fresh, Loop, Stopping, Pipe
<1>3. Handling'
  BY BoundsAssumption DEF SetConfig, store, pipes, threads, loop, history,
     TypeOK, Places, Handling, Loops, Released, Fresh, Loop, Stopping, Pipe
<1>4. Loops'
  BY BoundsAssumption DEF SetConfig, store, pipes, threads, loop, history,
     TypeOK, Places, Handling, Loops, Released, Fresh, Loop, Stopping, Pipe
<1>5. Released'
  BY BoundsAssumption DEF SetConfig, store, pipes, threads, loop, history,
     TypeOK, Places, Handling, Loops, Released, Fresh, Loop, Stopping, Pipe
<1>6. Recordings'
  BY BoundsAssumption DEF SetConfig, store, pipes, threads, loop, history,
     TypeOK, Places, Handling, Loops, Released, Fresh, Loop, Stopping, Pipe, Recordings
<1>7. Lateness'
  BY BoundsAssumption DEF SetConfig, store, pipes, threads, loop, history,
     TypeOK, Places, Handling, Loops, Released, Fresh, Loop, Stopping, Pipe, Lateness
<1>8. Owned'
  BY BoundsAssumption DEF SetConfig, store, pipes, threads, loop, history,
     TypeOK, Places, Handling, Loops, Released, Fresh, Loop, Stopping, Pipe, Owned
<1>9. StopSticks'
  BY BoundsAssumption DEF SetConfig, store, pipes, threads, loop, history,
     TypeOK, Places, Handling, Loops, Released, Fresh, Loop, Stopping, Pipe, StopSticks
<1> QED BY <1>1, <1>2, <1>3, <1>4, <1>5, <1>6, <1>7, <1>8, <1>9

LEMMA StopKeeps ==
  ASSUME Inv, Stop
  PROVE  Inv'
<1> USE DEF Inv
<1>1. TypeOK'
  BY BoundsAssumption DEF Stop, store, pipes, threads, loop, history,
     TypeOK, Places, Handling, Pipe, Request
<1>2. Places'
  BY BoundsAssumption DEF Stop, store, pipes, threads, loop, history,
     TypeOK, Places, Handling, Loops, Released, Fresh, Loop, Stopping, Pipe
<1>3. Handling'
  BY BoundsAssumption DEF Stop, store, pipes, threads, loop, history,
     TypeOK, Places, Handling, Loops, Released, Fresh, Loop, Stopping, Pipe
<1>4. Loops'
  BY BoundsAssumption DEF Stop, store, pipes, threads, loop, history,
     TypeOK, Places, Handling, Loops, Released, Fresh, Loop, Stopping, Pipe
<1>5. Released'
  BY BoundsAssumption DEF Stop, store, pipes, threads, loop, history,
     TypeOK, Places, Handling, Loops, Released, Fresh, Loop, Stopping, Pipe
<1>6. Recordings'
  BY BoundsAssumption DEF Stop, store, pipes, threads, loop, history,
     TypeOK, Places, Handling, Loops, Released, Fresh, Loop, Stopping, Pipe, Recordings
<1>7. Lateness'
  BY BoundsAssumption DEF Stop, store, pipes, threads, loop, history,
     TypeOK, Places, Handling, Loops, Released, Fresh, Loop, Stopping, Pipe, Lateness
<1>8. Owned'
  BY BoundsAssumption DEF Stop, store, pipes, threads, loop, history,
     TypeOK, Places, Handling, Loops, Released, Fresh, Loop, Stopping, Pipe, Owned
<1>9. StopSticks'
  BY BoundsAssumption DEF Stop, store, pipes, threads, loop, history,
     TypeOK, Places, Handling, Loops, Released, Fresh, Loop, Stopping, Pipe, StopSticks
<1> QED BY <1>1, <1>2, <1>3, <1>4, <1>5, <1>6, <1>7, <1>8, <1>9

LEMMA SocketCommandKeeps ==
  ASSUME Inv, NEW raise \in BOOLEAN, SocketCommand(raise)
  PROVE  Inv'
<1> USE DEF Inv
<1>1. TypeOK'
  BY BoundsAssumption DEF SocketCommand, store, pipes, threads, loop, history,
     TypeOK, Places, Handling, Pipe, Request
<1>2. Places'
  BY BoundsAssumption DEF SocketCommand, store, pipes, threads, loop, history,
     TypeOK, Places, Handling, Loops, Released, Fresh, Loop, Stopping, Pipe
<1>3. Handling'
  BY BoundsAssumption DEF SocketCommand, store, pipes, threads, loop, history,
     TypeOK, Places, Handling, Loops, Released, Fresh, Loop, Stopping, Pipe
<1>4. Loops'
  BY BoundsAssumption DEF SocketCommand, store, pipes, threads, loop, history,
     TypeOK, Places, Handling, Loops, Released, Fresh, Loop, Stopping, Pipe
<1>5. Released'
  BY BoundsAssumption DEF SocketCommand, store, pipes, threads, loop, history,
     TypeOK, Places, Handling, Loops, Released, Fresh, Loop, Stopping, Pipe
<1>6. Recordings'
  BY BoundsAssumption DEF SocketCommand, store, pipes, threads, loop, history,
     TypeOK, Places, Handling, Loops, Released, Fresh, Loop, Stopping, Pipe, Recordings
<1>7. Lateness'
  BY BoundsAssumption DEF SocketCommand, store, pipes, threads, loop, history,
     TypeOK, Places, Handling, Loops, Released, Fresh, Loop, Stopping, Pipe, Lateness
<1>8. Owned'
  BY BoundsAssumption DEF SocketCommand, store, pipes, threads, loop, history,
     TypeOK, Places, Handling, Loops, Released, Fresh, Loop, Stopping, Pipe, Owned
<1>9. StopSticks'
  BY BoundsAssumption DEF SocketCommand, store, pipes, threads, loop, history,
     TypeOK, Places, Handling, Loops, Released, Fresh, Loop, Stopping, Pipe, StopSticks
<1> QED BY <1>1, <1>2, <1>3, <1>4, <1>5, <1>6, <1>7, <1>8, <1>9

LEMMA AttachKeeps ==
  ASSUME Inv, Attach
  PROVE  Inv'
<1> USE DEF Inv
<1>1. TypeOK'
  BY BoundsAssumption DEF Attach, store, pipes, threads, loop, history,
     TypeOK, Places, Handling, Pipe, Request
<1>2. Places'
  BY BoundsAssumption DEF Attach, store, pipes, threads, loop, history,
     TypeOK, Places, Handling, Loops, Released, Fresh, Loop, Stopping, Pipe
<1>3. Handling'
  BY BoundsAssumption DEF Attach, store, pipes, threads, loop, history,
     TypeOK, Places, Handling, Loops, Released, Fresh, Loop, Stopping, Pipe
<1>4. Loops'
  BY BoundsAssumption DEF Attach, store, pipes, threads, loop, history,
     TypeOK, Places, Handling, Loops, Released, Fresh, Loop, Stopping, Pipe
<1>5. Released'
  BY BoundsAssumption DEF Attach, store, pipes, threads, loop, history,
     TypeOK, Places, Handling, Loops, Released, Fresh, Loop, Stopping, Pipe
<1>6. Recordings'
  BY BoundsAssumption DEF Attach, store, pipes, threads, loop, history,
     TypeOK, Places, Handling, Loops, Released, Fresh, Loop, Stopping, Pipe, Recordings
<1>7. Lateness'
  BY BoundsAssumption DEF Attach, store, pipes, threads, loop, history,
     TypeOK, Places, Handling, Loops, Released, Fresh, Loop, Stopping, Pipe, Lateness
<1>8. Owned'
  BY BoundsAssumption DEF Attach, store, pipes, threads, loop, history,
     TypeOK, Places, Handling, Loops, Released, Fresh, Loop, Stopping, Pipe, Owned
<1>9. StopSticks'
  BY BoundsAssumption DEF Attach, store, pipes, threads, loop, history,
     TypeOK, Places, Handling, Loops, Released, Fresh, Loop, Stopping, Pipe, StopSticks
<1> QED BY <1>1, <1>2, <1>3, <1>4, <1>5, <1>6, <1>7, <1>8, <1>9

LEMMA StopLowerKeeps ==
  ASSUME Inv, StopLower
  PROVE  Inv'
<1> USE DEF Inv
<1>1. TypeOK'
  BY BoundsAssumption DEF StopLower, Lower, store, pipes, threads, loop, history,
     TypeOK, Places, Handling, Pipe, Request
<1>2. Places'
  BY BoundsAssumption DEF StopLower, Lower, store, pipes, threads, loop, history,
     TypeOK, Places, Handling, Loops, Released, Fresh, Loop, Stopping, Pipe
<1>3. Handling'
  BY BoundsAssumption DEF StopLower, Lower, store, pipes, threads, loop, history,
     TypeOK, Places, Handling, Loops, Released, Fresh, Loop, Stopping, Pipe
<1>4. Loops'
  BY BoundsAssumption DEF StopLower, Lower, store, pipes, threads, loop, history,
     TypeOK, Places, Handling, Loops, Released, Fresh, Loop, Stopping, Pipe
<1>5. Released'
  BY BoundsAssumption DEF StopLower, Lower, store, pipes, threads, loop, history,
     TypeOK, Places, Handling, Loops, Released, Fresh, Loop, Stopping, Pipe
<1>6. Recordings'
  BY BoundsAssumption DEF StopLower, Lower, store, pipes, threads, loop, history,
     TypeOK, Places, Handling, Loops, Released, Fresh, Loop, Stopping, Pipe, Recordings
<1>7. Lateness'
  BY BoundsAssumption DEF StopLower, Lower, store, pipes, threads, loop, history,
     TypeOK, Places, Handling, Loops, Released, Fresh, Loop, Stopping, Pipe, Lateness
<1>8. Owned'
  BY BoundsAssumption DEF StopLower, Lower, store, pipes, threads, loop, history,
     TypeOK, Places, Handling, Loops, Released, Fresh, Loop, Stopping, Pipe, Owned
<1>9. StopSticks'
  BY BoundsAssumption DEF StopLower, Lower, store, pipes, threads, loop, history,
     TypeOK, Places, Handling, Loops, Released, Fresh, Loop, Stopping, Pipe, StopSticks
<1> QED BY <1>1, <1>2, <1>3, <1>4, <1>5, <1>6, <1>7, <1>8, <1>9

LEMMA StopReleaseKeeps ==
  ASSUME Inv, StopRelease
  PROVE  Inv'
<1> USE DEF Inv
<1>1. TypeOK'
  BY BoundsAssumption DEF StopRelease, Release, store, pipes, threads, loop, history,
     TypeOK, Places, Handling, Pipe, Request
<1>2. Places'
  BY BoundsAssumption DEF StopRelease, Release, store, pipes, threads, loop, history,
     TypeOK, Places, Handling, Loops, Released, Fresh, Loop, Stopping, Pipe
<1>3. Handling'
  BY BoundsAssumption DEF StopRelease, Release, store, pipes, threads, loop, history,
     TypeOK, Places, Handling, Loops, Released, Fresh, Loop, Stopping, Pipe
<1>4. Loops'
  BY BoundsAssumption DEF StopRelease, Release, store, pipes, threads, loop, history,
     TypeOK, Places, Handling, Loops, Released, Fresh, Loop, Stopping, Pipe
<1>5. Released'
  BY BoundsAssumption DEF StopRelease, Release, store, pipes, threads, loop, history,
     TypeOK, Places, Handling, Loops, Released, Fresh, Loop, Stopping, Pipe
<1>6. Recordings'
  BY BoundsAssumption DEF StopRelease, Release, store, pipes, threads, loop, history,
     TypeOK, Places, Handling, Loops, Released, Fresh, Loop, Stopping, Pipe, Recordings
<1>7. Lateness'
  BY BoundsAssumption DEF StopRelease, Release, store, pipes, threads, loop, history,
     TypeOK, Places, Handling, Loops, Released, Fresh, Loop, Stopping, Pipe, Lateness
<1>8. Owned'
  BY BoundsAssumption DEF StopRelease, Release, store, pipes, threads, loop, history,
     TypeOK, Places, Handling, Loops, Released, Fresh, Loop, Stopping, Pipe, Owned
<1>9. StopSticks'
  BY BoundsAssumption DEF StopRelease, Release, store, pipes, threads, loop, history,
     TypeOK, Places, Handling, Loops, Released, Fresh, Loop, Stopping, Pipe, StopSticks
<1> QED BY <1>1, <1>2, <1>3, <1>4, <1>5, <1>6, <1>7, <1>8, <1>9

LEMMA StopRecordKeeps ==
  ASSUME Inv, StopRecord
  PROVE  Inv'
<1> USE DEF Inv
<1>1. TypeOK'
  BY BoundsAssumption DEF StopRecord, StopRecorder, store, pipes, threads, loop, history,
     TypeOK, Places, Handling, Pipe, Request
<1>2. Places'
  BY BoundsAssumption DEF StopRecord, StopRecorder, store, pipes, threads, loop, history,
     TypeOK, Places, Handling, Loops, Released, Fresh, Loop, Stopping, Pipe
<1>3. Handling'
  BY BoundsAssumption DEF StopRecord, StopRecorder, store, pipes, threads, loop, history,
     TypeOK, Places, Handling, Loops, Released, Fresh, Loop, Stopping, Pipe
<1>4. Loops'
  BY BoundsAssumption DEF StopRecord, StopRecorder, store, pipes, threads, loop, history,
     TypeOK, Places, Handling, Loops, Released, Fresh, Loop, Stopping, Pipe
<1>5. Released'
  BY BoundsAssumption DEF StopRecord, StopRecorder, store, pipes, threads, loop, history,
     TypeOK, Places, Handling, Loops, Released, Fresh, Loop, Stopping, Pipe
<1>6. Recordings'
  BY BoundsAssumption DEF StopRecord, StopRecorder, store, pipes, threads, loop, history,
     TypeOK, Places, Handling, Loops, Released, Fresh, Loop, Stopping, Pipe, Recordings
<1>7. Lateness'
  BY BoundsAssumption DEF StopRecord, StopRecorder, store, pipes, threads, loop, history,
     TypeOK, Places, Handling, Loops, Released, Fresh, Loop, Stopping, Pipe, Lateness
<1>8. Owned'
  BY BoundsAssumption DEF StopRecord, StopRecorder, store, pipes, threads, loop, history,
     TypeOK, Places, Handling, Loops, Released, Fresh, Loop, Stopping, Pipe, Owned
<1>9. StopSticks'
  BY BoundsAssumption DEF StopRecord, StopRecorder, store, pipes, threads, loop, history,
     TypeOK, Places, Handling, Loops, Released, Fresh, Loop, Stopping, Pipe, StopSticks
<1> QED BY <1>1, <1>2, <1>3, <1>4, <1>5, <1>6, <1>7, <1>8, <1>9

LEMMA LaunchFailsKeeps ==
  ASSUME Inv, LaunchFails
  PROVE  Inv'
<1> USE DEF Inv
<1>1. TypeOK'
  BY Numbers DEF LaunchFails, StartRaises, TypeOK, pipes, threads, history
<1>2. Places'
  BY BoundsAssumption DEF LaunchFails, StartRaises, store, pipes, threads, loop, history,
     TypeOK, Places, Handling, Loops, Released, Fresh, Loop, Stopping, Pipe
<1>3. Handling'
  BY BoundsAssumption DEF LaunchFails, StartRaises, store, pipes, threads, loop, history,
     TypeOK, Places, Handling, Loops, Released, Fresh, Loop, Stopping, Pipe
<1>4. Loops'
  BY BoundsAssumption DEF LaunchFails, StartRaises, store, pipes, threads, loop, history,
     TypeOK, Places, Handling, Loops, Released, Fresh, Loop, Stopping, Pipe
<1>5. Released'
  BY BoundsAssumption DEF LaunchFails, StartRaises, store, pipes, threads, loop, history,
     TypeOK, Places, Handling, Loops, Released, Fresh, Loop, Stopping, Pipe
<1>6. Recordings'
  BY BoundsAssumption DEF LaunchFails, StartRaises, store, pipes, threads, loop, history,
     TypeOK, Places, Handling, Loops, Released, Fresh, Loop, Stopping, Pipe, Recordings
<1>7. Lateness'
  BY BoundsAssumption DEF LaunchFails, StartRaises, store, pipes, threads, loop, history,
     TypeOK, Places, Handling, Loops, Released, Fresh, Loop, Stopping, Pipe, Lateness
<1>8. Owned'
  BY BoundsAssumption DEF LaunchFails, StartRaises, store, pipes, threads, loop, history,
     TypeOK, Places, Handling, Loops, Released, Fresh, Loop, Stopping, Pipe, Owned
<1>9. StopSticks'
  BY BoundsAssumption DEF LaunchFails, StartRaises, store, pipes, threads, loop, history,
     TypeOK, Places, Handling, Loops, Released, Fresh, Loop, Stopping, Pipe, StopSticks
<1> QED BY <1>1, <1>2, <1>3, <1>4, <1>5, <1>6, <1>7, <1>8, <1>9

LEMMA ClearedKeeps ==
  ASSUME Inv, Cleared
  PROVE  Inv'
<1> USE DEF Inv
<1>1. TypeOK'
  BY BoundsAssumption DEF Cleared, store, pipes, threads, loop, history,
     TypeOK, Places, Handling, Pipe, Request
<1>2. Places'
  BY BoundsAssumption DEF Cleared, store, pipes, threads, loop, history,
     TypeOK, Places, Handling, Loops, Released, Fresh, Loop, Stopping, Pipe
<1>3. Handling'
  BY BoundsAssumption DEF Cleared, store, pipes, threads, loop, history,
     TypeOK, Places, Handling, Loops, Released, Fresh, Loop, Stopping, Pipe
<1>4. Loops'
  BY BoundsAssumption DEF Cleared, store, pipes, threads, loop, history,
     TypeOK, Places, Handling, Loops, Released, Fresh, Loop, Stopping, Pipe
<1>5. Released'
  BY BoundsAssumption DEF Cleared, store, pipes, threads, loop, history,
     TypeOK, Places, Handling, Loops, Released, Fresh, Loop, Stopping, Pipe
<1>6. Recordings'
  BY BoundsAssumption DEF Cleared, store, pipes, threads, loop, history,
     TypeOK, Places, Handling, Loops, Released, Fresh, Loop, Stopping, Pipe, Recordings
<1>7. Lateness'
  BY BoundsAssumption DEF Cleared, store, pipes, threads, loop, history,
     TypeOK, Places, Handling, Loops, Released, Fresh, Loop, Stopping, Pipe, Lateness
<1>8. Owned'
  BY BoundsAssumption DEF Cleared, store, pipes, threads, loop, history,
     TypeOK, Places, Handling, Loops, Released, Fresh, Loop, Stopping, Pipe, Owned
<1>9. StopSticks'
  BY BoundsAssumption DEF Cleared, store, pipes, threads, loop, history,
     TypeOK, Places, Handling, Loops, Released, Fresh, Loop, Stopping, Pipe, StopSticks
<1> QED BY <1>1, <1>2, <1>3, <1>4, <1>5, <1>6, <1>7, <1>8, <1>9

-----------------------------------------------------------------------------
(* The thread.                                                             *)

LEMMA CheckKeeps ==
  ASSUME Inv, NEW t \in Thread, Check(t)
  PROVE  Inv'
<1> USE DEF Inv
<1>1. TypeOK'
  BY BoundsAssumption DEF Check, Move, store, pipes, threads, loop, history,
     TypeOK, Places, Handling, Pipe, Request
<1>2. Places'
  BY BoundsAssumption DEF Check, Move, store, pipes, threads, loop, history,
     TypeOK, Places, Handling, Loops, Released, Fresh, Loop, Stopping, Pipe
<1>3. Handling'
  BY BoundsAssumption DEF Check, Move, store, pipes, threads, loop, history,
     TypeOK, Places, Handling, Loops, Released, Fresh, Loop, Stopping, Pipe
<1>4. Loops'
  BY BoundsAssumption DEF Check, Move, store, pipes, threads, loop, history,
     TypeOK, Places, Handling, Loops, Released, Fresh, Loop, Stopping, Pipe
<1>5. Released'
  BY BoundsAssumption DEF Check, Move, store, pipes, threads, loop, history,
     TypeOK, Places, Handling, Loops, Released, Fresh, Loop, Stopping, Pipe
<1>6. Recordings'
  BY BoundsAssumption DEF Check, Move, store, pipes, threads, loop, history,
     TypeOK, Places, Handling, Loops, Released, Fresh, Loop, Stopping, Pipe, Recordings
<1>7. Lateness'
  BY BoundsAssumption DEF Check, Move, store, pipes, threads, loop, history,
     TypeOK, Places, Handling, Loops, Released, Fresh, Loop, Stopping, Pipe, Lateness
<1>8. Owned'
  BY BoundsAssumption DEF Check, Move, store, pipes, threads, loop, history,
     TypeOK, Places, Handling, Loops, Released, Fresh, Loop, Stopping, Pipe, Owned
<1>9. StopSticks'
  BY BoundsAssumption DEF Check, Move, store, pipes, threads, loop, history,
     TypeOK, Places, Handling, Loops, Released, Fresh, Loop, Stopping, Pipe, StopSticks
<1> QED BY <1>1, <1>2, <1>3, <1>4, <1>5, <1>6, <1>7, <1>8, <1>9

LEMMA ReadFrameKeeps ==
  ASSUME Inv, NEW t \in Thread, ReadFrame(t)
  PROVE  Inv'
<1> USE DEF Inv
<1>1. TypeOK'
  BY BoundsAssumption DEF ReadFrame, Move, store, pipes, threads, loop, history,
     TypeOK, Places, Handling, Pipe, Request
<1>2. Places'
  BY BoundsAssumption DEF ReadFrame, Move, store, pipes, threads, loop, history,
     TypeOK, Places, Handling, Loops, Released, Fresh, Loop, Stopping, Pipe
<1>3. Handling'
  BY BoundsAssumption DEF ReadFrame, Move, store, pipes, threads, loop, history,
     TypeOK, Places, Handling, Loops, Released, Fresh, Loop, Stopping, Pipe
<1>4. Loops'
  BY BoundsAssumption DEF ReadFrame, Move, store, pipes, threads, loop, history,
     TypeOK, Places, Handling, Loops, Released, Fresh, Loop, Stopping, Pipe
<1>5. Released'
  BY BoundsAssumption DEF ReadFrame, Move, store, pipes, threads, loop, history,
     TypeOK, Places, Handling, Loops, Released, Fresh, Loop, Stopping, Pipe
<1>6. Recordings'
  <2>1. recorder[owner[t]] = "writing" \/ files[owner[t]] # 1
    BY DEF ReadFrame, Recordings, TypeOK, Places, Pipe
  <2> QED BY <2>1 DEF ReadFrame, Move, pipes, history, TypeOK, Recordings
<1>7. Lateness'
  BY BoundsAssumption DEF ReadFrame, Move, store, pipes, threads, loop, history,
     TypeOK, Places, Handling, Loops, Released, Fresh, Loop, Stopping, Pipe, Lateness
<1>8. Owned'
  BY BoundsAssumption DEF ReadFrame, Move, store, pipes, threads, loop, history,
     TypeOK, Places, Handling, Loops, Released, Fresh, Loop, Stopping, Pipe, Owned
<1>9. StopSticks'
  BY BoundsAssumption DEF ReadFrame, Move, store, pipes, threads, loop, history,
     TypeOK, Places, Handling, Loops, Released, Fresh, Loop, Stopping, Pipe, StopSticks
<1> QED BY <1>1, <1>2, <1>3, <1>4, <1>5, <1>6, <1>7, <1>8, <1>9

LEMMA ReadNothingKeeps ==
  ASSUME Inv, NEW t \in Thread, ReadNothing(t)
  PROVE  Inv'
<1> USE DEF Inv
<1>1. TypeOK'
  BY BoundsAssumption DEF ReadNothing, Move, store, pipes, threads, loop, history,
     TypeOK, Places, Handling, Pipe, Request
<1>2. Places'
  BY BoundsAssumption DEF ReadNothing, Move, store, pipes, threads, loop, history,
     TypeOK, Places, Handling, Loops, Released, Fresh, Loop, Stopping, Pipe
<1>3. Handling'
  BY BoundsAssumption DEF ReadNothing, Move, store, pipes, threads, loop, history,
     TypeOK, Places, Handling, Loops, Released, Fresh, Loop, Stopping, Pipe
<1>4. Loops'
  BY BoundsAssumption DEF ReadNothing, Move, store, pipes, threads, loop, history,
     TypeOK, Places, Handling, Loops, Released, Fresh, Loop, Stopping, Pipe
<1>5. Released'
  BY BoundsAssumption DEF ReadNothing, Move, store, pipes, threads, loop, history,
     TypeOK, Places, Handling, Loops, Released, Fresh, Loop, Stopping, Pipe
<1>6. Recordings'
  BY BoundsAssumption DEF ReadNothing, Move, store, pipes, threads, loop, history,
     TypeOK, Places, Handling, Loops, Released, Fresh, Loop, Stopping, Pipe, Recordings
<1>7. Lateness'
  BY BoundsAssumption DEF ReadNothing, Move, store, pipes, threads, loop, history,
     TypeOK, Places, Handling, Loops, Released, Fresh, Loop, Stopping, Pipe, Lateness
<1>8. Owned'
  BY BoundsAssumption DEF ReadNothing, Move, store, pipes, threads, loop, history,
     TypeOK, Places, Handling, Loops, Released, Fresh, Loop, Stopping, Pipe, Owned
<1>9. StopSticks'
  BY BoundsAssumption DEF ReadNothing, Move, store, pipes, threads, loop, history,
     TypeOK, Places, Handling, Loops, Released, Fresh, Loop, Stopping, Pipe, StopSticks
<1> QED BY <1>1, <1>2, <1>3, <1>4, <1>5, <1>6, <1>7, <1>8, <1>9

LEMMA InferKeeps ==
  ASSUME Inv, NEW t \in Thread, Infer(t)
  PROVE  Inv'
<1> USE DEF Inv
<1>1. UNCHANGED <<store, pipes, loop, history, owner>>
      /\ (at' = [at EXCEPT ![t] = "write"] \/ at' = [at EXCEPT ![t] = "clear"])
  BY DEF Infer, Move
<1>2. \A u \in Thread : IF u = t THEN at[u] = "frame" /\ at'[u] \in {"write", "clear"}
                                 ELSE at'[u] = at[u]
  BY <1>1 DEF Infer, TypeOK
<1>3. TypeOK'
  <2>1. at' \in [Thread -> {"none", "check", "read", "frame", "write", "clear",
                            "lower", "release", "record"}]
    BY <1>1 DEF TypeOK
  <2> QED BY <1>1, <2>1 DEF TypeOK, store, pipes, loop, history
<1>4. Places' /\ Handling'
  BY <1>1, <1>2 DEF Places, Handling, Fresh, TypeOK, store, pipes, loop, history
<1>5. Loops'
  BY <1>1, <1>2 DEF Loops, Loop, Stopping, pipes, loop, history
<1>6. Released' /\ Owned' /\ StopSticks'
  BY <1>1, <1>2 DEF Released, Owned, StopSticks, store, pipes, loop, history
<1>7. Recordings' /\ Lateness'
  BY <1>1, <1>2 DEF Recordings, Lateness, pipes, history
<1> QED BY <1>3, <1>4, <1>5, <1>6, <1>7

LEMMA PublishKeeps ==
  ASSUME Inv, NEW t \in Thread, Publish(t)
  PROVE  Inv'
<1> USE DEF Inv
<1> DEFINE p == owner[t]
<1>1. /\ UNCHANGED <<config, flag, status, built, running, source, loop,
                     stopped, command, owner>>
      /\ at' = [at EXCEPT ![t] = "check"]
      /\ late' = [late EXCEPT ![p] = IF p \in stopped THEN @ + 1 ELSE @]
      /\ at[t] = "write"
  BY DEF Publish, WriteFrame, Move
<1>2. p \in Pipe
  BY <1>1 DEF Places, TypeOK, Pipe
<1>3. \A u \in Thread : at'[u] = IF u = t THEN "check" ELSE at[u]
  BY <1>1 DEF TypeOK
<1>4. \A u \in Thread : u # t /\ owner[u] = p => at[u] \notin Loop
  BY <1>1 DEF Loops, Loop
<1>5. \A q \in Pipe : q # p =>
        recorder'[q] = recorder[q] /\ files'[q] = files[q] /\ late'[q] = late[q]
  BY <1>1 DEF Publish, WriteFrame, TypeOK
<1>6. /\ recorder[p] = "active" => files[p] = 0
      /\ \/ recorder'[p] = "writing" /\ files'[p] = 1
         \/ recorder'[p] = "off" /\ files[p] = 0 /\ files'[p] = 0
         \/ recorder'[p] = recorder[p] /\ files'[p] = files[p]
  <2>1. recorder[p] = "active" => files[p] = 0
    BY <1>1, <1>2 DEF Recordings, TypeOK
  <2> QED BY <1>2, <2>1 DEF Publish, WriteFrame, TypeOK
<1>7. late[p] = 0 /\ late'[p] = IF p \in stopped THEN 1 ELSE 0
  BY <1>1, <1>2 DEF Lateness, TypeOK
<1>8. TypeOK'
  <2>1. at' \in [Thread -> {"none", "check", "read", "frame", "write", "clear",
                            "lower", "release", "record"}]
    BY <1>1 DEF TypeOK
  <2>2. recorder' \in [Pipe -> {"off", "active", "writing"}] /\ files' \in [Pipe -> Nat]
    <3>1. CASE recorder' = [recorder EXCEPT ![p] = "writing"]
               /\ files' = [files EXCEPT ![p] = @ + 1]
      BY <3>1, <1>2 DEF TypeOK
    <3>2. CASE recorder' = [recorder EXCEPT ![p] = "off"] /\ files' = files
      BY <3>2, <1>2 DEF TypeOK
    <3>3. CASE recorder' = recorder /\ files' = files
      BY <3>3 DEF TypeOK
    <3> QED BY <3>1, <3>2, <3>3 DEF Publish, WriteFrame
  <2>3. late' \in [Pipe -> Nat]
    BY <1>1, <1>2 DEF TypeOK
  <2> QED BY <1>1, <2>1, <2>2, <2>3 DEF TypeOK, loop
<1> HIDE DEF p
<1>9. Places'
  <2>1. p <= built /\ ~(p > built)
    BY <1>2 DEF Places, TypeOK, p, Pipe
  <2>2. \A q \in Pipe : Fresh(q) /\ q # p => Fresh(q)'
    BY <1>1, <1>5 DEF Fresh
  <2>3. \A u \in Thread : owner[u] = 0 <=> at'[u] = "none"
    BY <1>1, <1>3 DEF Places
  <2> QED BY <1>1, <2>1, <2>2, <2>3 DEF Places, loop
<1>10. Handling'
  <2>1. next # 0 => next # p /\ next \in Pipe
    BY DEF Handling, Fresh, p, TypeOK, Pipe
  <2>2. next # 0 => Fresh(next)'
    BY <1>1, <1>5, <2>1 DEF Handling, Fresh, loop
  <2> QED BY <1>1, <2>2 DEF Handling, loop
<1>11. Loops'
  BY <1>1, <1>3 DEF Loops, Loop, Stopping, loop
<1>12. Released' /\ Owned' /\ StopSticks'
  BY <1>1, <1>3 DEF Released, Owned, StopSticks, loop
<1>13. Recordings'
  <2>1. \A q \in Pipe : files'[q] <= 1
    BY <1>2, <1>5, <1>6 DEF Recordings
  <2>2. \A q \in Pipe : files'[q] = 1 => recorder'[q] = "writing" \/ source[q] = "released"
    BY <1>2, <1>5, <1>6 DEF Recordings
  <2>3. ASSUME NEW u \in Thread, at'[u] \in {"frame", "write"}
        PROVE  ~(recorder'[owner[u]] = "active" /\ files'[owner[u]] = 1)
    <3>1. u # t /\ at[u] \in {"frame", "write"}
      BY <1>3, <2>3
    <3>2. owner[u] # p /\ owner[u] \in Pipe
      BY <1>4, <3>1 DEF Loop, Places, TypeOK, Pipe
    <3> QED BY <1>5, <3>1, <3>2 DEF Recordings
  <2> QED BY <1>1, <2>1, <2>2, <2>3 DEF Recordings
<1>14. Lateness'
  <2>1. ASSUME NEW u \in Thread, at'[u] \in {"frame", "write"}
        PROVE  late'[owner[u]] = 0
    <3>1. u # t /\ at[u] \in {"frame", "write"}
      BY <1>3, <2>1
    <3>2. owner[u] # p /\ owner[u] \in Pipe
      BY <1>4, <3>1 DEF Loop, Places, TypeOK, Pipe
    <3> QED BY <1>5, <3>1, <3>2 DEF Lateness
  <2>2. \A q \in Pipe : late'[q] <= 1 /\ (late'[q] = 1 => q \in stopped)
    BY <1>2, <1>5, <1>7 DEF Lateness
  <2> QED BY <1>1, <2>1, <2>2 DEF Lateness
<1> QED BY <1>8, <1>9, <1>10, <1>11, <1>12, <1>13, <1>14

LEMMA FinallyClearKeeps ==
  ASSUME Inv, NEW t \in Thread, FinallyClear(t)
  PROVE  Inv'
<1> USE DEF Inv
<1>1. TypeOK'
  BY BoundsAssumption DEF FinallyClear, Move, Lower, store, pipes, threads, loop, history,
     TypeOK, Places, Handling, Pipe, Request
<1>2. Places'
  BY BoundsAssumption DEF FinallyClear, Move, Lower, store, pipes, threads, loop, history,
     TypeOK, Places, Handling, Loops, Released, Fresh, Loop, Stopping, Pipe
<1>3. Handling'
  BY BoundsAssumption DEF FinallyClear, Move, Lower, store, pipes, threads, loop, history,
     TypeOK, Places, Handling, Loops, Released, Fresh, Loop, Stopping, Pipe
<1>4. Loops'
  BY BoundsAssumption DEF FinallyClear, Move, Lower, store, pipes, threads, loop, history,
     TypeOK, Places, Handling, Loops, Released, Fresh, Loop, Stopping, Pipe
<1>5. Released'
  BY BoundsAssumption DEF FinallyClear, Move, Lower, store, pipes, threads, loop, history,
     TypeOK, Places, Handling, Loops, Released, Fresh, Loop, Stopping, Pipe
<1>6. Recordings'
  BY BoundsAssumption DEF FinallyClear, Move, Lower, store, pipes, threads, loop, history,
     TypeOK, Places, Handling, Loops, Released, Fresh, Loop, Stopping, Pipe, Recordings
<1>7. Lateness'
  BY BoundsAssumption DEF FinallyClear, Move, Lower, store, pipes, threads, loop, history,
     TypeOK, Places, Handling, Loops, Released, Fresh, Loop, Stopping, Pipe, Lateness
<1>8. Owned'
  BY BoundsAssumption DEF FinallyClear, Move, Lower, store, pipes, threads, loop, history,
     TypeOK, Places, Handling, Loops, Released, Fresh, Loop, Stopping, Pipe, Owned
<1>9. StopSticks'
  BY BoundsAssumption DEF FinallyClear, Move, Lower, store, pipes, threads, loop, history,
     TypeOK, Places, Handling, Loops, Released, Fresh, Loop, Stopping, Pipe, StopSticks
<1> QED BY <1>1, <1>2, <1>3, <1>4, <1>5, <1>6, <1>7, <1>8, <1>9

LEMMA FinallyLowerKeeps ==
  ASSUME Inv, NEW t \in Thread, FinallyLower(t)
  PROVE  Inv'
<1> USE DEF Inv
<1>1. TypeOK'
  BY BoundsAssumption DEF FinallyLower, Move, store, pipes, threads, loop, history,
     TypeOK, Places, Handling, Pipe, Request
<1>2. Places'
  BY BoundsAssumption DEF FinallyLower, Move, store, pipes, threads, loop, history,
     TypeOK, Places, Handling, Loops, Released, Fresh, Loop, Stopping, Pipe
<1>3. Handling'
  BY BoundsAssumption DEF FinallyLower, Move, store, pipes, threads, loop, history,
     TypeOK, Places, Handling, Loops, Released, Fresh, Loop, Stopping, Pipe
<1>4. Loops'
  BY BoundsAssumption DEF FinallyLower, Move, store, pipes, threads, loop, history,
     TypeOK, Places, Handling, Loops, Released, Fresh, Loop, Stopping, Pipe
<1>5. Released'
  BY BoundsAssumption DEF FinallyLower, Move, store, pipes, threads, loop, history,
     TypeOK, Places, Handling, Loops, Released, Fresh, Loop, Stopping, Pipe
<1>6. Recordings'
  BY BoundsAssumption DEF FinallyLower, Move, store, pipes, threads, loop, history,
     TypeOK, Places, Handling, Loops, Released, Fresh, Loop, Stopping, Pipe, Recordings
<1>7. Lateness'
  BY BoundsAssumption DEF FinallyLower, Move, store, pipes, threads, loop, history,
     TypeOK, Places, Handling, Loops, Released, Fresh, Loop, Stopping, Pipe, Lateness
<1>8. Owned'
  BY BoundsAssumption DEF FinallyLower, Move, store, pipes, threads, loop, history,
     TypeOK, Places, Handling, Loops, Released, Fresh, Loop, Stopping, Pipe, Owned
<1>9. StopSticks'
  BY BoundsAssumption DEF FinallyLower, Move, store, pipes, threads, loop, history,
     TypeOK, Places, Handling, Loops, Released, Fresh, Loop, Stopping, Pipe, StopSticks
<1> QED BY <1>1, <1>2, <1>3, <1>4, <1>5, <1>6, <1>7, <1>8, <1>9

LEMMA FinallyReleaseKeeps ==
  ASSUME Inv, NEW t \in Thread, FinallyRelease(t)
  PROVE  Inv'
<1> USE DEF Inv
<1>1. TypeOK'
  BY BoundsAssumption DEF FinallyRelease, Move, Release, store, pipes, threads, loop, history,
     TypeOK, Places, Handling, Pipe, Request
<1>2. Places'
  BY BoundsAssumption DEF FinallyRelease, Move, Release, store, pipes, threads, loop, history,
     TypeOK, Places, Handling, Loops, Released, Fresh, Loop, Stopping, Pipe
<1>3. Handling'
  BY BoundsAssumption DEF FinallyRelease, Move, Release, store, pipes, threads, loop, history,
     TypeOK, Places, Handling, Loops, Released, Fresh, Loop, Stopping, Pipe
<1>4. Loops'
  BY BoundsAssumption DEF FinallyRelease, Move, Release, store, pipes, threads, loop, history,
     TypeOK, Places, Handling, Loops, Released, Fresh, Loop, Stopping, Pipe
<1>5. Released'
  BY BoundsAssumption DEF FinallyRelease, Move, Release, store, pipes, threads, loop, history,
     TypeOK, Places, Handling, Loops, Released, Fresh, Loop, Stopping, Pipe
<1>6. Recordings'
  BY BoundsAssumption DEF FinallyRelease, Move, Release, store, pipes, threads, loop, history,
     TypeOK, Places, Handling, Loops, Released, Fresh, Loop, Stopping, Pipe, Recordings
<1>7. Lateness'
  BY BoundsAssumption DEF FinallyRelease, Move, Release, store, pipes, threads, loop, history,
     TypeOK, Places, Handling, Loops, Released, Fresh, Loop, Stopping, Pipe, Lateness
<1>8. Owned'
  BY BoundsAssumption DEF FinallyRelease, Move, Release, store, pipes, threads, loop, history,
     TypeOK, Places, Handling, Loops, Released, Fresh, Loop, Stopping, Pipe, Owned
<1>9. StopSticks'
  BY BoundsAssumption DEF FinallyRelease, Move, Release, store, pipes, threads, loop, history,
     TypeOK, Places, Handling, Loops, Released, Fresh, Loop, Stopping, Pipe, StopSticks
<1> QED BY <1>1, <1>2, <1>3, <1>4, <1>5, <1>6, <1>7, <1>8, <1>9

LEMMA FinallyRecordKeeps ==
  ASSUME Inv, NEW t \in Thread, FinallyRecord(t)
  PROVE  Inv'
<1> USE DEF Inv
<1>1. TypeOK'
  BY BoundsAssumption DEF FinallyRecord, StopRecorder, store, pipes, threads, loop, history,
     TypeOK, Places, Handling, Pipe, Request
<1>2. Places'
  BY BoundsAssumption DEF FinallyRecord, StopRecorder, store, pipes, threads, loop, history,
     TypeOK, Places, Handling, Loops, Released, Fresh, Loop, Stopping, Pipe
<1>3. Handling'
  BY BoundsAssumption DEF FinallyRecord, StopRecorder, store, pipes, threads, loop, history,
     TypeOK, Places, Handling, Loops, Released, Fresh, Loop, Stopping, Pipe
<1>4. Loops'
  BY BoundsAssumption DEF FinallyRecord, StopRecorder, store, pipes, threads, loop, history,
     TypeOK, Places, Handling, Loops, Released, Fresh, Loop, Stopping, Pipe
<1>5. Released'
  BY BoundsAssumption DEF FinallyRecord, StopRecorder, store, pipes, threads, loop, history,
     TypeOK, Places, Handling, Loops, Released, Fresh, Loop, Stopping, Pipe
<1>6. Recordings'
  BY BoundsAssumption DEF FinallyRecord, StopRecorder, store, pipes, threads, loop, history,
     TypeOK, Places, Handling, Loops, Released, Fresh, Loop, Stopping, Pipe, Recordings
<1>7. Lateness'
  BY BoundsAssumption DEF FinallyRecord, StopRecorder, store, pipes, threads, loop, history,
     TypeOK, Places, Handling, Loops, Released, Fresh, Loop, Stopping, Pipe, Lateness
<1>8. Owned'
  BY BoundsAssumption DEF FinallyRecord, StopRecorder, store, pipes, threads, loop, history,
     TypeOK, Places, Handling, Loops, Released, Fresh, Loop, Stopping, Pipe, Owned
<1>9. StopSticks'
  BY BoundsAssumption DEF FinallyRecord, StopRecorder, store, pipes, threads, loop, history,
     TypeOK, Places, Handling, Loops, Released, Fresh, Loop, Stopping, Pipe, StopSticks
<1> QED BY <1>1, <1>2, <1>3, <1>4, <1>5, <1>6, <1>7, <1>8, <1>9

-----------------------------------------------------------------------------
LEMMA InitInv == Init => Inv
<1> SUFFICES ASSUME Init PROVE Inv
  OBVIOUS
<1>0. 1 \in Pipe /\ 1 \in 0 .. MaxPipe /\ 0 \in 0 .. MaxPipe /\ MaxPipe \in Nat
  BY BoundsAssumption DEF Pipe
<1>1. TypeOK
  <2>1. /\ source \in [Pipe -> {"none", "open", "eof", "released"}]
        /\ running \in [Pipe -> BOOLEAN]
        /\ recorder \in [Pipe -> {"off", "active", "writing"}]
        /\ late \in [Pipe -> Nat] /\ files \in [Pipe -> Nat]
    BY DEF Init, Constructed
  <2>2. /\ owner \in [Thread -> 0 .. MaxPipe]
        /\ at \in [Thread -> {"none", "check", "read", "frame", "write", "clear",
                              "lower", "release", "record"}]
    BY <1>0 DEF Init, Constructed
  <2>3. /\ slot \in 0 .. MaxPipe /\ next \in 0 .. MaxPipe /\ built \in 0 .. MaxPipe
        /\ config \in Source \cup {NoSource} /\ asked \in Source \cup {NoSource}
        /\ handler \in {"idle", "attach", "stop", "release", "record", "tail"}
        /\ status \in {"connected", "disconnected", "error"}
    <3>1. CASE built = 0
      BY <1>0, <3>1 DEF Init
    <3>2. CASE built = 1
      BY <1>0, <3>2 DEF Init
    <3> QED BY <3>1, <3>2 DEF Init
  <2>4. /\ flag \in BOOLEAN /\ stopped \subseteq Pipe
        /\ then \in {"launch", "cleared", "failed"}
        /\ command \in {"none", "start", "stop"}
    BY DEF Init
  <2> QED BY <2>1, <2>2, <2>3, <2>4 DEF TypeOK
<1>2. \A p \in Pipe : Fresh(p)
  BY <1>0 DEF Init, Constructed, Fresh, Pipe
<1>3. \A p \in Pipe : p > built => source[p] = "none"
  BY <1>0 DEF Init, Pipe
<1>4. Places
  BY <1>0, <1>2, <1>3 DEF Init, Constructed, Places
<1>5. Handling
  BY <1>0, <1>2 DEF Init, Handling
<1>6. Loops /\ Released
  BY DEF Init, Constructed, Loops, Loop, Released
<1>7. Recordings /\ Lateness /\ Owned /\ StopSticks
  BY DEF Init, Constructed, Recordings, Lateness, Owned, StopSticks
<1> QED BY <1>1, <1>4, <1>5, <1>6, <1>7 DEF Inv

LEMMA StepInv == Inv /\ [Next]_vars => Inv'
<1> SUFFICES ASSUME Inv, [Next]_vars PROVE Inv'
  OBVIOUS
<1>1. CASE UNCHANGED vars
  BY <1>1 DEF Inv, TypeOK, Places, Handling, Loops, Released, Recordings, Lateness,
              Owned, StopSticks, Fresh, Stopping,
              vars, store, pipes, threads, loop, history
<1>2. ASSUME NEW r \in Request,
             Resume(r) \/ Create(r) \/ CreateFails(r) \/ CalibrationStart(r)
               \/ CalibrationFails(r)
      PROVE  Inv'
  <2>1. ASSUME Build(Requested(r)), Requested(r) # NoSource PROVE Inv'
    <3>1. Requested(r) \in Source
      BY <2>1 DEF Requested, Request, Inv, TypeOK
    <3> QED BY <2>1, <3>1, BuildKeeps
  <2> QED BY <1>2, <2>1, ResumeKeeps, CreateFailsKeeps, CalibrationFailsKeeps
          DEF Create, CalibrationStart, ShouldCreate
<1>3. CASE HandlerStep
  BY <1>3, AttachKeeps, StopLowerKeeps, StopReleaseKeeps, StopRecordKeeps,
     LaunchKeeps, LaunchFailsKeeps, ClearedKeeps DEF HandlerStep
<1>4. ASSUME NEW t \in Thread, ThreadStep(t) PROVE Inv'
  BY <1>4, CheckKeeps, ReadFrameKeeps, ReadNothingKeeps, InferKeeps, PublishKeeps,
     FinallyClearKeeps, FinallyLowerKeeps, FinallyReleaseKeeps, FinallyRecordKeeps
  DEF ThreadStep
<1> QED
  BY <1>1, <1>2, <1>3, <1>4, StopKeeps, SetConfigKeeps, SocketCommandKeeps DEF Next

-----------------------------------------------------------------------------
(* The inductive invariant of pipeline control.                            *)
THEOREM Invariance == Spec => []Inv
  BY InitInv, StepInv, PTL DEF Spec

(* Types for any number of pipelines and threads.                          *)
THEOREM TypeCorrect == Spec => []TypeOK
  BY Invariance, PTL DEF Inv

(* Between requests only the pipeline in the slot has a capture, whatever  *)
(* failed: create_pipeline, start or the pipeline that was replaced.       *)
THEOREM NoSourceOrphaned == Spec => []NoOrphanSource
<1>1. Inv => NoOrphanSource
  BY Numbers DEF Inv, NoOrphanSource, Owned, Handling
<1> QED BY <1>1, Invariance, PTL

(* However often it is resumed and while whatever old threads finish, a    *)
(* pipeline has one reader.                                                *)
THEOREM ReaderUnique == Spec => []OneReader
<1>1. Inv => OneReader
  BY DEF Inv, OneReader, Loops, Loop
<1> QED BY <1>1, Invariance, PTL

(* No recording is truncated and no more than one frame is late.           *)
THEOREM RecordingsKept == Spec => []RecordedOnce
<1>1. Inv => RecordedOnce
  BY DEF Inv, RecordedOnce, Recordings, Lateness
<1> QED BY <1>1, Invariance, PTL

(* A stop is not undone by the threads it outruns.                         *)
THEOREM StopHolds == Spec => []StopSticks
  BY Invariance, PTL DEF Inv
=============================================================================
