------------------------- MODULE IngestServiceProofs -------------------------
(***************************************************************************)
(* Proofs about two parts of the ingest service.                           *)
(*                                                                         *)
(* The telemetry batches of a session (TelemetryAck), for any number of    *)
(* sockets and of unread, resent or numbered batches, and for any capacity *)
(* of a report.                                                            *)
(*                                                                         *)
(* The order of its locks (ReceiverLocks), for any number of epochs and of *)
(* inference threads: its definitions have names of their own (LocksInit,  *)
(* LocksNext, LocksSpec), so that Spec here is the one of the telemetry.   *)
(***************************************************************************)
EXTENDS TelemetryAck, ReceiverLocks, FiniteSetTheorems, SequenceTheorems, TLAPS

(* The last sequence is the highest of those that moved it.                *)
LastIsHighest ==
  /\ advanced \subseteq 1 .. lastSeq
  /\ lastSeq = 0 \/ lastSeq \in advanced

(* A live epoch's runtime, until it is dropped for good, has acknowledged  *)
(* what it has received.                                                   *)
LiveAcked == epoch = 1 /\ runtime => ack = lastSeq

IInv == TypeOK /\ LastIsHighest /\ GapsReported /\ LiveAcked

LEMMA InitIInv == Init => IInv
<1> SUFFICES ASSUME Init PROVE IInv
  OBVIOUS
<1> USE TelemetryAssumption DEF Init
<1>1. TypeOK
  <2>1. <<>> \in Seq(Sequence \cup {NoSequence})
    BY EmptySeq
  <2>2. flight \in [Socket -> Seq(Sequence \cup {NoSequence})]
    BY <2>1
  <2> QED  BY <2>2 DEF TypeOK
<1>2. LastIsHighest /\ LiveAcked
  BY DEF LastIsHighest, LiveAcked
<1>3. GapsReported
  <2>1. Skipped = {}
    BY DEF Skipped
  <2> QED  BY <2>1, FS_EmptySet DEF GapsReported
<1> QED  BY <1>1, <1>2, <1>3 DEF IInv

(* Steps of the phone leave the accounts alone.                            *)
LEMMA AccountsLeft ==
  ASSUME IInv, TypeOK', UNCHANGED <<epoch, runtime, counters, ack>>
  PROVE  IInv'
<1>1. LastIsHighest' /\ LiveAcked'
  BY DEF IInv, LastIsHighest, LiveAcked, counters
<1>2. Skipped' = Skipped
  BY DEF Skipped, counters
<1>3. GapsReported'
  BY <1>2 DEF IInv, GapsReported, counters
<1> QED  BY <1>1, <1>3 DEF IInv

LEMMA PhoneStep ==
  ASSUME IInv, NEW w \in Socket,
         \/ Connect(w)
         \/ \E n \in Sequence \cup {NoSequence} : Send(w, n)
         \/ \E kept \in 0 .. MaxFlight : Break(w, kept)
  PROVE  IInv'
<1> USE TelemetryAssumption
<1> DEFINE B == Sequence \cup {NoSequence}
<1>0. flight[w] \in Seq(B)
  BY DEF IInv, TypeOK
<1>1. CASE Connect(w)
  <2>1. TypeOK'
    BY <1>1 DEF Connect, counters, IInv, TypeOK
  <2> QED  BY <1>1, <2>1, AccountsLeft DEF Connect
<1>2. ASSUME NEW n \in B, Send(w, n)
      PROVE  IInv'
  <2>1. sent' \in 0 .. MaxSequence /\ resent' \in 0 .. MaxResent
    BY <1>2 DEF Send, IInv, TypeOK, Sequence, NoSequence
  <2>2. Append(flight[w], n) \in Seq(B)
    BY <1>0
  <2>3. flight' \in [Socket -> Seq(B)]
    BY <1>2, <2>2 DEF Send, IInv, TypeOK
  <2>4. TypeOK'
    BY <1>2, <2>1, <2>3 DEF Send, counters, IInv, TypeOK
  <2> QED  BY <1>2, <2>4, AccountsLeft DEF Send
<1>3. ASSUME NEW kept \in 0 .. MaxFlight, Break(w, kept)
      PROVE  IInv'
  <2>1. kept \in Int /\ kept <= Len(flight[w])
    BY <1>3 DEF Break
  <2>2. \A i \in 1 .. kept : flight[w][i] \in B
    BY <1>0, <2>1, ElementOfSeq, LenProperties
  <2>3. SubSeq(flight[w], 1, kept) \in Seq(B)
    BY <2>1, <2>2, SubSeqProperties
  <2>4. flight' \in [Socket -> Seq(B)]
    BY <1>3, <2>3 DEF Break, IInv, TypeOK
  <2>5. TypeOK'
    BY <1>3, <2>4 DEF Break, counters, IInv, TypeOK
  <2> QED  BY <1>3, <2>5, AccountsLeft DEF Break
<1> QED  BY <1>1, <1>2, <1>3

-----------------------------------------------------------------------------
(* A set of numbers with a greatest member has that for its Max.           *)
LEMMA MaxIs ==
  ASSUME NEW T \in SUBSET Nat, NEW m \in T, \A t \in T : t <= m
  PROVE  Max(T) = m
<1>1. \A x \in T : (\A t \in T : x >= t) => x = m
  OBVIOUS
<1> QED  BY <1>1 DEF Max

(* A batch that does not follow the last one adds the numbers between them *)
(* to those that were jumped over, and none of these was one before.       *)
LEMMA SkippedGrows ==
  ASSUME IInv, NEW n \in Sequence \cup {NoSequence}, Account(n)
  PROVE  /\ Skipped' = Skipped \cup Gap(n)
         /\ Skipped \cap Gap(n) = {}
<1> USE TelemetryAssumption DEF Sequence, NoSequence
<1>1. /\ lastSeq \in 0 .. MaxSequence /\ n \in 0 .. MaxSequence
      /\ advanced \subseteq 1 .. lastSeq
      /\ lastSeq = 0 \/ lastSeq \in advanced
      /\ MaxSequence \in Nat
  BY DEF IInv, TypeOK, LastIsHighest
<1>2. Skipped \cap Gap(n) = {}
  BY <1>1 DEF Skipped, Gap
<1>3. CASE n <= lastSeq
  <2>1. UNCHANGED <<lastSeq, advanced>>
    BY <1>1, <1>3 DEF Account
  <2>2. Gap(n) = {}
    BY <1>1, <1>3 DEF Gap
  <2> QED  BY <1>2, <2>1, <2>2 DEF Skipped
<1>4. CASE n > lastSeq
  <2>1. lastSeq' = n /\ advanced' = advanced \cup {n}
    BY <1>4 DEF Account
  <2>2. ASSUME NEW m \in Sequence
        PROVE  m \in Skipped' <=> m \in Skipped \cup Gap(n)
    <3>1. m \in Skipped' <=> /\ m <= n /\ m # n /\ m \notin advanced
                             /\ \E a \in advanced \cup {n} : a < m
      BY <2>1 DEF Skipped
    <3>2. m \in Skipped <=> /\ m <= lastSeq /\ m \notin advanced
                            /\ \E a \in advanced : a < m
      BY DEF Skipped
    <3>3. m \in Gap(n) <=> lastSeq # 0 /\ lastSeq < m /\ m < n
      BY <1>1 DEF Gap
    <3>4. CASE m <= lastSeq
      BY <1>1, <1>4, <3>1, <3>2, <3>3, <3>4
    <3>5. CASE lastSeq < m
      BY <1>1, <1>4, <3>1, <3>2, <3>3, <3>5
    <3> QED  BY <1>1, <3>4, <3>5
  <2>3. Skipped' \subseteq Sequence /\ Skipped \subseteq Sequence /\ Gap(n) \subseteq Sequence
    BY <1>1 DEF Skipped, Gap
  <2> QED  BY <1>2, <2>2, <2>3
<1> QED  BY <1>1, <1>3, <1>4

(* The count is that of the numbers jumped over.                           *)
LEMMA CountsGap ==
  ASSUME IInv, NEW n \in Sequence \cup {NoSequence}, Account(n)
  PROVE  gapCount' = Cardinality(Skipped')
<1> USE TelemetryAssumption DEF Sequence, NoSequence
<1>0. IsFiniteSet(1 .. MaxSequence)
  BY FS_Interval
<1>1. IsFiniteSet(Skipped)
  <2>1. Skipped \subseteq 1 .. MaxSequence
    BY DEF Skipped
  <2> QED  BY <1>0, <2>1, FS_Subset
<1>2. IsFiniteSet(Gap(n))
  <2>1. Gap(n) \subseteq 1 .. MaxSequence
    BY DEF Gap, IInv, TypeOK
  <2> QED  BY <1>0, <2>1, FS_Subset
<1>3. Cardinality(Skipped \cup Gap(n))
        = Cardinality(Skipped) + Cardinality(Gap(n)) - Cardinality(Skipped \cap Gap(n))
  BY <1>1, <1>2, FS_Union
<1>4. Cardinality(Skipped \cap Gap(n)) = 0
  BY SkippedGrows, FS_EmptySet
<1>5. Cardinality(Skipped) \in Nat /\ Cardinality(Gap(n)) \in Nat
  BY <1>1, <1>2, FS_CardinalityType
<1>6. gapCount = Cardinality(Skipped)
  BY DEF IInv, GapsReported
<1>7. Skipped' = Skipped \cup Gap(n)
  BY SkippedGrows
<1>8. gapCount' = gapCount + Cardinality(Gap(n))
  BY DEF Account
<1> QED  BY <1>3, <1>4, <1>5, <1>6, <1>7, <1>8

(* Each number is reported with the batch that jumped over it, unless it   *)
(* is too far beyond the one before.                                       *)
LEMMA ReportsGap ==
  ASSUME IInv, NEW n \in Sequence \cup {NoSequence}, Account(n)
  PROVE  reported' = {m \in Skipped' : m - Max({a \in advanced' : a < m}) <= Capacity}
<1> USE TelemetryAssumption DEF Sequence, NoSequence
<1> DEFINE Covered(m, A) == m - Max({a \in A : a < m}) <= Capacity
<1>1. /\ lastSeq \in 0 .. MaxSequence /\ n \in 0 .. MaxSequence
      /\ advanced \subseteq 1 .. lastSeq
      /\ lastSeq = 0 \/ lastSeq \in advanced
      /\ MaxSequence \in Nat
  BY DEF IInv, TypeOK, LastIsHighest
<1>2. reported = {m \in Skipped : Covered(m, advanced)}
  BY DEF IInv, GapsReported
<1>3. reported' = reported \cup Noted(n)
  BY DEF Account
<1>4. ASSUME NEW m \in Skipped
      PROVE  {a \in advanced' : a < m} = {a \in advanced : a < m}
  <2>1. m <= lastSeq /\ m \in Nat
    BY DEF Skipped
  <2> QED  BY <1>1, <2>1 DEF Account
<1>5. ASSUME NEW m \in Gap(n)
      PROVE  Max({a \in advanced' : a < m}) = lastSeq
  <2> DEFINE T == {a \in advanced' : a < m}
  <2>1. /\ lastSeq \in advanced /\ lastSeq < m /\ m < n /\ m \in Nat
    BY <1>1 DEF Gap
  <2>2. advanced' = advanced \cup {n}
    BY <1>1, <2>1 DEF Account
  <2>3. lastSeq \in advanced' /\ advanced' \subseteq Nat
    BY <1>1, <2>1, <2>2
  <2>4. \A a \in advanced' : a < m => a <= lastSeq
    BY <1>1, <2>1, <2>2
  <2>5. T \in SUBSET Nat /\ lastSeq \in T /\ \A t \in T : t <= lastSeq
    BY <2>1, <2>3, <2>4
  <2>6. Max(T) = lastSeq
    <3> HIDE DEF T
    <3> QED  BY <2>5, MaxIs
  <2> QED  BY <2>6
<1>6. Noted(n) = {m \in Gap(n) : Covered(m, advanced')}
  BY <1>5 DEF Noted
<1>7. reported = {m \in Skipped : Covered(m, advanced')}
  BY <1>2, <1>4
<1> HIDE DEF Covered
<1>8. reported' = {m \in Skipped' : Covered(m, advanced')}
  BY <1>3, <1>6, <1>7, SkippedGrows
<1> QED  BY <1>8 DEF Covered

-----------------------------------------------------------------------------
(* A batch is taken from the head of its socket.                           *)
LEMMA HeadTaken ==
  ASSUME TypeOK, NEW w \in Socket, flight[w] # <<>>,
         flight' = [flight EXCEPT ![w] = Tail(@)]
  PROVE  /\ Head(flight[w]) \in Sequence \cup {NoSequence}
         /\ flight' \in [Socket -> Seq(Sequence \cup {NoSequence})]
<1>1. flight[w] \in Seq(Sequence \cup {NoSequence})
  BY DEF TypeOK
<1>2. /\ Head(flight[w]) \in Sequence \cup {NoSequence}
      /\ Tail(flight[w]) \in Seq(Sequence \cup {NoSequence})
  BY <1>1, HeadTailProperties
<1> QED  BY <1>2 DEF TypeOK

LEMMA ReceiveStep ==
  ASSUME IInv, NEW w \in Socket, Receive(w)
  PROVE  IInv'
<1> USE TelemetryAssumption
<1> DEFINE n == Head(flight[w])
<1>1. /\ n \in Sequence \cup {NoSequence}
      /\ flight' \in [Socket -> Seq(Sequence \cup {NoSequence})]
  BY HeadTaken DEF IInv, Receive
<1>2. CASE ~(runtime \/ epoch = 0)
  <2>1. TypeOK'
    BY <1>1, <1>2 DEF Receive, counters, IInv, TypeOK
  <2> QED  BY <1>2, <2>1, AccountsLeft DEF Receive
<1>3. CASE runtime \/ epoch = 0
  <2>1. Account(n) /\ runtime' = TRUE
    BY <1>3 DEF Receive
  <2> HIDE DEF n
  <2>2. GapsReported'
    BY <1>1, <2>1, CountsGap, ReportsGap DEF GapsReported
  <2>3. /\ lastSeq \in 0 .. MaxSequence /\ n \in 0 .. MaxSequence
        /\ advanced \subseteq 1 .. lastSeq
        /\ lastSeq = 0 \/ lastSeq \in advanced
        /\ MaxSequence \in Nat
    BY <1>1 DEF IInv, TypeOK, LastIsHighest, Sequence, NoSequence
  <2>4. LastIsHighest'
    BY <2>1, <2>3 DEF Account, LastIsHighest
  <2>5. LiveAcked'
    BY <2>1 DEF Account, LiveAcked
  <2>6. TypeOK'
    <3>1. /\ lastSeq' \in 0 .. MaxSequence /\ ack' \in 0 .. MaxSequence
          /\ duplicates' \in Nat
      BY <2>1, <2>3 DEF Account, IInv, TypeOK
    <3>2. gapCount' \in 0 .. MaxSequence
      <4>1. Skipped' \subseteq 1 .. MaxSequence
        BY DEF Skipped, Sequence
      <4>2. /\ IsFiniteSet(1 .. MaxSequence)
            /\ Cardinality(1 .. MaxSequence) = MaxSequence
        BY FS_Interval
      <4>3. /\ Cardinality(Skipped') \in Nat
            /\ Cardinality(Skipped') <= MaxSequence
        BY <4>1, <4>2, FS_Subset, FS_CardinalityType
      <4> QED  BY <2>2, <4>3 DEF GapsReported
    <3>3. /\ advanced' \subseteq received' /\ received' \subseteq Sequence
          /\ reported' \subseteq Sequence
      <4>1. n > lastSeq => n # NoSequence
        BY <2>3 DEF NoSequence
      <4>2. Noted(n) \subseteq Sequence
        BY <2>3 DEF Noted, Gap, Sequence
      <4> QED  BY <1>1, <2>1, <4>1, <4>2 DEF Account, IInv, TypeOK
    <3> QED  BY <1>1, <2>1, <3>1, <3>2, <3>3 DEF Receive, IInv, TypeOK
  <2> QED  BY <2>2, <2>4, <2>5, <2>6 DEF IInv
<1> QED  BY <1>2, <1>3

(* The accounts start again with the runtime.                              *)
LEMMA DropStep ==
  ASSUME IInv, DropRuntime,
         UNCHANGED <<epoch, sent, resent, flight, ack>>,
         socket' \in [Socket -> {"none", "open", "broken", "gone"}]
  PROVE  IInv'
<1> USE DEF DropRuntime
<1>0. 0 \in 0 .. MaxSequence
  BY TelemetryAssumption
<1>1. TypeOK'
  BY <1>0 DEF IInv, TypeOK
<1>2. LastIsHighest' /\ LiveAcked'
  BY DEF LastIsHighest, LiveAcked
<1>3. Skipped' = {}
  BY DEF Skipped
<1>4. GapsReported'
  BY <1>3, FS_EmptySet DEF GapsReported
<1> QED  BY <1>1, <1>2, <1>4 DEF IInv

LEMMA DisconnectStep ==
  ASSUME IInv, NEW w \in Socket, Disconnect(w)
  PROVE  IInv'
<1>1. socket' \in [Socket -> {"none", "open", "broken", "gone"}]
  BY DEF Disconnect, IInv, TypeOK
<1>2. CASE epoch = 0
  BY <1>1, <1>2, DropStep DEF Disconnect
<1>3. CASE epoch # 0
  <2>1. TypeOK'
    BY <1>1, <1>3 DEF Disconnect, counters, IInv, TypeOK
  <2> QED  BY <1>3, <2>1, AccountsLeft DEF Disconnect
<1> QED  BY <1>2, <1>3

LEMMA NextIInv == IInv /\ [Next]_vars => IInv'
<1> SUFFICES ASSUME IInv, [Next]_vars PROVE IInv'
  OBVIOUS
<1>1. ASSUME NEW w \in Socket,
             \/ Connect(w)
             \/ \E n \in Sequence \cup {NoSequence} : Send(w, n)
             \/ \E kept \in 0 .. MaxFlight : Break(w, kept)
      PROVE  IInv'
  BY <1>1, PhoneStep
<1>2. ASSUME NEW w \in Socket, Receive(w)
      PROVE  IInv'
  BY <1>2, ReceiveStep
<1>3. ASSUME NEW w \in Socket, Disconnect(w)
      PROVE  IInv'
  BY <1>3, DisconnectStep
<1>4. CASE ReleaseLive
  BY <1>4, DropStep DEF ReleaseLive, IInv, TypeOK
<1>5. CASE UNCHANGED vars
  <2>1. TypeOK'
    BY <1>5 DEF vars, counters, IInv, TypeOK
  <2> QED  BY <1>5, <2>1, AccountsLeft DEF vars
<1> QED  BY <1>1, <1>2, <1>3, <1>4, <1>5 DEF Next

LEMMA Inductive == Spec => []IInv
<1> QED  BY InitIInv, NextIInv, PTL DEF Spec

-----------------------------------------------------------------------------
(* Every variable keeps its type: the gap count stays below the number of  *)
(* sequences the phone can use.                                            *)
THEOREM TypeCorrect == Spec => []TypeOK
<1>1. IInv => TypeOK
  BY DEF IInv
<1> QED  BY <1>1, Inductive, PTL

(* The gap count of ingest_batch is exactly the number of sequences jumped *)
(* over, and the reports name exactly those that one report has room for,  *)
(* however batches are repeated, lost and split over sockets.              *)
THEOREM GapsExact == Spec => []GapsReported
<1>1. IInv => GapsReported
  BY DEF IInv
<1> QED  BY <1>1, Inductive, PTL

(* What any step does to the last acknowledgement.                         *)
LEMMA AckGrows ==
  ASSUME IInv, [Next]_vars, epoch = 1
  PROVE  ack' >= ack
<1> USE TelemetryAssumption
<1>0. ack \in Nat /\ lastSeq \in Nat
  BY DEF IInv, TypeOK
<1>1. ASSUME NEW w \in Socket, Receive(w), runtime
      PROVE  ack' >= ack
  <2>1. Head(flight[w]) \in 0 .. MaxSequence
    <3>1. Head(flight[w]) \in Sequence \cup {NoSequence}
      BY <1>1, HeadTaken DEF Receive, IInv
    <3> QED  BY <3>1 DEF Sequence, NoSequence
  <2>2. ack = lastSeq
    BY <1>1 DEF IInv, LiveAcked
  <2> QED  BY <1>0, <1>1, <2>1, <2>2 DEF Receive, Account
<1>2. CASE UNCHANGED ack
  BY <1>0, <1>2
<1>3. UNCHANGED ack \/ \E w \in Socket : Receive(w) /\ runtime
  BY DEF Next, vars, Connect, Send, Break, Receive, Disconnect, ReleaseLive
<1> QED  BY <1>1, <1>2, <1>3

(* The acknowledged sequence of a live epoch never goes back: a late batch *)
(* of an old socket is acknowledged with the highest number that has come. *)
THEOREM AcksNeverGoBack == Spec => AckMonotone
<1>1. IInv /\ [Next]_vars => [epoch = 1 => ack' >= ack]_vars
  BY AckGrows
<1> QED  BY <1>1, Inductive, PTL DEF Spec, AckMonotone

-----------------------------------------------------------------------------
(* The locks.  An operation on one, and the order in which they are taken: *)
(* the lock of a receiver, then the service's, then a queue's or the       *)
(* store's.                                                                *)
Operation == {"take", "give", "spawn"} \X Lock

(* The locks of the epochs K.                                              *)
LocksOf(K) == {Service, Store} \cup ({"receiver", "queue"} \X K)

Rank(l) == CASE l[1] = "receiver" -> 0
             [] l[1] = "service"  -> 1
             [] OTHER             -> 2

(* Who holds the locks a may take l: it comes after all of them, or is the *)
(* lock of a receiver in fresh, which no other thread knows yet.           *)
MayTake(a, fresh, l) ==
  /\ l \notin a
  /\ \/ \A x \in a : Rank(x) < Rank(l)
     \/ l[1] = "receiver" /\ l[2] \in fresh

(* One operation between two states of a thread: the locks it holds and    *)
(* the receivers it has made and not started.                              *)
Operates(K, r, op, q) ==
  LET l == op[2]
  IN /\ op \in Operation /\ l \in LocksOf(K)
     /\ \/ op[1] = "take" /\ MayTake(r[1], r[2], l) /\ q = <<r[1] \cup {l}, r[2]>>
        \/ op[1] = "give" /\ l \in r[1] /\ q = <<r[1] \ {l}, r[2]>>
        \/ op[1] = "spawn" /\ l[2] \in r[2] /\ q = <<r[1], r[2] \ {l[2]}>>

(* A program that leads from r to q, one operation after the other.        *)
Path(K, s, h, r, q) ==
  /\ h[1] = r /\ h[Len(s) + 1] = q
  /\ \A i \in 1 .. Len(s) : Operates(K, h[i], s[i], h[i + 1])

Leads(K, s, r, q) == s \in Seq(Operation) /\ \E h : Path(K, s, h, r, q)

(* What is left of a thread's call keeps the order and gives back all.     *)
Orderly(t, fresh) ==
  /\ fresh \subseteq Epoch /\ fresh \cap started = {}
  /\ t # Loop => fresh = {}
  /\ Held(t) \subseteq LocksOf(started \cup fresh)
  /\ \E g : Leads(started \cup fresh, todo[t], <<Held(t), fresh>>, <<{}, g>>)

LocksInv ==
  /\ owner \in [Lock -> Thread \cup {None}]
  /\ started \subseteq Epoch
  /\ todo \in [Thread -> Seq(Operation)]
  /\ \A t \in Thread : \E fresh : Orderly(t, fresh)

-----------------------------------------------------------------------------
(* A set of naturals that is not empty has a least member.                 *)
LEMMA LeastExists ==
  ASSUME NEW T \in SUBSET Nat, T # {}
  PROVE  \E m \in T : \A t \in T : m <= t
<1>1. IsWellFoundedOn(OpToRel(<, Nat), Nat)
  BY NatLessThanWellFounded
<1>2. PICK m \in T : \A t \in T : ~(<<t, m>> \in OpToRel(<, Nat))
  BY <1>1, WFMin
<1>3. ASSUME NEW t \in T
      PROVE  m <= t
  <2>1. <<t, m>> \notin {ss \in Nat \X Nat : ss[1] < ss[2]}
    BY <1>2 DEF OpToRel
  <2>2. ~(t < m)
    BY <2>1
  <2> QED  BY <2>2
<1> QED  BY <1>3

(* A call with nothing left to do leads nowhere.                           *)
LEMMA LeadsEmpty ==
  ASSUME NEW K, NEW r
  PROVE  /\ Leads(K, <<>>, r, r)
         /\ \A q : Leads(K, <<>>, r, q) => q = r
<1>1. Path(K, <<>>, [i \in {1} |-> r], r, r)
  BY DEF Path
<1>2. Leads(K, <<>>, r, r)
  <2>1. <<>> \in Seq(Operation)
    OBVIOUS
  <2> QED  BY <1>1, <2>1 DEF Leads
<1>3. ASSUME NEW q, Leads(K, <<>>, r, q)
      PROVE  q = r
  BY <1>3 DEF Leads, Path
<1> QED  BY <1>2, <1>3

(* One operation.                                                          *)
LEMMA LeadsOne ==
  ASSUME NEW K, NEW r, NEW q, NEW op, Operates(K, r, op, q)
  PROVE  Leads(K, <<op>>, r, q)
<1> DEFINE h == [i \in 1 .. 2 |-> IF i = 1 THEN r ELSE q]
<1>1. op \in Operation
  BY DEF Operates
<1>2. <<op>> \in Seq(Operation) /\ Len(<<op>>) = 1 /\ <<op>>[1] = op
  BY <1>1
<1>3. h[1] = r /\ h[2] = q
  OBVIOUS
<1> HIDE DEF h
<1>4. Path(K, <<op>>, h, r, q)
  BY <1>2, <1>3 DEF Path
<1> QED  BY <1>2, <1>4 DEF Leads

(* One program after the other.                                            *)
LEMMA LeadsConcat ==
  ASSUME NEW K, NEW r, NEW p, NEW q, NEW u, NEW v,
         Leads(K, u, r, p), Leads(K, v, p, q)
  PROVE  Leads(K, u \o v, r, q)
<1> DEFINE m == Len(u)
           n == Len(v)
           w == u \o v
<1>1. u \in Seq(Operation) /\ v \in Seq(Operation) /\ m \in Nat /\ n \in Nat
  BY LenProperties DEF Leads
<1>2. PICK f : Path(K, u, f, r, p)
  BY DEF Leads
<1>3. PICK g : Path(K, v, g, p, q)
  BY DEF Leads
<1> DEFINE h == [i \in 1 .. (m + n + 1) |-> IF i <= m THEN f[i] ELSE g[i - m]]
<1>4. /\ w \in Seq(Operation) /\ Len(w) = m + n
      /\ \A i \in 1 .. (m + n) : w[i] = IF i <= m THEN u[i] ELSE v[i - m]
  BY <1>1, ConcatProperties
<1>5. /\ f[1] = r /\ f[m + 1] = p /\ g[1] = p /\ g[n + 1] = q
      /\ \A i \in 1 .. m : Operates(K, f[i], u[i], f[i + 1])
      /\ \A i \in 1 .. n : Operates(K, g[i], v[i], g[i + 1])
  BY <1>2, <1>3 DEF Path
<1>6. \A i \in 1 .. (m + n + 1) : h[i] = IF i <= m THEN f[i] ELSE g[i - m]
  OBVIOUS
<1> HIDE DEF m, n, w, h
<1>7. h[1] = r
  <2>1. CASE m = 0
    BY <1>1, <1>5, <1>6, <2>1
  <2>2. CASE m # 0
    BY <1>1, <1>5, <1>6, <2>2
  <2> QED  BY <2>1, <2>2
<1>8. h[m + n + 1] = q
  <2>1. m + n + 1 \in 1 .. (m + n + 1) /\ ~(m + n + 1 <= m) /\ (m + n + 1) - m = n + 1
    BY <1>1
  <2> QED  BY <1>5, <1>6, <2>1
<1>9. ASSUME NEW i \in 1 .. (m + n)
      PROVE  Operates(K, h[i], w[i], h[i + 1])
  <2>1. i \in 1 .. (m + n + 1) /\ i + 1 \in 1 .. (m + n + 1)
    BY <1>1
  <2>2. CASE i < m
    <3>1. h[i] = f[i] /\ h[i + 1] = f[i + 1] /\ w[i] = u[i] /\ i \in 1 .. m
      BY <1>1, <1>4, <1>6, <2>1, <2>2
    <3> QED  BY <1>5, <3>1
  <2>3. CASE i = m
    <3>1. i <= m /\ ~(i + 1 <= m) /\ (i + 1) - m = 1 /\ i \in 1 .. m
      BY <1>1, <2>3
    <3>2. h[i] = f[i] /\ h[i + 1] = g[1] /\ w[i] = u[i]
      BY <1>4, <1>6, <2>1, <3>1
    <3> QED  BY <1>5, <2>3, <3>1, <3>2
  <2>4. CASE i > m
    <3>1. ~(i <= m) /\ ~(i + 1 <= m) /\ (i + 1) - m = (i - m) + 1 /\ i - m \in 1 .. n
      BY <1>1, <2>4
    <3>2. h[i] = g[i - m] /\ h[i + 1] = g[(i - m) + 1] /\ w[i] = v[i - m]
      BY <1>4, <1>6, <2>1, <3>1
    <3> QED  BY <1>5, <3>1, <3>2
  <2> QED  BY <1>1, <2>2, <2>3, <2>4
<1>10. Path(K, w, h, r, q)
  BY <1>4, <1>7, <1>8, <1>9 DEF Path
<1> QED  BY <1>4, <1>10 DEF Leads, w

(* What is left after the first operation.                                 *)
LEMMA LeadsTail ==
  ASSUME NEW K, NEW r, NEW q, NEW s, Leads(K, s, r, q), s # <<>>
  PROVE  \E p : Operates(K, r, Head(s), p) /\ Leads(K, Tail(s), p, q)
<1> DEFINE n == Len(s)
           t == Tail(s)
<1>1. PICK h : Path(K, s, h, r, q)
  BY DEF Leads
<1>2. s \in Seq(Operation) /\ n \in Nat
  BY DEF Leads
<1>3. /\ t \in Seq(Operation) /\ n # 0 /\ Len(t) = n - 1 /\ Head(s) = s[1]
      /\ \A i \in 1 .. Len(t) : t[i] = s[i + 1]
  BY <1>2, HeadTailProperties
<1> DEFINE k == [i \in 1 .. n |-> h[i + 1]]
<1>4. \A i \in 1 .. n : k[i] = h[i + 1]
  OBVIOUS
<1>5. /\ h[1] = r /\ h[n + 1] = q
      /\ \A i \in 1 .. n : Operates(K, h[i], s[i], h[i + 1])
  BY <1>1 DEF Path
<1> HIDE DEF n, t, k
<1>6. Operates(K, r, Head(s), h[2])
  <2>1. 1 \in 1 .. n /\ 1 + 1 = 2
    BY <1>2, <1>3
  <2> QED  BY <1>3, <1>5, <2>1
<1>7. k[1] = h[2] /\ k[Len(t) + 1] = q
  <2>1. 1 \in 1 .. n /\ 1 + 1 = 2 /\ n \in 1 .. n /\ Len(t) + 1 = n
    BY <1>2, <1>3
  <2> QED  BY <1>4, <1>5, <2>1
<1>8. ASSUME NEW i \in 1 .. Len(t)
      PROVE  Operates(K, k[i], t[i], k[i + 1])
  <2>1. i \in 1 .. n /\ i + 1 \in 1 .. n
    BY <1>2, <1>3
  <2> QED  BY <1>3, <1>4, <1>5, <2>1
<1>9. Path(K, t, k, h[2], q)
  BY <1>7, <1>8 DEF Path
<1>10. Leads(K, Tail(s), h[2], q)
  BY <1>3, <1>9 DEF Leads, t
<1> QED  BY <1>6, <1>10

(* The epochs that have started grow.                                      *)
LEMMA LeadsMore ==
  ASSUME NEW K, NEW M, K \subseteq M, NEW r, NEW q, NEW s, Leads(K, s, r, q)
  PROVE  Leads(M, s, r, q)
<1>1. PICK h : Path(K, s, h, r, q)
  BY DEF Leads
<1>2. LocksOf(K) \subseteq LocksOf(M)
  BY DEF LocksOf
<1>3. Path(M, s, h, r, q)
  BY <1>1, <1>2 DEF Path, Operates
<1> QED  BY <1>3 DEF Leads

(* What is held is given back before the end.                              *)
LEMMA HeldIsGiven ==
  ASSUME NEW K, NEW a, NEW f, NEW g, NEW s, Leads(K, s, <<a, f>>, <<{}, g>>), NEW l \in a
  PROVE  Give(l) \in Range(s)
<1>1. PICK h : Path(K, s, h, <<a, f>>, <<{}, g>>)
  BY DEF Leads
<1> DEFINE n == Len(s)
<1>2. s \in Seq(Operation) /\ n \in Nat /\ DOMAIN s = 1 .. n
  BY LenProperties DEF Leads
<1> SUFFICES ASSUME Give(l) \notin Range(s) PROVE FALSE
  OBVIOUS
<1> DEFINE S == {i \in 1 .. (n + 1) : l \notin h[i][1]}
<1>3. h[1] = <<a, f>> /\ h[n + 1] = <<{}, g>>
  BY <1>1 DEF Path
<1>4. S \subseteq Nat /\ n + 1 \in S
  BY <1>2, <1>3
<1>5. PICK m \in S : \A i \in S : m <= i
  <2> HIDE DEF S
  <2>1. S \in SUBSET Nat /\ S # {}
    BY <1>4
  <2> QED  BY <2>1, LeastExists
<1>6. m # 1
  BY <1>3
<1> DEFINE i == m - 1
<1>7. i \in 1 .. n /\ i + 1 = m /\ i \notin S
  BY <1>2, <1>5, <1>6
<1> HIDE DEF i
<1>8. l \in h[i][1] /\ l \notin h[i + 1][1]
  BY <1>2, <1>7
<1>9. Operates(K, h[i], s[i], h[i + 1])
  BY <1>1, <1>7 DEF Path
<1>10. s[i] \in Operation /\ s[i] # Give(l)
  BY <1>2, <1>7 DEF Range
<1>11. s[i] = <<s[i][1], s[i][2]>>
  BY <1>10 DEF Operation
<1>12. ~(s[i][1] = "give" /\ s[i][2] = l)
  BY <1>10, <1>11 DEF Give
<1> QED  BY <1>8, <1>9, <1>12 DEF Operates

-----------------------------------------------------------------------------
(* A lock taken in its order and given back after a program.               *)
LEMMA WithinLeads ==
  ASSUME NEW K, NEW a, NEW f, NEW g, NEW l \in Lock \cap LocksOf(K), MayTake(a, f, l),
         NEW p, Leads(K, p, <<a \cup {l}, f>>, <<a \cup {l}, g>>)
  PROVE  Leads(K, Within(l, p), <<a, f>>, <<a, g>>)
<1>1. Operates(K, <<a, f>>, Take(l), <<a \cup {l}, f>>)
  BY DEF Operates, Operation, Take
<1>2. (a \cup {l}) \ {l} = a
  BY DEF MayTake
<1>3. Operates(K, <<a \cup {l}, g>>, Give(l), <<a, g>>)
  BY <1>2 DEF Operates, Operation, Give
<1>4. Leads(K, <<Take(l)>>, <<a, f>>, <<a \cup {l}, f>>)
  BY <1>1, LeadsOne
<1>5. Leads(K, <<Give(l)>>, <<a \cup {l}, g>>, <<a, g>>)
  BY <1>3, LeadsOne
<1>6. Leads(K, <<Take(l)>> \o p, <<a, f>>, <<a \cup {l}, g>>)
  BY <1>4, LeadsConcat
<1>7. Leads(K, (<<Take(l)>> \o p) \o <<Give(l)>>, <<a, f>>, <<a, g>>)
  BY <1>5, <1>6, LeadsConcat
<1> QED  BY <1>7 DEF Within

(* A lock taken in its order and given back at once.                       *)
LEMMA SectionLeads ==
  ASSUME NEW K, NEW a, NEW f, NEW l \in Lock \cap LocksOf(K), MayTake(a, f, l)
  PROVE  Leads(K, Section(l), <<a, f>>, <<a, f>>)
BY LeadsEmpty, WithinLeads DEF Section

(* The locks of an epoch: which of them may be taken when.                 *)
LEMMA LockOrder ==
  ASSUME NEW K, K \subseteq Epoch, NEW e \in K, NEW f
  PROVE  /\ {Service, Store, Receiver(e), Queue(e)} \subseteq Lock \cap LocksOf(K)
         /\ \A l : MayTake({}, f, l)
         /\ MayTake({Receiver(e)}, f, Service)
         /\ MayTake({Service}, f, Store) /\ MayTake({Service}, f, Queue(e))
         /\ e \in f => MayTake({Service}, f, Receiver(e))
BY DEF LocksOf, Lock, MayTake, Rank, Service, Store, Receiver, Queue

(* A program that is called with no lock held and leaves none held.        *)
Closed(K, p) == Leads(K, p, <<{}, {}>>, <<{}, {}>>)

LEMMA ProgramsClosed ==
  ASSUME NEW K, K \subseteq Epoch, NEW e \in K
  PROVE  /\ Closed(K, Section(Store)) /\ Closed(K, Section(Receiver(e)))
         /\ Closed(K, OpenSourceLocks) /\ Closed(K, EnqueueLocks(e))
         /\ Closed(K, DecodedPtsLocks(e)) /\ Closed(K, OutputEndsLocks(e))
         /\ Closed(K, DecodedFrameLocks(e)) /\ Closed(K, TelemetryLocks(e))
         /\ Closed(K, ReleaseLocks(e)) /\ Closed(K, MetricsLocks(e))
         /\ Closed(K, ReadPacketLocks(e))
<1> DEFINE none == <<{}, {}>>
           serving == <<{Service}, {}>>
<1>1. /\ \A l \in {Service, Store, Receiver(e), Queue(e)} :
           Leads(K, Section(l), none, none)
      /\ \A l \in {Store, Queue(e)} : Leads(K, Section(l), serving, serving)
  BY LockOrder, SectionLeads
<1>2. ASSUME NEW p, Leads(K, p, serving, serving)
      PROVE  Leads(K, Within(Service, p), none, none)
  <2>1. {} \cup {Service} = {Service}
    OBVIOUS
  <2>2. MayTake({}, {}, Service) /\ Service \in Lock \cap LocksOf(K)
    BY LockOrder
  <2>3. Leads(K, p, <<{} \cup {Service}, {}>>, <<{} \cup {Service}, {}>>)
    BY <1>2, <2>1
  <2> QED  BY <2>2, <2>3, WithinLeads
<1>3. /\ Leads(K, Within(Service, Section(Store)), none, none)
      /\ Leads(K, Within(Service, Section(Queue(e))), none, none)
  BY <1>1, <1>2
<1>4. Leads(K, Within(Receiver(e), Section(Service)), none, none)
  <2> DEFINE a == {} \cup {Receiver(e)}
  <2>1. a = {Receiver(e)}
    OBVIOUS
  <2>2. MayTake(a, {}, Service) /\ MayTake({}, {}, Receiver(e))
        /\ {Service, Receiver(e)} \subseteq Lock \cap LocksOf(K)
    BY <2>1, LockOrder
  <2> HIDE DEF a
  <2>3. Leads(K, Section(Service), <<a, {}>>, <<a, {}>>)
    BY <2>2, SectionLeads
  <2> QED  BY <2>2, <2>3, WithinLeads DEF a
<1> HIDE DEF none, serving
<1>5. ASSUME NEW p, NEW q, Leads(K, p, none, none), Leads(K, q, none, none)
      PROVE  Leads(K, p \o q, none, none)
  BY <1>5, LeadsConcat
<1>6. Leads(K, OutputEndsLocks(e), none, none)
  BY <1>1, <1>3, <1>5 DEF OutputEndsLocks, EnqueueLocks
<1>7. Leads(K, DecodedFrameLocks(e), none, none)
  <2>1. Leads(K, Section(Receiver(e)) \o Section(Receiver(e)), none, none)
    BY <1>1, <1>5
  <2> QED  BY <1>3, <1>5, <2>1 DEF DecodedFrameLocks, EnqueueLocks
<1>8. Leads(K, ReleaseLocks(e), none, none)
  <2>1. Leads(K, Section(Queue(e)) \o Section(Store), serving, serving)
    BY <1>1, LeadsConcat
  <2>2. Leads(K, Within(Service, Section(Queue(e)) \o Section(Store)), none, none)
    BY <1>2, <2>1
  <2>3. Leads(K, Section(Service) \o Section(Receiver(e)), none, none)
    BY <1>1, <1>5
  <2>4. Leads(K, Section(Service) \o Section(Receiver(e)) \o Section(Receiver(e)),
              none, none)
    BY <1>1, <1>5, <2>3
  <2> QED  BY <1>5, <2>2, <2>4 DEF ReleaseLocks
<1>9. Leads(K, ReadPacketLocks(e), none, none)
  BY <1>1, <1>5 DEF ReadPacketLocks
<1> QED  BY <1>1, <1>3, <1>4, <1>6, <1>7, <1>8, <1>9
         DEF Closed, OpenSourceLocks, EnqueueLocks, DecodedPtsLocks, TelemetryLocks,
             MetricsLocks, none

(* An allocation takes the lock of a receiver nobody else knows after the  *)
(* service lock, and has started its readers when it ends, or has failed.  *)
LEMMA AllocationLeads ==
  ASSUME NEW K, K \subseteq Epoch, NEW e \in K
  PROVE  /\ Leads(K, AllocateLocks(e), <<{}, {e}>>, <<{}, {}>>)
         /\ Leads(K, AllocateFailsLocks(e), <<{}, {e}>>, <<{}, {e}>>)
<1> DEFINE a == {} \cup {Service}
           b == a \cup {Receiver(e)}
           f == {e}
           u == Section(Store)
           w == Within(Receiver(e), <<Spawn(Receiver(e))>>)
           x == Section(Store) \o Section(Receiver(e)) \o Section(Queue(e)) \o Section(Store)
<1>1. a = {Service} /\ Receiver(e) \in b
  OBVIOUS
<1>2. /\ {Service, Store, Receiver(e), Queue(e)} \subseteq Lock \cap LocksOf(K)
      /\ MayTake({}, f, Store) /\ MayTake({}, f, Service)
      /\ MayTake(a, f, Store) /\ MayTake(a, f, Queue(e)) /\ MayTake(a, f, Receiver(e))
  BY <1>1, LockOrder
<1>3. Operates(K, <<b, f>>, Spawn(Receiver(e)), <<b, {}>>)
  BY <1>2 DEF Operates, Operation, Spawn, Receiver
<1> HIDE DEF a, f
<1>4. Leads(K, <<Spawn(Receiver(e))>>, <<b, f>>, <<b, {}>>)
  BY <1>3, LeadsOne
<1>5. Leads(K, w, <<a, f>>, <<a, {}>>)
  BY <1>2, <1>4, WithinLeads
<1>6. /\ Leads(K, u, <<{}, f>>, <<{}, f>>) /\ Leads(K, u, <<a, f>>, <<a, f>>)
      /\ Leads(K, Section(Receiver(e)), <<a, f>>, <<a, f>>)
      /\ Leads(K, Section(Queue(e)), <<a, f>>, <<a, f>>)
  BY <1>2, SectionLeads
<1> HIDE DEF b, u, w
<1>7. Leads(K, u \o w, <<a, f>>, <<a, {}>>)
  BY <1>5, <1>6, LeadsConcat
<1>8. Leads(K, Within(Service, u \o w), <<{}, f>>, <<{}, {}>>)
  BY <1>2, <1>7, WithinLeads DEF a
<1>9. Leads(K, u \o Within(Service, u \o w), <<{}, f>>, <<{}, {}>>)
  BY <1>6, <1>8, LeadsConcat
<1>10. Leads(K, u \o Section(Receiver(e)), <<a, f>>, <<a, f>>)
  BY <1>6, LeadsConcat
<1>11. Leads(K, u \o Section(Receiver(e)) \o Section(Queue(e)), <<a, f>>, <<a, f>>)
  BY <1>6, <1>10, LeadsConcat
<1>12. Leads(K, x, <<a, f>>, <<a, f>>)
  BY <1>6, <1>11, LeadsConcat DEF u
<1> HIDE DEF x
<1>13. Leads(K, Within(Service, x), <<{}, f>>, <<{}, f>>)
  BY <1>2, <1>12, WithinLeads DEF a
<1>14. Leads(K, u \o Within(Service, x), <<{}, f>>, <<{}, f>>)
  BY <1>6, <1>13, LeadsConcat
<1> QED  BY <1>9, <1>14 DEF AllocateLocks, AllocateFailsLocks, u, w, x, f

(* So do the calls that know no epoch.                                     *)
LEMMA StoreClosed ==
  ASSUME NEW K
  PROVE  Closed(K, Section(Store)) /\ Closed(K, OpenSourceLocks)
<1> DEFINE a == {} \cup {Service}
<1>1. /\ {Service, Store} \subseteq Lock \cap LocksOf(K)
      /\ MayTake({}, {}, Store) /\ MayTake({}, {}, Service) /\ MayTake(a, {}, Store)
  BY DEF LocksOf, Lock, MayTake, Rank, Service, Store
<1> HIDE DEF a
<1>2. /\ Leads(K, Section(Store), <<{}, {}>>, <<{}, {}>>)
      /\ Leads(K, Section(Store), <<a, {}>>, <<a, {}>>)
  BY <1>1, SectionLeads
<1>3. Leads(K, Within(Service, Section(Store)), <<{}, {}>>, <<{}, {}>>)
  BY <1>1, <1>2, WithinLeads DEF a
<1> QED  BY <1>2, <1>3 DEF Closed, OpenSourceLocks

(* Whatever a thread is called to do keeps the order.                      *)
LEMMA ProgramLeads ==
  ASSUME "status" \notin Calls, started \subseteq Epoch,
         NEW t \in Thread, NEW p \in Programs(t)
  PROVE  \E fresh : /\ fresh \subseteq Epoch /\ fresh \cap started = {}
                    /\ t # Loop => fresh = {}
                    /\ \E g : Leads(started \cup fresh, p, <<{}, fresh>>, <<{}, g>>)
<1>1. CASE Closed(started, p)
  <2>1. started \cup {} = started
    OBVIOUS
  <2>2. Leads(started \cup {}, p, <<{}, {}>>, <<{}, {}>>)
    BY <1>1, <2>1 DEF Closed
  <2> QED  BY <2>2
<1>2. CASE /\ t = Loop
           /\ \E e \in Epoch \ started : p = AllocateLocks(e) \/ p = AllocateFailsLocks(e)
  <2>1. PICK e \in Epoch \ started : p = AllocateLocks(e) \/ p = AllocateFailsLocks(e)
    BY <1>2
  <2>2. \E g : Leads(started \cup {e}, p, <<{}, {e}>>, <<{}, g>>)
    <3>1. started \cup {e} \subseteq Epoch /\ e \in started \cup {e}
      OBVIOUS
    <3> DEFINE K == started \cup {e}
    <3> HIDE DEF K
    <3>2. /\ Leads(K, AllocateLocks(e), <<{}, {e}>>, <<{}, {}>>)
          /\ Leads(K, AllocateFailsLocks(e), <<{}, {e}>>, <<{}, {e}>>)
      BY <3>1, AllocationLeads DEF K
    <3>3. \E g : Leads(K, p, <<{}, {e}>>, <<{}, g>>)
      BY <2>1, <3>2
    <3> QED  BY <3>3 DEF K
  <2> QED  BY <1>2, <2>2
<1>3. p \in Handlers /\ t = Loop => \/ p = Section(Store) \/ p = OpenSourceLocks
                                    \/ \E e \in Epoch \ started :
                                         p = AllocateLocks(e) \/ p = AllocateFailsLocks(e)
                                    \/ \E e \in started :
                                         p \in {TelemetryLocks(e), ReleaseLocks(e),
                                                MetricsLocks(e)}
  BY DEF Handlers, If
<1>4. \/ p \in Handlers /\ t = Loop
      \/ \E e \in started : p \in {DecodedPtsLocks(e), Section(Receiver(e)),
                                   OutputEndsLocks(e), DecodedFrameLocks(e),
                                   ReadPacketLocks(e), MetricsLocks(e), ReleaseLocks(e)}
  BY DEF Programs, Callbacks
<1>5. CASE \E e \in started : p \in {TelemetryLocks(e), ReleaseLocks(e), MetricsLocks(e)}
  BY <1>1, <1>5, ProgramsClosed
<1>6. CASE \E e \in started : p \in {DecodedPtsLocks(e), Section(Receiver(e)),
                                     OutputEndsLocks(e), DecodedFrameLocks(e),
                                     ReadPacketLocks(e), MetricsLocks(e), ReleaseLocks(e)}
  BY <1>1, <1>6, ProgramsClosed
<1>7. CASE p = Section(Store) \/ p = OpenSourceLocks
  BY <1>1, <1>7, StoreClosed
<1> QED  BY <1>2, <1>3, <1>4, <1>5, <1>6, <1>7

-----------------------------------------------------------------------------
(* A thread that does not act keeps its order while its lot is the same.   *)
LEMMA OrderlyKept ==
  ASSUME NEW u, NEW fresh, Orderly(u, fresh), todo'[u] = todo[u], Held(u)' = Held(u),
         started \subseteq started', fresh \cap started' = {}
  PROVE  Orderly(u, fresh)'
<1>1. started \cup fresh \subseteq started' \cup fresh
  OBVIOUS
<1>2. LocksOf(started \cup fresh) \subseteq LocksOf(started' \cup fresh)
  BY <1>1 DEF LocksOf
<1>3. PICK g : Leads(started \cup fresh, todo[u], <<Held(u), fresh>>, <<{}, g>>)
  BY DEF Orderly
<1>4. Leads(started' \cup fresh, todo[u], <<Held(u), fresh>>, <<{}, g>>)
  BY <1>1, <1>3, LeadsMore
<1>5. Leads(started' \cup fresh, todo'[u], <<Held(u)', fresh>>, <<{}, g>>)
  BY <1>4
<1> QED  BY <1>2, <1>5 DEF Orderly

(* Nothing is locked and nobody has anything to do.                        *)
LEMMA InitLocksInv == LocksInit => LocksInv
<1> SUFFICES ASSUME LocksInit PROVE LocksInv
  OBVIOUS
<1>1. /\ owner \in [Lock -> Thread \cup {None}] /\ started \subseteq Epoch
      /\ todo \in [Thread -> Seq(Operation)]
  <2>1. <<>> \in Seq(Operation)
    OBVIOUS
  <2> QED  BY <2>1 DEF LocksInit
<1>2. ASSUME NEW t \in Thread
      PROVE  Orderly(t, {})
  <2>1. Held(t) = {}
    BY <1>2, LocksAssumption DEF LocksInit, Held
  <2>2. todo[t] = <<>>
    BY <1>2 DEF LocksInit
  <2>3. Leads(started \cup {}, todo[t], <<Held(t), {}>>, <<{}, {}>>)
    BY <2>1, <2>2, LeadsEmpty
  <2> QED  BY <2>1, <2>3 DEF Orderly
<1> QED  BY <1>1, <1>2 DEF LocksInv

(* A call begins with no lock held.                                        *)
LEMMA BeginStep ==
  ASSUME "status" \notin Calls, LocksInv, NEW t \in Thread, Begin(t)
  PROVE  LocksInv'
<1>1. PICK p \in Programs(t) : todo' = [todo EXCEPT ![t] = p]
  BY DEF Begin
<1>2. /\ owner \in [Lock -> Thread \cup {None}] /\ started \subseteq Epoch
      /\ todo \in [Thread -> Seq(Operation)] /\ owner' = owner /\ started' = started
      /\ todo[t] = <<>>
  BY DEF LocksInv, Begin
<1>3. PICK fresh : /\ fresh \subseteq Epoch /\ fresh \cap started = {}
                   /\ t # Loop => fresh = {}
                   /\ \E g : Leads(started \cup fresh, p, <<{}, fresh>>, <<{}, g>>)
  BY <1>2, ProgramLeads
<1>4. p \in Seq(Operation)
  BY <1>3 DEF Leads
<1>5. todo' \in [Thread -> Seq(Operation)] /\ todo'[t] = p
  BY <1>1, <1>2, <1>4
<1>6. ASSUME NEW u \in Thread
      PROVE  \E f : Orderly(u, f)'
  <2>1. Held(u)' = Held(u)
    BY <1>2 DEF Held
  <2>2. PICK f : Orderly(u, f)
    BY DEF LocksInv
  <2>3. CASE u # t
    <3>1. todo'[u] = todo[u] /\ started \subseteq started' /\ f \cap started' = {}
      BY <1>1, <1>2, <2>2, <2>3 DEF Orderly
    <3> QED  BY <2>1, <2>2, <3>1, OrderlyKept
  <2>4. CASE u = t
    <3>1. PICK g : Leads(started \cup f, todo[t], <<Held(t), f>>, <<{}, g>>)
      BY <2>2, <2>4 DEF Orderly
    <3> DEFINE r == <<Held(t), f>>
               q == <<{}, g>>
               K == started \cup f
    <3>2. Leads(K, <<>>, r, q)
      BY <1>2, <3>1
    <3> HIDE DEF r, q, K
    <3>3. q = r
      BY <3>2, LeadsEmpty
    <3>4. Held(t)' = {}
      BY <2>1, <2>4, <3>3 DEF q, r
    <3>5. Orderly(t, fresh)'
      BY <1>2, <1>3, <1>5, <3>4 DEF Orderly
    <3> QED  BY <2>4, <3>5
  <2> QED  BY <2>3, <2>4
<1> QED  BY <1>2, <1>5, <1>6 DEF LocksInv

(* What an operation does to the thread that makes it.                     *)
LEMMA Advancing ==
  ASSUME LocksInv, NEW t \in Thread, todo[t] # <<>>, Advance(t)
  PROVE  /\ todo' \in [Thread -> Seq(Operation)]
         /\ todo'[t] = Tail(todo[t])
         /\ \A u \in Thread : u # t => todo'[u] = todo[u]
         /\ Wanted(t) \in Lock /\ Head(todo[t])[2] = Wanted(t)
         /\ Head(todo[t])[1] \in {"take", "give", "spawn"}
<1>1. todo \in [Thread -> Seq(Operation)] /\ todo[t] \in Seq(Operation)
  BY DEF LocksInv
<1>2. Tail(todo[t]) \in Seq(Operation) /\ Head(todo[t]) \in Operation
  BY <1>1, HeadTailProperties
<1>3. todo' = [todo EXCEPT ![t] = Tail(todo[t])]
  BY DEF Advance
<1> QED  BY <1>1, <1>2, <1>3 DEF Wanted, Operation

LEMMA TakeStep ==
  ASSUME LocksInv, NEW t \in Thread, TakeLock(t)
  PROVE  LocksInv'
<1> DEFINE l == Wanted(t)
<1>1. /\ owner \in [Lock -> Thread \cup {None}] /\ started \subseteq Epoch
      /\ todo[t] # <<>> /\ Head(todo[t])[1] = "take" /\ Advance(t)
      /\ owner[l] = None /\ owner' = [owner EXCEPT ![l] = t] /\ started' = started
  BY DEF LocksInv, TakeLock, Does
<1>2. /\ todo' \in [Thread -> Seq(Operation)] /\ todo'[t] = Tail(todo[t])
      /\ \A u \in Thread : u # t => todo'[u] = todo[u]
      /\ l \in Lock /\ Head(todo[t])[2] = l
  BY <1>1, Advancing
<1> HIDE DEF l
<1>3. owner' \in [Lock -> Thread \cup {None}]
  BY <1>1
<1>4. Held(t)' = Held(t) \cup {l}
  BY <1>1, <1>2 DEF Held
<1>5. ASSUME NEW u \in Thread, u # t
      PROVE  Held(u)' = Held(u)
  BY <1>1, <1>2, <1>5, LocksAssumption DEF Held
<1>6. ASSUME NEW u \in Thread
      PROVE  \E f : Orderly(u, f)'
  <2>1. PICK f : Orderly(u, f)
    BY DEF LocksInv
  <2>2. CASE u # t
    BY <1>1, <1>2, <1>5, <2>1, <2>2, OrderlyKept DEF Orderly
  <2>3. CASE u = t
    <3> DEFINE K == started \cup f
    <3>1. PICK g : Leads(K, todo[t], <<Held(t), f>>, <<{}, g>>)
      BY <2>1, <2>3 DEF Orderly
    <3>2. PICK p : /\ Operates(K, <<Held(t), f>>, Head(todo[t]), p)
                   /\ Leads(K, Tail(todo[t]), p, <<{}, g>>)
      BY <1>1, <3>1, LeadsTail
    <3>3. p = <<Held(t) \cup {l}, f>> /\ l \in LocksOf(K)
      BY <1>1, <1>2, <3>2 DEF Operates
    <3>4. Leads(started' \cup f, todo'[t], <<Held(t)', f>>, <<{}, g>>)
      BY <1>1, <1>2, <1>4, <3>2, <3>3
    <3>5. Held(t)' \subseteq LocksOf(started' \cup f)
      BY <1>1, <1>4, <2>1, <2>3, <3>3 DEF Orderly
    <3>6. Orderly(t, f)'
      BY <1>1, <2>1, <2>3, <3>4, <3>5 DEF Orderly
    <3> QED  BY <2>3, <3>6
  <2> QED  BY <2>2, <2>3
<1> QED  BY <1>1, <1>2, <1>3, <1>6 DEF LocksInv

LEMMA GiveStep ==
  ASSUME LocksInv, NEW t \in Thread, GiveLock(t)
  PROVE  LocksInv'
<1> DEFINE l == Wanted(t)
<1>1. /\ owner \in [Lock -> Thread \cup {None}] /\ started \subseteq Epoch
      /\ todo[t] # <<>> /\ Head(todo[t])[1] = "give" /\ Advance(t)
      /\ owner' = [owner EXCEPT ![l] = None] /\ started' = started
  BY DEF LocksInv, GiveLock, Does
<1>2. /\ todo' \in [Thread -> Seq(Operation)] /\ todo'[t] = Tail(todo[t])
      /\ \A u \in Thread : u # t => todo'[u] = todo[u]
      /\ l \in Lock /\ Head(todo[t])[2] = l
  BY <1>1, Advancing
<1> HIDE DEF l
<1>3. owner' \in [Lock -> Thread \cup {None}]
  BY <1>1
<1>4. Held(t)' = Held(t) \ {l}
  BY <1>1, <1>2, LocksAssumption DEF Held
<1>5. PICK f : Orderly(t, f)
  BY DEF LocksInv
<1> DEFINE K == started \cup f
<1>6. PICK g : Leads(K, todo[t], <<Held(t), f>>, <<{}, g>>)
  BY <1>5 DEF Orderly
<1>7. PICK p : /\ Operates(K, <<Held(t), f>>, Head(todo[t]), p)
               /\ Leads(K, Tail(todo[t]), p, <<{}, g>>)
  BY <1>1, <1>6, LeadsTail
<1>8. p = <<Held(t) \ {l}, f>> /\ l \in Held(t)
  BY <1>1, <1>2, <1>7 DEF Operates
<1>9. ASSUME NEW u \in Thread, u # t
      PROVE  Held(u)' = Held(u)
  BY <1>1, <1>2, <1>8, <1>9, LocksAssumption DEF Held
<1>10. ASSUME NEW u \in Thread
       PROVE  \E fresh : Orderly(u, fresh)'
  <2>1. PICK fresh : Orderly(u, fresh)
    BY DEF LocksInv
  <2>2. CASE u # t
    BY <1>1, <1>2, <1>9, <2>1, <2>2, OrderlyKept DEF Orderly
  <2>3. CASE u = t
    <3>1. Leads(started' \cup f, todo'[t], <<Held(t)', f>>, <<{}, g>>)
      BY <1>1, <1>2, <1>4, <1>7, <1>8
    <3>2. Held(t)' \subseteq LocksOf(started' \cup f)
      BY <1>1, <1>4, <1>5 DEF Orderly
    <3>3. Orderly(t, f)'
      BY <1>1, <1>5, <3>1, <3>2 DEF Orderly
    <3> QED  BY <2>3, <3>3
  <2> QED  BY <2>2, <2>3
<1> QED  BY <1>1, <1>2, <1>3, <1>10 DEF LocksInv

LEMMA SpawnStep ==
  ASSUME LocksInv, NEW t \in Thread, SpawnReaders(t)
  PROVE  LocksInv'
<1>0. PICK e : e = Wanted(t)[2]
  OBVIOUS
<1>1. /\ owner \in [Lock -> Thread \cup {None}] /\ started \subseteq Epoch
      /\ todo[t] # <<>> /\ Head(todo[t])[1] = "spawn" /\ Advance(t)
      /\ owner' = owner /\ started' = started \cup {e}
  BY <1>0 DEF LocksInv, SpawnReaders, Does
<1>2. /\ todo' \in [Thread -> Seq(Operation)] /\ todo'[t] = Tail(todo[t])
      /\ \A u \in Thread : u # t => todo'[u] = todo[u]
      /\ Head(todo[t])[2] = Wanted(t)
  BY <1>1, Advancing
<1>3. \A u \in Thread : Held(u)' = Held(u)
  BY <1>1 DEF Held
<1>4. PICK f : Orderly(t, f)
  BY DEF LocksInv
<1> DEFINE K == started \cup f
<1>5. PICK g : Leads(K, todo[t], <<Held(t), f>>, <<{}, g>>)
  BY <1>4 DEF Orderly
<1>6. PICK p : /\ Operates(K, <<Held(t), f>>, Head(todo[t]), p)
               /\ Leads(K, Tail(todo[t]), p, <<{}, g>>)
  BY <1>1, <1>5, LeadsTail
<1>7. p = <<Held(t), f \ {e}>> /\ e \in f
  BY <1>0, <1>1, <1>2, <1>6 DEF Operates
<1>8. t = Loop /\ e \in Epoch /\ K = started' \cup (f \ {e})
  BY <1>1, <1>4, <1>7 DEF Orderly
<1>9. ASSUME NEW u \in Thread
      PROVE  \E fresh : Orderly(u, fresh)'
  <2>1. PICK fresh : Orderly(u, fresh)
    BY DEF LocksInv
  <2>2. CASE u # t
    <3>1. fresh = {}
      BY <1>8, <2>1, <2>2 DEF Orderly
    <3> QED  BY <1>1, <1>2, <1>3, <2>1, <2>2, <3>1, OrderlyKept
  <2>3. CASE u = t
    <3>1. Leads(started' \cup (f \ {e}), todo'[t], <<Held(t)', f \ {e}>>, <<{}, g>>)
      BY <1>2, <1>3, <1>6, <1>7, <1>8
    <3>2. Held(t)' \subseteq LocksOf(started' \cup (f \ {e}))
      BY <1>3, <1>4, <1>8 DEF Orderly
    <3>3. (f \ {e}) \cap started' = {} /\ f \ {e} \subseteq Epoch
      BY <1>1, <1>4 DEF Orderly
    <3>4. Orderly(t, f \ {e})'
      BY <1>8, <3>1, <3>2, <3>3 DEF Orderly
    <3> QED  BY <2>3, <3>4
  <2> QED  BY <2>2, <2>3
<1>10. started' \subseteq Epoch
  BY <1>1, <1>8
<1> QED  BY <1>1, <1>2, <1>9, <1>10 DEF LocksInv

(* Every step keeps the order.                                             *)
LEMMA LocksStep ==
  ASSUME "status" \notin Calls, LocksInv, [LocksNext]_lockVars
  PROVE  LocksInv'
<1>1. CASE LocksNext
  BY <1>1, BeginStep, TakeStep, GiveStep, SpawnStep DEF LocksNext
<1>2. CASE UNCHANGED lockVars
  BY <1>2 DEF lockVars, LocksInv, Orderly, Held
<1> QED  BY <1>1, <1>2

(* What a thread waits for comes after what it holds, or is the lock of a  *)
(* receiver that only this thread knows.                                   *)
LEMMA WaitsInOrder ==
  ASSUME LocksInv, NEW t \in Thread, Does(t, "take")
  PROVE  \E fresh : Orderly(t, fresh) /\ MayTake(Held(t), fresh, Wanted(t))
<1>1. PICK f : Orderly(t, f)
  BY DEF LocksInv
<1>2. todo[t] # <<>> /\ Head(todo[t])[1] = "take" /\ Head(todo[t])[2] = Wanted(t)
  BY DEF Does, Wanted
<1> DEFINE K == started \cup f
<1>3. PICK g : Leads(K, todo[t], <<Held(t), f>>, <<{}, g>>)
  BY <1>1 DEF Orderly
<1>4. \E p : Operates(K, <<Held(t), f>>, Head(todo[t]), p)
  BY <1>2, <1>3, LeadsTail
<1> QED  BY <1>1, <1>2, <1>4 DEF Operates

(* A lock that has an owner is one of the locks its owner holds.           *)
LEMMA OwnerHolds ==
  ASSUME LocksInv, NEW t \in Thread, Does(t, "take"), owner[Wanted(t)] # None
  PROVE  owner[Wanted(t)] \in Thread /\ Wanted(t) \in Held(owner[Wanted(t)])
<1>1. owner \in [Lock -> Thread \cup {None}] /\ todo[t] \in Seq(Operation) /\ todo[t] # <<>>
  BY DEF LocksInv, Does
<1>2. Head(todo[t]) \in Operation
  BY <1>1, HeadTailProperties
<1>3. Wanted(t) \in Lock
  BY <1>2 DEF Wanted, Operation
<1> QED  BY <1>1, <1>3 DEF Held

(* Along a cycle of waits the locks waited for would rise for ever: the    *)
(* lock of a fresh receiver, the one exception to their order, has no      *)
(* other owner than the thread that made it.                               *)
LEMMA OrderedWaits == LocksInv => NoWaitCycle
<1> SUFFICES ASSUME LocksInv, NEW group \in SUBSET Thread, group # {},
                    \A t \in group : WaitsFor(t) \cap group # {}
             PROVE  FALSE
  BY DEF NoWaitCycle
<1> DEFINE Holder(t) == owner[Wanted(t)]
<1>1. \A t \in group : /\ Does(t, "take") /\ Holder(t) # None /\ Holder(t) \in group
                       /\ Wanted(t) \in Held(Holder(t))
  BY OwnerHolds DEF WaitsFor
<1>2. ASSUME NEW t \in group
      PROVE  Rank(Wanted(t)) < Rank(Wanted(Holder(t)))
  <2> DEFINE u == Holder(t)
             v == Holder(u)
             l == Wanted(u)
  <2>1. /\ u \in group /\ Does(u, "take") /\ Wanted(t) \in Held(u)
        /\ v \in group /\ l \in Held(v) /\ v \in Thread /\ u \in Thread
    BY <1>1
  <2> HIDE DEF u, v, l
  <2>2. PICK f : Orderly(u, f) /\ MayTake(Held(u), f, l)
    BY <2>1, WaitsInOrder DEF l
  <2>3. CASE l[1] = "receiver" /\ l[2] \in f
    <3>1. PICK h : Orderly(v, h)
      BY <2>1 DEF LocksInv
    <3>2. l \in LocksOf(started \cup h)
      BY <2>1, <3>1 DEF Orderly
    <3>3. l[2] \in started \cup h
      BY <2>3, <3>2 DEF LocksOf, Service, Store
    <3>4. l[2] \in h
      BY <2>2, <2>3, <3>3 DEF Orderly
    <3>5. u = Loop /\ v = Loop
      BY <2>2, <2>3, <3>1, <3>4 DEF Orderly
    <3> QED  BY <2>1, <2>2, <3>5 DEF MayTake
  <2>4. CASE \A x \in Held(u) : Rank(x) < Rank(l)
    BY <2>1, <2>4 DEF u, l
  <2> QED  BY <2>2, <2>3, <2>4 DEF MayTake
<1>3. PICK t \in group : TRUE
  OBVIOUS
<1> DEFINE r(x) == Rank(Wanted(x))
<1>4. r(t) < r(Holder(t)) /\ r(Holder(t)) < r(Holder(Holder(t)))
      /\ r(Holder(Holder(t))) < r(Holder(Holder(Holder(t))))
  <2>1. \A x \in group : Holder(x) \in group /\ r(x) < r(Holder(x))
    BY <1>1, <1>2
  <2> HIDE DEF Holder, r
  <2> QED  BY <2>1
<1>5. \A l : Rank(l) \in 0 .. 2
  BY DEF Rank
<1>6. \A x : r(x) \in 0 .. 2
  BY <1>5
<1> HIDE DEF r, Holder
<1> QED  BY <1>4, <1>6

(* A thread with work to do whose next operation is possible.              *)
CanStep(t) == todo[t] # <<>> /\ (Does(t, "take") => owner[Wanted(t)] = None)

(* A lock is held only by a thread that has it to give back.               *)
LEMMA OwnerIsBusy ==
  ASSUME LocksInv, NEW t \in Thread, NEW l \in Held(t)
  PROVE  Give(l) \in Range(todo[t]) /\ todo[t] # <<>>
<1>1. PICK f : Orderly(t, f)
  BY DEF LocksInv
<1> DEFINE K == started \cup f
<1>2. PICK g : Leads(K, todo[t], <<Held(t), f>>, <<{}, g>>)
  BY <1>1 DEF Orderly
<1> HIDE DEF K
<1>3. Give(l) \in Range(todo[t])
  BY <1>2, HeldIsGiven
<1>4. todo[t] # <<>>
  BY <1>3 DEF Range
<1> QED  BY <1>3, <1>4

(* No set of threads is stuck, so somebody can always go on.               *)
LEMMA BusyMeansProgress ==
  LocksInv => ((\E t \in Thread : todo[t] # <<>>) => \E t \in Thread : CanStep(t))
<1> SUFFICES ASSUME LocksInv, \E t \in Thread : todo[t] # <<>>
             PROVE  \E t \in Thread : CanStep(t)
  OBVIOUS
<1> DEFINE busy == {t \in Thread : todo[t] # <<>>}
<1>1. busy \in (SUBSET Thread) \ {{}}
  OBVIOUS
<1>2. PICK t \in busy : WaitsFor(t) \cap busy = {}
  BY <1>1, OrderedWaits DEF NoWaitCycle
<1>3. ASSUME Does(t, "take"), owner[Wanted(t)] # None
      PROVE  FALSE
  <2>1. owner[Wanted(t)] \in Thread /\ Wanted(t) \in Held(owner[Wanted(t)])
    BY <1>3, OwnerHolds
  <2>2. owner[Wanted(t)] \in busy
    BY <2>1, OwnerIsBusy
  <2> QED  BY <1>2, <1>3, <2>2 DEF WaitsFor
<1> QED  BY <1>2, <1>3 DEF CanStep

-----------------------------------------------------------------------------
(* The order of the locks is kept by every thread at all times, however    *)
(* many epochs and inference threads there are.                            *)
THEOREM LocksInvariance ==
  ASSUME "status" \notin Calls
  PROVE  LocksSpec => []LocksInv
<1>1. LocksInv /\ [LocksNext]_lockVars => LocksInv'
  BY LocksStep
<1> QED  BY <1>1, InitLocksInv, PTL DEF LocksSpec

(* LocksTypeOK: a thread that holds a lock still has it to give back.      *)
THEOREM LocksTyped ==
  ASSUME "status" \notin Calls
  PROVE  LocksSpec => []LocksTypeOK
<1>1. LocksInv => LocksTypeOK
  BY OwnerIsBusy DEF LocksInv, LocksTypeOK, Operation
<1> QED  BY <1>1, LocksInvariance, PTL

(* NoWaitCycle, for every number of epochs and of inference threads: the   *)
(* calls of the service, the status call apart, cannot deadlock.           *)
THEOREM NoCycleOfWaits ==
  ASSUME "status" \notin Calls
  PROVE  LocksSpec => []NoWaitCycle
BY LocksInvariance, OrderedWaits, PTL

(* As long as some thread is inside a call, some thread can go on with     *)
(* its own: the system as a whole never stands still with work to do.      *)
THEOREM SomeoneGoesOn ==
  ASSUME "status" \notin Calls
  PROVE  LocksSpec => []((\E t \in Thread : todo[t] # <<>>) => \E t \in Thread : CanStep(t))
BY LocksInvariance, BusyMeansProgress, PTL
=============================================================================
