--------------------------- MODULE LiveBridgeProofs ---------------------------
(***************************************************************************)
(* Proofs about the joiner and the bridge behind it, for any stream and    *)
(* queue, any number of frames that may wait and of metadata and           *)
(* tombstones kept, any deadline and any number of times that metadata is  *)
(* sent again.                                                             *)
(***************************************************************************)
EXTENDS LiveBridge, FiniteSetTheorems, SequenceTheorems, TLAPS

FramesOf(s) == {s[i].frame : i \in DOMAIN s}

InOrder(s) == \A i, j \in DOMAIN s : i < j => s[i].frame < s[j].frame

OnceEach(s) == \A i, j \in DOMAIN s : s[i].frame = s[j].frame => i = j

(* A frame's PTS is its own if it is known.                                *)
OwnPts(s) == \A i \in DOMAIN s : s[i].pts \in {s[i].frame, NoPts}

KnownPts(s) == {s[i].pts : i \in DOMAIN s} \ {NoPts}

-----------------------------------------------------------------------------
(* Every decoded frame is either waiting, in its turn, or emitted, once.   *)
FramesKept ==
  /\ InOrder(pending) /\ OwnPts(pending)
  /\ OnceEach(emitted) /\ OwnPts(emitted)
  /\ decoded = FramesOf(emitted) \cup FramesOf(pending)
  /\ FramesOf(emitted) \cap FramesOf(pending) = {}
  /\ Cardinality(decoded) = Len(emitted) + Len(pending)

(* The frames that an emitted one has overtaken.                           *)
Overtaken(i) ==
  {f \in decoded : f < emitted[i].frame /\ \A k \in 1 .. i : emitted[k].frame # f}

FewOvertaken == \A i \in DOMAIN emitted : Cardinality(Overtaken(i)) <= MaxPending

(* The frames emitted without metadata that may be remembered.             *)
Lost ==
  {emitted[i].frame : i \in {k \in DOMAIN emitted : /\ emitted[k].source = NoSource
                                                    /\ emitted[k].pts # NoPts}}

Arrived == {n \in Frame : arrivals[n] > 0}

(* Of the lost frames the newest are in the tombstones' list, and in their *)
(* set until their metadata arrives.                                       *)
Remembered(tombs, lost, arrived) ==
  /\ tombs.order \in Seq(Frame)
  /\ Len(tombs.order) <= MaxSamples
  /\ \A i, j \in DOMAIN tombs.order : i < j => tombs.order[i] < tombs.order[j]
  /\ Range(tombs.order) \subseteq lost
  /\ tombs.set \subseteq Range(tombs.order)
  /\ Range(tombs.order) \ arrived \subseteq tombs.set
  /\ \A f \in lost \ Range(tombs.order) :
       /\ Len(tombs.order) = MaxSamples
       /\ \A i \in DOMAIN tombs.order : f < tombs.order[i]

LostRemembered == Remembered([set |-> expired, order |-> expiredOrder], Lost, Arrived)

LostPassed == \A f \in Lost, i \in DOMAIN pending : f < pending[i].frame

(* What is stored has arrived, is there once for each arrival, stays until *)
(* its frame is decoded, and is within reach of no waiting frame.          *)
StoredKept ==
  /\ Range(order) \subseteq Arrived
  /\ \A i, j \in DOMAIN order : order[i] = order[j] /\ i # j => arrivals[order[i]] > 1
  /\ \A n \in Range(order) :
       (\A f \in decoded : f < n) /\ arrivals[n] = 1 => n \in stored
  /\ \A i \in DOMAIN pending : Candidates(stored, pending[i].pts) = {}

(* What has been used came before its frame, is gone unless it came again, *)
(* and was not that of a frame that waits or was emitted without.          *)
UsedOnce ==
  /\ \A i \in DOMAIN emitted :
       emitted[i].source # NoSource =>
         /\ emitted[i].source <= emitted[i].frame
         /\ arrivals[emitted[i].source] > 0
         /\ arrivals[emitted[i].source] = 1 => emitted[i].source \notin stored
         /\ \A j \in DOMAIN pending :
              arrivals[emitted[i].source] = 1 => emitted[i].source # pending[j].pts
  /\ \A f \in Lost : arrivals[f] = 1 /\ f \in stored => f \notin Range(expiredOrder)

EarlyJoined ==
  /\ \A i \in DOMAIN pending : pending[i].pts # NoPts => pending[i].frame \notin early
  /\ EarlyMetadataJoined

JoinerInv ==
  /\ TypeOK /\ FramesKept /\ FewOvertaken
  /\ LostRemembered /\ LostPassed /\ StoredKept /\ UsedOnce /\ EarlyJoined

-----------------------------------------------------------------------------
(* A set of naturals that is not empty has a least member.                 *)
LEMMA LeastExists ==
  ASSUME NEW T \in SUBSET Nat, T # {}
  PROVE  \E m \in T : \A t \in T : m <= t
<1>1. IsWellFoundedOn(OpToRel(<, Nat), Nat)
  BY NatLessThanWellFounded
<1>2. PICK m \in T : \A t \in T : ~(<<t, m>> \in OpToRel(<, Nat))
  BY <1>1, WFMin
<1>3. ASSUME NEW t \in T
      PROVE  m <= t
  <2>1. <<t, m>> \notin {ss \in Nat \X Nat : ss[1] < ss[2]}
    BY <1>2 DEF OpToRel
  <2>2. ~(t < m)
    BY <2>1
  <2> QED  BY <2>2
<1> QED  BY <1>3

(* What lies j places after the first k of p places is still one of them.   *)
LEMMA Beyond ==
  ASSUME NEW p \in Nat, NEW k \in Nat, NEW r, r = p - k, NEW j \in 1 .. r
  PROVE  k + j \in 1 .. p /\ k + j > k
OBVIOUS

(* Induction over the numbers up to n: the least exception has a           *)
(* predecessor.                                                            *)
LEMMA UpTo ==
  ASSUME NEW n \in Nat, NEW S, 0 \in S,
         \A i \in 0 .. n : i < n /\ i \in S => i + 1 \in S
  PROVE  \A i \in 0 .. n : i \in S
<1> SUFFICES ASSUME {i \in 0 .. n : i \notin S} # {} PROVE FALSE
  OBVIOUS
<1> DEFINE T == {i \in 0 .. n : i \notin S}
<1>1. T \in SUBSET Nat /\ T # {}
  OBVIOUS
<1>2. PICK m \in T : \A t \in T : m <= t
  <2> HIDE DEF T
  <2> QED  BY <1>1, LeastExists
<1>3. m # 0 /\ m - 1 \in 0 .. n /\ m - 1 \notin T
  BY <1>2
<1> QED  BY <1>3

(* The two loops of the joiner are chains of their steps.                  *)
LEMMA TombstonesChain ==
  ASSUME NEW n \in Nat, NEW frames, Len(frames) = n
  PROVE  \E tombs :
           /\ tombs[0] = [set |-> expired, order |-> expiredOrder]
           /\ \A i \in 1 .. n : tombs[i] = Remember(tombs[i - 1], frames[i])
           /\ Tombstones(frames) = tombs[n]
<1> DEFINE base == [set |-> expired, order |-> expiredOrder]
           Val(f, i) == IF i = 0 THEN base ELSE Remember(f[i - 1], frames[i])
           IsChain(f, k) == f = [i \in 0 .. k |-> Val(f, i)]
           S == {k \in 0 .. n : \E f : IsChain(f, k)}
<1>1. 0 \in S
  <2>1. IsChain([i \in 0 .. 0 |-> base], 0)
    OBVIOUS
  <2>2. \E f : IsChain(f, 0)
    BY <2>1
  <2> QED  BY <2>2
<1>2. ASSUME NEW k \in 0 .. n, k < n, k \in S
      PROVE  k + 1 \in S
  <2>1. PICK f : IsChain(f, k)
    BY <1>2
  <2> DEFINE g == [i \in 0 .. (k + 1) |->
                     IF i <= k THEN f[i] ELSE Remember(f[k], frames[k + 1])]
  <2>2. \A i \in 0 .. k : f[i] = Val(f, i)
    BY <2>1
  <2>3. ASSUME NEW i \in 0 .. (k + 1)
        PROVE  g[i] = Val(g, i)
    <3>1. CASE i = 0
      BY <2>2, <3>1
    <3>2. CASE i \in 1 .. k
      <4>1. g[i] = f[i] /\ g[i - 1] = f[i - 1] /\ f[i] = Remember(f[i - 1], frames[i])
        BY <2>2, <3>2
      <4> QED  BY <3>2, <4>1
    <3>3. CASE i = k + 1
      <4>1. g[i] = Remember(f[k], frames[k + 1]) /\ g[i - 1] = f[k]
        BY <3>3
      <4> QED  BY <3>3, <4>1
    <3> QED  BY <3>1, <3>2, <3>3
  <2>4. IsChain(g, k + 1)
    BY <2>3
  <2>5. k + 1 \in 0 .. n
    BY <1>2
  <2> QED  BY <2>4, <2>5
<1>3. n \in S
  <2> HIDE DEF S
  <2>1. \A k \in 0 .. n : k < n /\ k \in S => k + 1 \in S
    BY <1>2
  <2>2. \A k \in 0 .. n : k \in S
    BY <1>1, <2>1, UpTo
  <2> QED  BY <2>2
<1> DEFINE tombs == CHOOSE f : IsChain(f, n)
<1>4. IsChain(tombs, n)
  BY <1>3
<1>5. Tombstones(frames) = tombs[n]
  BY DEF Tombstones
<1>6. \A i \in 0 .. n : tombs[i] = Val(tombs, i)
  BY <1>4
<1> QED
  <2> HIDE DEF tombs
  <2> QED  BY <1>5, <1>6

(* match_all folds one frame at a time: its value is the end of a chain.   *)
LEMMA MatchAllChain ==
  ASSUME NEW avail, NEW n \in Nat, NEW frames, Len(frames) = n
  PROVE  \E acc :
           /\ acc[0] = [avail |-> avail, ready |-> <<>>, remaining |-> <<>>]
           /\ \A i \in 1 .. n : acc[i] = MatchOne(acc[i - 1], frames[i])
           /\ MatchAll(avail, frames) = acc[n]
<1> DEFINE base == [avail |-> avail, ready |-> <<>>, remaining |-> <<>>]
           Val(f, i) == IF i = 0 THEN base ELSE MatchOne(f[i - 1], frames[i])
           IsChain(f, k) == f = [i \in 0 .. k |-> Val(f, i)]
           S == {k \in 0 .. n : \E f : IsChain(f, k)}
<1>1. 0 \in S
  <2>1. IsChain([i \in 0 .. 0 |-> base], 0)
    OBVIOUS
  <2>2. \E f : IsChain(f, 0)
    BY <2>1
  <2> QED  BY <2>2
<1>2. ASSUME NEW k \in 0 .. n, k < n, k \in S
      PROVE  k + 1 \in S
  <2>1. PICK f : IsChain(f, k)
    BY <1>2
  <2> DEFINE g == [i \in 0 .. (k + 1) |->
                     IF i <= k THEN f[i] ELSE MatchOne(f[k], frames[k + 1])]
  <2>2. \A i \in 0 .. k : f[i] = Val(f, i)
    BY <2>1
  <2>3. ASSUME NEW i \in 0 .. (k + 1)
        PROVE  g[i] = Val(g, i)
    <3>1. CASE i = 0
      BY <2>2, <3>1
    <3>2. CASE i \in 1 .. k
      <4>1. g[i] = f[i] /\ g[i - 1] = f[i - 1] /\ f[i] = MatchOne(f[i - 1], frames[i])
        BY <2>2, <3>2
      <4> QED  BY <3>2, <4>1
    <3>3. CASE i = k + 1
      <4>1. g[i] = MatchOne(f[k], frames[k + 1]) /\ g[i - 1] = f[k]
        BY <3>3
      <4> QED  BY <3>3, <4>1
    <3> QED  BY <3>1, <3>2, <3>3
  <2>4. IsChain(g, k + 1)
    BY <2>3
  <2>5. k + 1 \in 0 .. n
    BY <1>2
  <2> QED  BY <2>4, <2>5
<1>3. n \in S
  <2> HIDE DEF S
  <2>1. \A k \in 0 .. n : k < n /\ k \in S => k + 1 \in S
    BY <1>2
  <2>2. \A k \in 0 .. n : k \in S
    BY <1>1, <2>1, UpTo
  <2> QED  BY <2>2
<1> DEFINE acc == CHOOSE f : IsChain(f, n)
<1>4. IsChain(acc, n)
  BY <1>3
<1>5. MatchAll(avail, frames) = acc[n]
  BY DEF MatchAll
<1>6. \A i \in 0 .. n : acc[i] = Val(acc, i)
  BY <1>4
<1> QED
  <2> HIDE DEF acc
  <2> QED  BY <1>5, <1>6

-----------------------------------------------------------------------------
(* One more lost frame: the oldest tombstone makes room for it.            *)
LEMMA RememberStep ==
  ASSUME NEW tombs, NEW lost \in SUBSET Frame, NEW arrived, NEW d,
         Remembered(tombs, lost, arrived),
         d.pts \in Frame \cup {NoPts},
         d.pts # NoPts => \A f \in lost : f < d.pts
  PROVE  /\ Remembered(Remember(tombs, d), lost \cup ({d.pts} \ {NoPts}), arrived)
         /\ Range(Remember(tombs, d).order) \subseteq Range(tombs.order) \cup ({d.pts} \ {NoPts})
<1> USE JoinerAssumption
<1>1. CASE d.pts = NoPts
  BY <1>1 DEF Remember
<1>2. CASE d.pts # NoPts
  <2> DEFINE p == d.pts
             old == tombs.order
             m == Len(tombs.order)
             grown == Append(old, p)
             more == lost \cup {p}
  <2>1. p \in Frame /\ p \in Nat /\ \A f \in lost : f \in Nat /\ f < p
    BY <1>2 DEF Frame
  <2>2. /\ old \in Seq(Frame) /\ m \in Nat /\ m <= MaxSamples
        /\ DOMAIN old = 1 .. m
        /\ \A i \in 1 .. m : old[i] \in lost
        /\ \A i, j \in 1 .. m : i < j => old[i] < old[j]
    BY LenProperties DEF Remembered, Range
  <2>3. /\ grown \in Seq(Frame) /\ Len(grown) = m + 1
        /\ \A i \in 1 .. m : grown[i] = old[i]
        /\ grown[m + 1] = p
    BY <2>1, <2>2
  <2>4. \A i, j \in 1 .. Len(grown) : i < j => grown[i] < grown[j]
    <3> SUFFICES ASSUME NEW i \in 1 .. Len(grown), NEW j \in 1 .. Len(grown), i < j
                 PROVE  grown[i] < grown[j]
      OBVIOUS
    <3> HIDE DEF grown, m
    <3>1. i \in 1 .. m /\ j \in 1 .. (m + 1) /\ grown[i] = old[i] /\ old[i] \in lost
      BY <2>2, <2>3
    <3>2. CASE j = m + 1
      BY <2>1, <2>3, <3>1, <3>2
    <3>3. CASE j \in 1 .. m
      BY <2>2, <2>3, <3>1, <3>3
    <3>4. j \in 1 .. m \/ j = m + 1
      BY <2>2, <3>1
    <3> QED  BY <3>2, <3>3, <3>4
  <2>5. lost \cup ({d.pts} \ {NoPts}) = more
    BY <1>2
  <2>6. /\ tombs.set \subseteq Range(old)
        /\ Range(old) \ arrived \subseteq tombs.set
        /\ Range(old) \subseteq lost
        /\ \A f \in lost \ Range(old) :
             m = MaxSamples /\ \A i \in 1 .. m : f < old[i]
    BY <2>2 DEF Remembered
  <2>7. Range(old) = {old[i] : i \in 1 .. m}
    BY <2>2 DEF Range
  <2> HIDE DEF grown, m
  <2>8. CASE Len(grown) > MaxSamples
    <3> DEFINE new == Tail(grown)
               set == (tombs.set \cup {p}) \ {Head(grown)}
    <3>1. Remember(tombs, d) = [set |-> set, order |-> new]
      BY <1>2, <2>8 DEF Remember, grown
    <3>2. m = MaxSamples /\ m >= 1
      BY <2>2, <2>3, <2>8
    <3>3. /\ new \in Seq(Frame) /\ Len(new) = m
          /\ DOMAIN new = 1 .. Len(new)
          /\ \A i \in 1 .. Len(new) : new[i] = grown[i + 1]
          /\ Head(grown) = grown[1]
      <4>1. grown # <<>>
        BY <2>2, <2>3
      <4> QED  BY <2>2, <2>3, <4>1, HeadTailProperties, LenProperties
    <3> HIDE DEF new
    <3>4. ASSUME NEW i \in 1 .. Len(new), NEW j \in 1 .. Len(new), i < j
          PROVE  new[i] < new[j]
      <4>1. i + 1 \in 1 .. Len(grown) /\ j + 1 \in 1 .. Len(grown) /\ i + 1 < j + 1
        <5>1. Len(new) = m /\ Len(grown) = m + 1 /\ m \in Nat /\ i \in Nat /\ j \in Nat
          BY <2>2, <2>3, <3>3
        <5> QED  BY <3>4, <5>1
      <4>2. grown[i + 1] < grown[j + 1]
        BY <2>4, <4>1
      <4> QED  BY <3>3, <4>2
    <3>5. Head(grown) = old[1] /\ old[1] \in Nat
      <4>1. 1 \in 1 .. m
        BY <2>2, <3>2
      <4>2. old[1] \in lost /\ grown[1] = old[1]
        BY <2>2, <2>3, <4>1
      <4> QED  BY <2>1, <3>3, <4>2
    <3>6. \A i \in 1 .. Len(new) : old[1] < new[i]
      <4> SUFFICES ASSUME NEW i \in 1 .. Len(new) PROVE old[1] < new[i]
        OBVIOUS
      <4>1. /\ 1 \in 1 .. m /\ 1 \in 1 .. Len(grown) /\ i + 1 \in 1 .. Len(grown)
            /\ 1 < i + 1
        BY <2>2, <2>3, <3>2, <3>3
      <4>2. grown[1] < grown[i + 1] /\ grown[1] = old[1] /\ new[i] = grown[i + 1]
        BY <2>3, <2>4, <3>3, <4>1
      <4> QED  BY <4>2
    <3>7. Range(new) = {new[i] : i \in 1 .. Len(new)}
      BY <3>3 DEF Range
    <3>8. \A i \in 1 .. Len(new) : new[i] = IF i = m THEN p ELSE old[i + 1]
      <4> SUFFICES ASSUME NEW i \in 1 .. Len(new)
                   PROVE  new[i] = IF i = m THEN p ELSE old[i + 1]
        OBVIOUS
      <4>1. new[i] = grown[i + 1] /\ (i # m => i + 1 \in 1 .. m)
        BY <2>2, <3>3
      <4> QED  BY <2>3, <4>1
    <3>9. p \in Range(new) /\ p # old[1]
      <4>1. m \in 1 .. Len(new) /\ 1 \in 1 .. m
        BY <2>2, <3>2, <3>3
      <4>2. new[m] = p /\ old[1] \in lost
        BY <2>2, <3>8, <4>1
      <4> QED  BY <2>1, <3>7, <4>1, <4>2
    <3>10. \A f \in Range(old) : f = old[1] \/ f \in Range(new)
      <4> SUFFICES ASSUME NEW i \in 1 .. m, i # 1
                   PROVE  old[i] \in Range(new)
        BY <2>7
      <4>1. i - 1 \in 1 .. Len(new) /\ i - 1 # m /\ (i - 1) + 1 = i
        BY <2>2, <3>3
      <4>2. new[i - 1] = old[i]
        BY <3>8, <4>1
      <4> QED  BY <3>7, <4>1, <4>2
    <3>11. \A f \in Range(new) : f = p \/ f \in Range(old)
      <4> SUFFICES ASSUME NEW i \in 1 .. Len(new), new[i] # p
                   PROVE  new[i] \in Range(old)
        BY <3>7
      <4>1. new[i] = old[i + 1] /\ i # m
        BY <3>8
      <4>2. i + 1 \in 1 .. m
        BY <2>2, <3>3, <4>1
      <4> QED  BY <2>7, <4>1, <4>2
    <3>12. old[1] \notin Range(new)
      BY <3>5, <3>6, <3>7
    <3>13. Range(new) \subseteq more
      BY <2>6, <3>11
    <3>14. set \subseteq Range(new)
      BY <2>6, <3>5, <3>9, <3>10
    <3>15. Range(new) \ arrived \subseteq set
      BY <2>6, <3>5, <3>9, <3>11, <3>12
    <3>16. ASSUME NEW f \in more \ Range(new), NEW i \in 1 .. Len(new)
           PROVE  f < new[i]
      <4>1. f \in lost /\ f \in Nat
        BY <2>1, <3>9
      <4>2. CASE f \in Range(old)
        BY <3>6, <3>10, <4>2
      <4>3. CASE f \notin Range(old)
        <5>1. f < p /\ \A k \in 1 .. m : f < old[k]
          BY <2>1, <2>6, <4>1, <4>3
        <5>2. i # m => i + 1 \in 1 .. m
          BY <2>2, <3>3
        <5>3. i # m => f < old[i + 1]
          BY <5>1, <5>2
        <5> QED  BY <3>8, <5>1, <5>3
      <4> QED  BY <4>2, <4>3
    <3>17. Remembered([set |-> set, order |-> new], more, arrived)
      <4> HIDE DEF set, more
      <4> QED  BY <3>2, <3>3, <3>4, <3>13, <3>14, <3>15, <3>16 DEF Remembered
    <3>18. Remember(tombs, d).order = new
      <4> HIDE DEF set
      <4> QED  BY <3>1
    <3>19. Range(Remember(tombs, d).order) \subseteq Range(old) \cup {p}
      BY <3>11, <3>18
    <3> QED  BY <1>2, <2>5, <3>1, <3>17, <3>19
  <2>9. CASE ~ (Len(grown) > MaxSamples)
    <3> DEFINE set == (tombs.set \cup {p}) \ {}
    <3>1. Remember(tombs, d) = [set |-> set, order |-> grown]
      BY <1>2, <2>9 DEF Remember, grown
    <3>2. DOMAIN grown = 1 .. Len(grown)
      BY <2>3, LenProperties
    <3>3. Range(grown) = Range(old) \cup {p}
      <4>1. Range(grown) = {grown[i] : i \in 1 .. (m + 1)}
        BY <2>3, <3>2 DEF Range
      <4>2. \A i \in 1 .. (m + 1) : i \in 1 .. m \/ i = m + 1
        BY <2>2
      <4>3. 1 .. m \subseteq 1 .. (m + 1) /\ m + 1 \in 1 .. (m + 1)
        BY <2>2
      <4>4. Range(grown) \subseteq Range(old) \cup {p}
        BY <2>3, <2>7, <4>1, <4>2
      <4>5. Range(old) \cup {p} \subseteq Range(grown)
        BY <2>3, <2>7, <4>1, <4>3
      <4> QED  BY <4>4, <4>5
    <3>4. lost \subseteq Range(old)
      BY <2>2, <2>3, <2>6, <2>9
    <3>5. Len(grown) <= MaxSamples
      BY <2>2, <2>3, <2>9
    <3>6. /\ Range(grown) \subseteq more /\ set \subseteq Range(grown)
          /\ Range(grown) \ arrived \subseteq set
          /\ more \ Range(grown) = {}
      BY <2>6, <3>3, <3>4
    <3>7. Remembered([set |-> set, order |-> grown], more, arrived)
      <4> HIDE DEF set, more
      <4> QED  BY <2>3, <2>4, <3>2, <3>5, <3>6 DEF Remembered
    <3>8. Remember(tombs, d).order = grown
      <4> HIDE DEF set
      <4> QED  BY <3>1
    <3>9. Range(Remember(tombs, d).order) \subseteq Range(old) \cup {p}
      BY <3>3, <3>8
    <3> QED  BY <1>2, <2>5, <3>1, <3>7, <3>9
  <2> QED  BY <2>8, <2>9
<1> QED  BY <1>1, <1>2

(* All that leave together without metadata are remembered.                *)
LEMMA TombstonesRemember ==
  ASSUME NEW lost \in SUBSET Frame, NEW arrived, NEW frames \in Seq(Pending),
         Remembered([set |-> expired, order |-> expiredOrder], lost, arrived),
         InOrder(frames), OwnPts(frames),
         \A f \in lost, i \in DOMAIN frames : f < frames[i].frame
  PROVE  /\ Remembered(Tombstones(frames), lost \cup KnownPts(frames), arrived)
         /\ Range(Tombstones(frames).order) \subseteq Range(expiredOrder) \cup KnownPts(frames)
<1> DEFINE n == Len(frames)
           Known(i) == {frames[k].pts : k \in 1 .. i} \ {NoPts}
<1>1. n \in Nat /\ DOMAIN frames = 1 .. n
  BY LenProperties
<1>2. PICK tombs :
        /\ tombs[0] = [set |-> expired, order |-> expiredOrder]
        /\ \A i \in 1 .. n : tombs[i] = Remember(tombs[i - 1], frames[i])
        /\ Tombstones(frames) = tombs[n]
  BY <1>1, TombstonesChain
<1>3. \A i \in 1 .. n : frames[i] \in Pending
  BY ElementOfSeq
<1> DEFINE S == {i \in 0 .. n :
                   /\ Remembered(tombs[i], lost \cup Known(i), arrived)
                   /\ Range(tombs[i].order) \subseteq Range(expiredOrder) \cup Known(i)}
<1>4. 0 \in S
  <2>1. Known(0) = {}
    OBVIOUS
  <2>2. lost \cup Known(0) = lost
    BY <2>1
  <2>3. 0 \in 0 .. n
    BY <1>1
  <2>4. tombs[0].order = expiredOrder
    BY <1>2
  <2> HIDE DEF Known, n
  <2> QED  BY <1>2, <2>2, <2>3, <2>4
<1>5. ASSUME NEW i \in 0 .. n, i < n, i \in S
      PROVE  i + 1 \in S
  <2> DEFINE d == frames[i + 1]
             before == lost \cup Known(i)
  <2>1. i + 1 \in 1 .. n /\ i + 1 \in 0 .. n
    BY <1>1, <1>5
  <2>2. d.frame \in Frame /\ d.pts \in Frame \cup {NoPts} /\ d.pts \in {d.frame, NoPts}
    BY <1>1, <1>3, <2>1 DEF Pending, OwnPts
  <2>3. \A k \in 1 .. i : /\ frames[k].pts \in Frame \cup {NoPts}
                          /\ frames[k].pts \in {frames[k].frame, NoPts}
                          /\ frames[k].frame < d.frame
    <3>1. \A k \in 1 .. i : k \in 1 .. n /\ k < i + 1
      BY <1>1, <2>1
    <3> QED  BY <1>1, <1>3, <2>1, <3>1 DEF Pending, OwnPts, InOrder
  <2>4. before \in SUBSET Frame
    BY <2>3
  <2>5. d.pts # NoPts => \A f \in before : f < d.pts
    BY <1>1, <2>1, <2>2, <2>3
  <2>6. /\ Remembered(tombs[i], before, arrived)
        /\ Range(tombs[i].order) \subseteq Range(expiredOrder) \cup Known(i)
    BY <1>5
  <2>7. /\ Remembered(Remember(tombs[i], d), before \cup ({d.pts} \ {NoPts}), arrived)
        /\ Range(Remember(tombs[i], d).order)
             \subseteq Range(tombs[i].order) \cup ({d.pts} \ {NoPts})
    <3> HIDE DEF before, d
    <3> QED  BY <2>2, <2>4, <2>5, <2>6, RememberStep
  <2>8. tombs[i + 1] = Remember(tombs[i], d)
    BY <1>2, <2>1
  <2>9. /\ lost \cup Known(i + 1) = before \cup ({d.pts} \ {NoPts})
        /\ Known(i + 1) = Known(i) \cup ({d.pts} \ {NoPts})
    <3>1. \A k \in 1 .. (i + 1) : k = i + 1 \/ k \in 1 .. i
      BY <1>1
    <3>2. 1 .. i \subseteq 1 .. (i + 1) /\ i + 1 \in 1 .. (i + 1)
      BY <1>1
    <3> QED  BY <3>1, <3>2
  <2>10. Range(Remember(tombs[i], d).order) \subseteq Range(expiredOrder) \cup Known(i + 1)
    BY <2>6, <2>7, <2>9
  <2> HIDE DEF before, d, Known
  <2> QED  BY <2>1, <2>7, <2>8, <2>9, <2>10
<1>6. n \in S
  <2> HIDE DEF S, n
  <2> QED  BY <1>1, <1>4, <1>5, UpTo
<1>7. Known(n) = KnownPts(frames)
  BY <1>1 DEF KnownPts
<1> QED  BY <1>2, <1>6, <1>7

-----------------------------------------------------------------------------
(* A bounded set has a greatest member: its distance to the bound is least.*)
LEMMA GreatestExists ==
  ASSUME NEW n \in Nat, NEW T \in SUBSET (0 .. n), T # {}
  PROVE  \E m \in T : \A t \in T : t <= m
<1> DEFINE D == {n - t : t \in T}
<1>1. D \in SUBSET Nat
  OBVIOUS
<1>2. D # {}
  OBVIOUS
<1>3. PICK x \in D : \A y \in D : x <= y
  <2> HIDE DEF D
  <2> QED  BY <1>1, <1>2, LeastExists
<1>4. PICK m \in T : x = n - m
  OBVIOUS
<1>5. \A t \in T : t <= m
  <2> SUFFICES ASSUME NEW t \in T PROVE t <= m
    OBVIOUS
  <2>1. n - m <= n - t
    BY <1>3, <1>4
  <2> QED  BY <2>1
<1> QED  BY <1>5

(* What a frame is given is in reach, and its own if that is there.        *)
LEMMA MatchIs ==
  ASSUME NEW avail \in SUBSET Frame, NEW pts \in Frame \cup {NoPts}
  PROVE  \/ Match(avail, pts) = NoSource /\ Candidates(avail, pts) = {}
         \/ /\ Match(avail, pts) \in Candidates(avail, pts)
            /\ Match(avail, pts) # NoSource
            /\ pts \in avail => Match(avail, pts) = pts
<1> DEFINE C == Candidates(avail, pts)
<1>0. /\ MaxFrame \in Nat /\ MaxDelta \in Nat
      /\ Frame \subseteq 0 .. MaxFrame /\ Frame \subseteq Int
      /\ NoPts \notin Int /\ NoSource \notin Int
  BY JoinerAssumption DEF Frame
<1>1. CASE C = {}
  BY <1>1 DEF Match
<1>2. CASE C # {}
  <2>1. C \in SUBSET (0 .. MaxFrame) /\ pts # NoPts
    BY <1>0, <1>2 DEF Candidates
  <2>2. C \subseteq Frame /\ NoSource \notin Frame
    BY <1>0 DEF Candidates
  <2>3. CASE pts \in avail
    <3>1. pts \in C
      BY <1>0, <2>1, <2>3 DEF Candidates
    <3>2. Match(avail, pts) = pts
      BY <1>2, <2>3 DEF Match
    <3> QED  BY <2>2, <3>1, <3>2
  <2>4. CASE pts \notin avail
    <3>1. Match(avail, pts) = Max(C)
      BY <1>2, <2>4 DEF Match
    <3> HIDE DEF C
    <3>2. \E m \in C : \A t \in C : t <= m
      BY <1>0, <1>2, <2>1, GreatestExists
    <3>3. \E m \in C : \A t \in C : m >= t
      BY <2>1, <3>2
    <3>4. Max(C) \in C
      BY <3>3 DEF Max
    <3> QED  BY <2>2, <2>4, <3>1, <3>4 DEF C
  <2> QED  BY <2>3, <2>4
<1> QED  BY <1>1, <1>2

(* The frames of two joined sequences are those of both, each once when    *)
(* they share none.                                                        *)
LEMMA ConcatFrames ==
  ASSUME NEW S, NEW u \in Seq(S), NEW v \in Seq(S)
  PROVE  /\ FramesOf(u \o v) = FramesOf(u) \cup FramesOf(v)
         /\ OwnPts(u) /\ OwnPts(v) => OwnPts(u \o v)
         /\ OnceEach(u) /\ OnceEach(v) /\ FramesOf(u) \cap FramesOf(v) = {}
              => OnceEach(u \o v)
<1> DEFINE w == u \o v
           m == Len(u)
           n == Len(v)
<1>1. /\ m \in Nat /\ n \in Nat /\ DOMAIN u = 1 .. m /\ DOMAIN v = 1 .. n
  BY LenProperties
<1>2. /\ w \in Seq(S) /\ Len(w) = m + n
      /\ \A i \in 1 .. (m + n) : w[i] = IF i <= m THEN u[i] ELSE v[i - m]
  BY ConcatProperties
<1>3. DOMAIN w = 1 .. (m + n)
  BY <1>2, LenProperties
<1> HIDE DEF w, m, n
<1>4. ASSUME NEW i \in DOMAIN w
      PROVE  \/ i \in DOMAIN u /\ w[i] = u[i]
             \/ i - m \in DOMAIN v /\ w[i] = v[i - m] /\ i \in Nat
  BY <1>1, <1>2, <1>3
<1>5. \A i \in DOMAIN u : i \in DOMAIN w /\ w[i] = u[i]
  BY <1>1, <1>2, <1>3
<1>6. ASSUME NEW i \in DOMAIN v
      PROVE  m + i \in DOMAIN w /\ w[m + i] = v[i]
  <2>1. m + i \in 1 .. (m + n) /\ ~(m + i <= m) /\ (m + i) - m = i
    BY <1>1
  <2>2. w[m + i] = v[(m + i) - m]
    BY <1>2, <2>1
  <2> QED  BY <1>3, <2>1, <2>2
<1>7. FramesOf(w) \subseteq FramesOf(u) \cup FramesOf(v)
  BY <1>4 DEF FramesOf
<1>8. FramesOf(u) \subseteq FramesOf(w)
  BY <1>5 DEF FramesOf
<1>9. FramesOf(v) \subseteq FramesOf(w)
  BY <1>6 DEF FramesOf
<1>10. OwnPts(u) /\ OwnPts(v) => OwnPts(w)
  BY <1>4 DEF OwnPts
<1>11. ASSUME OnceEach(u), OnceEach(v), FramesOf(u) \cap FramesOf(v) = {},
              NEW i \in DOMAIN w, NEW j \in DOMAIN w, w[i].frame = w[j].frame
       PROVE  i = j
  <2>1. \A k \in DOMAIN u : u[k].frame \in FramesOf(u)
    BY DEF FramesOf
  <2>2. \A k \in DOMAIN v : v[k].frame \in FramesOf(v)
    BY DEF FramesOf
  <2>3. CASE i \in DOMAIN u /\ w[i] = u[i]
    <3>1. j \in DOMAIN u /\ w[j] = u[j]
      BY <1>4, <1>11, <2>1, <2>2, <2>3
    <3> QED  BY <1>11, <2>3, <3>1 DEF OnceEach
  <2>4. CASE i - m \in DOMAIN v /\ w[i] = v[i - m] /\ i \in Nat
    <3>1. j - m \in DOMAIN v /\ w[j] = v[j - m] /\ j \in Nat
      BY <1>4, <1>11, <2>1, <2>2, <2>4
    <3>2. i - m = j - m
      BY <1>11, <2>4, <3>1 DEF OnceEach
    <3> QED  BY <1>1, <2>4, <3>1, <3>2
  <2> QED  BY <1>4, <2>3, <2>4
<1>12. OnceEach(u) /\ OnceEach(v) /\ FramesOf(u) \cap FramesOf(v) = {} => OnceEach(w)
  BY <1>11 DEF OnceEach
<1> QED  BY <1>7, <1>8, <1>9, <1>10, <1>12 DEF w

(* What an appended frame adds, and what it keeps.                         *)
LEMMA AppendFrames ==
  ASSUME NEW S, NEW s \in Seq(S), NEW d \in S
  PROVE  /\ Append(s, d) \in Seq(S) /\ Len(Append(s, d)) = Len(s) + 1
         /\ FramesOf(Append(s, d)) = FramesOf(s) \cup {d.frame}
         /\ OwnPts(s) /\ d.pts \in {d.frame, NoPts} => OwnPts(Append(s, d))
         /\ OnceEach(s) /\ d.frame \notin FramesOf(s) => OnceEach(Append(s, d))
         /\ InOrder(s) /\ (\A f \in FramesOf(s) : f < d.frame) => InOrder(Append(s, d))
<1> DEFINE w == Append(s, d)
           n == Len(s)
<1>1. n \in Nat /\ DOMAIN s = 1 .. n
  BY LenProperties
<1>2. /\ w \in Seq(S) /\ Len(w) = n + 1
      /\ \A i \in 1 .. n : w[i] = s[i]
      /\ w[n + 1] = d
  BY <1>1
<1>3. DOMAIN w = 1 .. (n + 1)
  BY <1>2, LenProperties
<1> HIDE DEF w, n
<1>4. ASSUME NEW i \in DOMAIN w
      PROVE  \/ i \in DOMAIN s /\ w[i] = s[i]
             \/ i = n + 1 /\ w[i] = d
  <2>1. i \in 1 .. n \/ i = n + 1
    BY <1>1, <1>3
  <2> QED  BY <1>1, <1>2, <2>1
<1>5. \A i \in DOMAIN s : i \in DOMAIN w /\ w[i] = s[i] /\ i < n + 1
  BY <1>1, <1>2, <1>3
<1>6. n + 1 \in DOMAIN w /\ w[n + 1] = d
  BY <1>1, <1>2, <1>3
<1>7. FramesOf(w) = FramesOf(s) \cup {d.frame}
  <2>1. FramesOf(w) \subseteq FramesOf(s) \cup {d.frame}
    BY <1>4 DEF FramesOf
  <2>2. FramesOf(s) \subseteq FramesOf(w)
    BY <1>5 DEF FramesOf
  <2>3. d.frame \in FramesOf(w)
    BY <1>6 DEF FramesOf
  <2> QED  BY <2>1, <2>2, <2>3
<1>8. \A i \in DOMAIN s : s[i].frame \in FramesOf(s)
  BY DEF FramesOf
<1>9. OwnPts(s) /\ d.pts \in {d.frame, NoPts} => OwnPts(w)
  BY <1>4 DEF OwnPts
<1>10. OnceEach(s) /\ d.frame \notin FramesOf(s) => OnceEach(w)
  BY <1>4, <1>8 DEF OnceEach
<1>11. ASSUME InOrder(s), \A f \in FramesOf(s) : f < d.frame
       PROVE  InOrder(w)
  <2> SUFFICES ASSUME NEW i \in DOMAIN w, NEW j \in DOMAIN w, i < j
               PROVE  w[i].frame < w[j].frame
    BY DEF InOrder
  <2>1. i \in DOMAIN s /\ w[i] = s[i]
    <3>1. i # n + 1
      BY <1>1, <1>3
    <3> QED  BY <1>4, <3>1
  <2>2. CASE j \in DOMAIN s /\ w[j] = s[j]
    BY <1>11, <2>1, <2>2 DEF InOrder
  <2>3. CASE w[j] = d
    BY <1>8, <1>11, <2>1, <2>3
  <2> QED  BY <1>4, <2>2, <2>3
<1> QED  BY <1>2, <1>7, <1>9, <1>10, <1>11 DEF w, n

(* How a call divides the frames that waited: new leaves, rest waits on.   *)
Splits(frames, count, new, rest) ==
  /\ new \in Seq(Captured) /\ rest \in Seq(Pending)
  /\ FramesOf(new) \cup FramesOf(rest) = frames
  /\ FramesOf(new) \cap FramesOf(rest) = {}
  /\ OnceEach(new) /\ InOrder(rest)
  /\ OwnPts(new) /\ OwnPts(rest)
  /\ Len(new) + Len(rest) = count

(* Dividing what waits a second time divides the frames of the first.      *)
LEMMA SplitsAgain ==
  ASSUME NEW frames, NEW count, NEW u, NEW s, NEW v, NEW t,
         Splits(frames, count, u, s),
         Splits(FramesOf(s), Len(s), v, t)
  PROVE  Splits(frames, count, u \o v, t)
<1>1. u \in Seq(Captured) /\ v \in Seq(Captured)
  BY DEF Splits
<1>2. FramesOf(u) \cap FramesOf(v) = {}
  BY DEF Splits
<1>3. /\ FramesOf(u \o v) = FramesOf(u) \cup FramesOf(v)
      /\ OwnPts(u \o v) /\ OnceEach(u \o v)
  BY <1>1, <1>2, ConcatFrames DEF Splits
<1>4. u \o v \in Seq(Captured) /\ Len(u \o v) = Len(u) + Len(v)
  BY <1>1, ConcatProperties
<1>5. Len(u) \in Nat /\ Len(v) \in Nat /\ Len(s) \in Nat /\ Len(t) \in Nat
  BY <1>1, LenProperties DEF Splits
<1>6. Len(u) + Len(s) = count /\ Len(v) + Len(t) = Len(s)
  BY DEF Splits
<1>7. Len(u \o v) + Len(t) = count
  BY <1>4, <1>5, <1>6
<1>8. (FramesOf(u) \cup FramesOf(v)) \cup FramesOf(t) = frames
  BY DEF Splits
<1>9. (FramesOf(u) \cup FramesOf(v)) \cap FramesOf(t) = {}
  BY DEF Splits
<1>10. t \in Seq(Pending) /\ InOrder(t) /\ OwnPts(t)
  BY DEF Splits
<1> QED  BY <1>3, <1>4, <1>7, <1>8, <1>9, <1>10 DEF Splits

(* The head of a queue of frames leaves it without metadata.               *)
LEMMA PrefixSplits ==
  ASSUME NEW s \in Seq(Pending), InOrder(s), OwnPts(s), NEW k \in 0 .. Len(s)
  PROVE  LET u == SubSeq(s, 1, k)
             v == SubSeq(s, k + 1, Len(s))
         IN /\ Splits(FramesOf(s), Len(s), Unmatched(u), v)
            /\ u \in Seq(Pending) /\ InOrder(u) /\ OwnPts(u)
            /\ Len(u) = k /\ Len(v) = Len(s) - k
            /\ \A i \in 1 .. k : u[i] = s[i]
            /\ \A i \in 1 .. Len(v) : v[i] = s[k + i]
            /\ \A f \in FramesOf(u), g \in FramesOf(v) : f < g
            /\ FramesOf(u) \subseteq FramesOf(s)
<1> DEFINE n == Len(s)
           u == SubSeq(s, 1, k)
           v == SubSeq(s, k + 1, n)
           new == Unmatched(u)
<1>1. n \in Nat /\ DOMAIN s = 1 .. n /\ k \in Nat /\ k <= n
  BY LenProperties
<1>2. \A i \in 1 .. n : /\ s[i] \in Pending /\ s[i].frame \in Frame
                        /\ s[i].pts \in {s[i].frame, NoPts}
                        /\ s[i].pts \in Frame \cup {NoPts}
  <2>1. \A i \in 1 .. n : s[i] \in Pending
    BY ElementOfSeq
  <2> HIDE DEF n
  <2> QED  BY <1>1, <2>1 DEF OwnPts, Pending
<1>3. u \in Seq(Pending) /\ Len(u) = k /\ \A i \in 1 .. k : u[i] = s[i]
  <2>1. \A i \in 1 .. k : s[i] \in Pending
    BY <1>1, <1>2
  <2>2. /\ u \in Seq(Pending)
        /\ Len(u) = IF 1 <= k THEN k - 1 + 1 ELSE 0
        /\ \A i \in 1 .. (k - 1 + 1) : u[i] = s[1 + i - 1]
    BY <1>1, <2>1, SubSeqProperties
  <2> HIDE DEF u
  <2> QED  BY <1>1, <2>2
<1>4. v \in Seq(Pending) /\ Len(v) = n - k /\ \A i \in 1 .. (n - k) : v[i] = s[k + i]
  <2>1. \A i \in (k + 1) .. n : s[i] \in Pending
    BY <1>1, <1>2
  <2>2. /\ v \in Seq(Pending)
        /\ Len(v) = IF k + 1 <= n THEN n - (k + 1) + 1 ELSE 0
        /\ \A i \in 1 .. (n - (k + 1) + 1) : v[i] = s[k + 1 + i - 1]
    BY <1>1, <2>1, SubSeqProperties
  <2>3. n - (k + 1) + 1 = n - k /\ \A i \in 1 .. (n - k) : k + 1 + i - 1 = k + i
    BY <1>1
  <2> HIDE DEF v, n
  <2>4. n - k # 0 => k + 1 <= n
    BY <1>1
  <2> QED  BY <1>1, <2>2, <2>3, <2>4
<1>5. DOMAIN u = 1 .. k /\ DOMAIN v = 1 .. (n - k)
  BY <1>3, <1>4, LenProperties
<1> HIDE DEF u, v, n
<1>6. \A i \in DOMAIN u : i \in DOMAIN s /\ u[i] = s[i] /\ i <= k
  BY <1>1, <1>3, <1>5
<1>7. \A i \in DOMAIN v : k + i \in DOMAIN s /\ v[i] = s[k + i] /\ k + i > k
  BY <1>1, <1>4, <1>5
<1>8. InOrder(u) /\ OwnPts(u)
  BY <1>6 DEF InOrder, OwnPts
<1>9. InOrder(v) /\ OwnPts(v)
  <2>1. OwnPts(v)
    BY <1>7 DEF OwnPts
  <2>2. ASSUME NEW i \in DOMAIN v, NEW j \in DOMAIN v, i < j
        PROVE  v[i].frame < v[j].frame
    <3>1. k + i < k + j
      BY <1>1, <1>5, <2>2
    <3> QED  BY <1>7, <3>1 DEF InOrder
  <2> QED  BY <2>1, <2>2 DEF InOrder
<1>10. ASSUME NEW f \in FramesOf(u), NEW g \in FramesOf(v)
       PROVE  f < g
  <2>1. PICK i \in DOMAIN u : f = u[i].frame
    BY DEF FramesOf
  <2>2. PICK j \in DOMAIN v : g = v[j].frame
    BY DEF FramesOf
  <2>3. i < k + j
    BY <1>1, <1>5, <1>6, <1>7
  <2> QED  BY <1>6, <1>7, <2>1, <2>2, <2>3 DEF InOrder
<1>11. FramesOf(u) \cup FramesOf(v) = FramesOf(s)
  <2>1. FramesOf(u) \subseteq FramesOf(s)
    BY <1>6 DEF FramesOf
  <2>2. FramesOf(v) \subseteq FramesOf(s)
    BY <1>7 DEF FramesOf
  <2>3. ASSUME NEW i \in DOMAIN s
        PROVE  s[i].frame \in FramesOf(u) \cup FramesOf(v)
    <3>1. CASE i <= k
      <4>1. i \in DOMAIN u /\ u[i] = s[i]
        BY <1>1, <1>3, <1>5, <3>1
      <4> QED  BY <4>1 DEF FramesOf
    <3>2. CASE i > k
      <4>1. i - k \in DOMAIN v /\ k + (i - k) = i
        BY <1>1, <1>5, <3>2
      <4>2. v[i - k] = s[i]
        BY <1>7, <4>1
      <4> QED  BY <4>1, <4>2 DEF FramesOf
    <3> QED  BY <1>1, <3>1, <3>2
  <2> QED  BY <2>1, <2>2, <2>3 DEF FramesOf
<1>12. /\ DOMAIN new = DOMAIN u
       /\ \A i \in DOMAIN u : new[i].frame = u[i].frame /\ new[i].pts = u[i].pts
  BY DEF Unmatched, Build
<1>13. new \in Seq(Captured) /\ Len(new) = k
  <2>1. \A i \in 1 .. k : Build(u[i], NoSource) \in Captured
    BY <1>1, <1>2, <1>6, <1>5 DEF Build, Captured
  <2>2. new = [i \in 1 .. k |-> Build(u[i], NoSource)]
    BY <1>5 DEF Unmatched
  <2>3. new \in [1 .. k -> Captured]
    BY <2>1, <2>2
  <2> QED  BY <1>1, <2>3
<1>14. FramesOf(new) = FramesOf(u) /\ OwnPts(new)
  BY <1>8, <1>12 DEF FramesOf, OwnPts
<1>15. OnceEach(new)
  <2> SUFFICES ASSUME NEW i \in DOMAIN u, NEW j \in DOMAIN u, u[i].frame = u[j].frame
               PROVE  i = j
    BY <1>12 DEF OnceEach
  <2>1. u[i].frame \in Nat /\ i \in Nat /\ j \in Nat
    BY <1>1, <1>2, <1>5, <1>6 DEF Frame
  <2> QED  BY <1>8, <2>1 DEF InOrder
<1>16. FramesOf(u) \cap FramesOf(v) = {}
  <2>1. \A f \in FramesOf(u) : f \in Nat
    BY <1>1, <1>2, <1>6 DEF FramesOf, Frame
  <2> QED  BY <1>10, <2>1
<1>17. Splits(FramesOf(s), n, new, v)
  BY <1>1, <1>4, <1>9, <1>11, <1>13, <1>14, <1>15, <1>16 DEF Splits
<1> QED  BY <1>3, <1>4, <1>8, <1>10, <1>11, <1>17 DEF u, v, n

(* Where the loop of ingest_item is after the first i of the frames.       *)
Matched(acc, avail, frames, i) ==
  /\ acc = [avail |-> acc.avail, ready |-> acc.ready, remaining |-> acc.remaining]
  /\ Splits({frames[k].frame : k \in 1 .. i}, i, acc.ready, acc.remaining)
  /\ Range(acc.remaining) \subseteq Range(frames)
  /\ acc.avail \subseteq avail
  /\ \A r \in Range(acc.ready) :
       /\ r.source \in avail \ acc.avail
       /\ r.pts # NoPts /\ r.source <= r.frame /\ r.frame - r.source <= MaxDelta
       /\ \E d \in Range(frames) : r.frame = d.frame /\ r.pts = d.pts
       /\ \A d \in Range(frames) : r.source = d.pts => r.frame = d.frame
  /\ \A a, b \in DOMAIN acc.ready :
       acc.ready[a].source = acc.ready[b].source => a = b
  /\ avail \ acc.avail \subseteq {acc.ready[a].source : a \in DOMAIN acc.ready}
  /\ \A d \in Range(acc.remaining) : Candidates(acc.avail, d.pts) = {}
  /\ \A k \in 1 .. i : frames[k].pts \notin acc.avail

(* A count grows by one with either of its parts.                          *)
LEMMA OneMore ==
  ASSUME NEW a \in Nat, NEW b \in Nat, NEW i \in Nat, a + b = i
  PROVE  a + (b + 1) = i + 1 /\ (a + 1) + b = i + 1
OBVIOUS

(* The members and the places of a sequence that grew by one.              *)
LEMMA AppendRange ==
  ASSUME NEW S, NEW s \in Seq(S), NEW d \in S
  PROVE  /\ Range(Append(s, d)) = Range(s) \cup {d}
         /\ DOMAIN Append(s, d) = DOMAIN s \cup {Len(s) + 1}
         /\ DOMAIN s = 1 .. Len(s)
         /\ \A i \in DOMAIN s : Append(s, d)[i] = s[i]
         /\ Append(s, d)[Len(s) + 1] = d
<1>1. Len(s) \in Nat /\ DOMAIN s = 1 .. Len(s)
  BY LenProperties
<1>2. /\ Append(s, d) \in Seq(S) /\ Len(Append(s, d)) = Len(s) + 1
      /\ \A i \in 1 .. Len(s) : Append(s, d)[i] = s[i]
      /\ Append(s, d)[Len(s) + 1] = d
  BY <1>1
<1>3. DOMAIN Append(s, d) = 1 .. (Len(s) + 1)
  BY <1>2, LenProperties
<1>4. DOMAIN Append(s, d) = DOMAIN s \cup {Len(s) + 1}
  BY <1>1, <1>3
<1>5. Range(Append(s, d)) = Range(s) \cup {d}
  BY <1>1, <1>2, <1>4 DEF Range
<1> QED  BY <1>1, <1>2, <1>4, <1>5

(* One step of match_all keeps what holds of the frames seen so far.       *)
LEMMA MatchStep ==
  ASSUME NEW avail \in SUBSET Frame, NEW frames \in Seq(Pending),
         InOrder(frames), OwnPts(frames),
         NEW i \in 0 .. Len(frames), i < Len(frames), NEW acc,
         Matched(acc, avail, frames, i)
  PROVE  Matched(MatchOne(acc, frames[i + 1]), avail, frames, i + 1)
<1> DEFINE n == Len(frames)
           d == frames[i + 1]
           F(k) == {frames[l].frame : l \in 1 .. k}
           source == Match(acc.avail, d.pts)
<1>1. n \in Nat /\ DOMAIN frames = 1 .. n /\ i + 1 \in 1 .. n /\ i \in Nat
  BY LenProperties
<1>2. \A k \in 1 .. n : /\ frames[k] \in Pending
                        /\ frames[k].frame \in Frame
                        /\ frames[k].pts \in Frame \cup {NoPts}
                        /\ frames[k].pts \in {frames[k].frame, NoPts}
  <2>1. \A k \in 1 .. n : frames[k] \in Pending
    BY ElementOfSeq
  <2> HIDE DEF n
  <2> QED  BY <1>1, <2>1 DEF Pending, OwnPts
<1>3. /\ d \in Pending /\ d.frame \in Frame /\ d.pts \in Frame \cup {NoPts}
      /\ d.pts \in {d.frame, NoPts} /\ d \in Range(frames)
  BY <1>1, <1>2 DEF Range
<1>4. \A k \in 1 .. i : k \in 1 .. n /\ frames[k].frame < d.frame
  BY <1>1 DEF InOrder
<1>5. F(i + 1) = F(i) \cup {d.frame}
  <2>1. \A k \in 1 .. (i + 1) : k \in 1 .. i \/ k = i + 1
    BY <1>1
  <2>2. 1 .. i \subseteq 1 .. (i + 1) /\ i + 1 \in 1 .. (i + 1)
    BY <1>1
  <2> QED  BY <2>1, <2>2
<1>6. \A f \in F(i) : f < d.frame /\ f # d.frame
  <2>1. \A k \in 1 .. i : frames[k].frame \in Nat /\ d.frame \in Nat
    BY <1>2, <1>3, <1>4 DEF Frame
  <2> QED  BY <1>4, <2>1
<1>7. /\ acc = [avail |-> acc.avail, ready |-> acc.ready, remaining |-> acc.remaining]
      /\ Splits(F(i), i, acc.ready, acc.remaining)
      /\ acc.ready \in Seq(Captured) /\ acc.remaining \in Seq(Pending)
      /\ FramesOf(acc.ready) \subseteq F(i) /\ FramesOf(acc.remaining) \subseteq F(i)
      /\ acc.avail \subseteq avail /\ acc.avail \in SUBSET Frame
  BY DEF Matched, Splits
<1> HIDE DEF F
<1>8. CASE source = NoSource
  <2> DEFINE new == MatchOne(acc, d)
             remaining == Append(acc.remaining, d)
  <2>1. new = [avail |-> acc.avail, ready |-> acc.ready, remaining |-> remaining]
    <3>1. new = [acc EXCEPT !.remaining = Append(@, d)]
      BY <1>8 DEF MatchOne
    <3> HIDE DEF new, d
    <3> QED  BY <1>7, <3>1
  <2>2. Candidates(acc.avail, d.pts) = {} /\ d.pts \notin acc.avail
    <3>1. Candidates(acc.avail, d.pts) = {}
      BY <1>3, <1>7, <1>8, MatchIs
    <3>2. ASSUME d.pts \in acc.avail PROVE FALSE
      <4>1. d.pts \in Nat /\ MaxDelta \in Nat /\ d.pts # NoPts
        BY <1>7, <3>2, JoinerAssumption DEF Frame
      <4>2. d.pts \in Candidates(acc.avail, d.pts)
        BY <3>2, <4>1 DEF Candidates
      <4> QED  BY <3>1, <4>2
    <3> QED  BY <3>1, <3>2
  <2>3. Splits(F(i + 1), i + 1, acc.ready, remaining)
    <3>1. /\ remaining \in Seq(Pending) /\ Len(remaining) = Len(acc.remaining) + 1
          /\ FramesOf(remaining) = FramesOf(acc.remaining) \cup {d.frame}
          /\ OwnPts(acc.remaining) /\ d.pts \in {d.frame, NoPts} => OwnPts(remaining)
          /\ InOrder(acc.remaining) /\ (\A f \in FramesOf(acc.remaining) : f < d.frame)
               => InOrder(remaining)
      BY <1>3, <1>7, AppendFrames
    <3>2. InOrder(remaining) /\ OwnPts(remaining)
      BY <1>3, <1>6, <1>7, <3>1 DEF Splits
    <3>3. FramesOf(acc.ready) \cap FramesOf(remaining) = {}
      BY <1>6, <1>7, <3>1 DEF Splits
    <3>4. FramesOf(acc.ready) \cup FramesOf(remaining) = F(i + 1)
      BY <1>5, <1>7, <3>1 DEF Splits
    <3>5. Len(acc.ready) + Len(remaining) = i + 1
      <4>1. Len(acc.ready) + Len(acc.remaining) = i
        BY <1>7 DEF Splits
      <4>2. Len(acc.ready) \in Nat /\ Len(acc.remaining) \in Nat /\ i \in Nat
        BY <1>1, <1>7, LenProperties
      <4>3. Len(acc.ready) + (Len(acc.remaining) + 1) = i + 1
        <5> DEFINE a == Len(acc.ready)
                   b == Len(acc.remaining)
        <5>1. a \in Nat /\ b \in Nat /\ i \in Nat /\ a + b = i
          BY <4>1, <4>2
        <5> HIDE DEF a, b
        <5>2. a + (b + 1) = i + 1
          BY <5>1
        <5> QED  BY <5>2 DEF a, b
      <4> QED  BY <3>1, <4>3
    <3> HIDE DEF remaining
    <3> QED  BY <1>7, <3>1, <3>2, <3>3, <3>4, <3>5 DEF Splits
  <2>4. Range(remaining) = Range(acc.remaining) \cup {d}
    BY <1>3, <1>7, AppendRange
  <2>5. \A e \in Range(remaining) : Candidates(acc.avail, e.pts) = {}
    BY <2>2, <2>4 DEF Matched
  <2>6. Range(remaining) \subseteq Range(frames)
    BY <1>3, <2>4 DEF Matched
  <2>7. \A k \in 1 .. (i + 1) : frames[k].pts \notin acc.avail
    <3>1. \A k \in 1 .. (i + 1) : k \in 1 .. i \/ k = i + 1
      BY <1>1
    <3> QED  BY <2>2, <3>1 DEF Matched
  <2> HIDE DEF remaining, new, d
  <2>8. new.avail = acc.avail /\ new.ready = acc.ready /\ new.remaining = remaining
    BY <2>1
  <2>9. Matched(new, avail, frames, i + 1)
    <3>1. Splits({frames[k].frame : k \in 1 .. (i + 1)}, i + 1, new.ready, new.remaining)
      BY <2>3, <2>8 DEF F
    <3> QED  BY <2>1, <2>5, <2>6, <2>7, <2>8, <3>1 DEF Matched
  <2> QED  BY <2>9 DEF new, d
<1>9. CASE source # NoSource
  <2> DEFINE new == MatchOne(acc, d)
             r == Build(d, source)
             ready == Append(acc.ready, r)
             left == acc.avail \ {source}
  <2>1. new = [avail |-> left, ready |-> ready, remaining |-> acc.remaining]
    <3>1. new = [acc EXCEPT !.avail = @ \ {source}, !.ready = Append(@, r)]
      BY <1>9 DEF MatchOne
    <3> HIDE DEF new, d, r, source
    <3> QED  BY <1>7, <3>1
  <2>2. /\ source \in Candidates(acc.avail, d.pts)
        /\ d.pts \in acc.avail => source = d.pts
    <3> DEFINE pts == d.pts
               avl == acc.avail
    <3>1. avl \in SUBSET Frame /\ pts \in Frame \cup {NoPts}
      BY <1>3, <1>7
    <3>2. Match(avl, pts) # NoSource
      BY <1>9
    <3> HIDE DEF pts, avl
    <3>3. /\ Match(avl, pts) \in Candidates(avl, pts)
          /\ pts \in avl => Match(avl, pts) = pts
      BY <3>1, <3>2, MatchIs
    <3> QED  BY <3>3 DEF pts, avl
  <2>3. /\ source \in acc.avail /\ d.pts # NoPts /\ source <= d.pts /\ d.pts = d.frame
        /\ source \in Frame /\ d.frame - source <= MaxDelta
    BY <1>3, <1>7, <2>2 DEF Candidates
  <2>4. r = [frame |-> d.frame, pts |-> d.pts, source |-> source] /\ r \in Captured
    BY <1>3, <2>3 DEF Build, Captured
  <2> HIDE DEF r
  <2>5. Splits(F(i + 1), i + 1, ready, acc.remaining)
    <3>1. /\ ready \in Seq(Captured) /\ Len(ready) = Len(acc.ready) + 1
          /\ FramesOf(ready) = FramesOf(acc.ready) \cup {r.frame}
          /\ OwnPts(acc.ready) /\ r.pts \in {r.frame, NoPts} => OwnPts(ready)
          /\ OnceEach(acc.ready) /\ r.frame \notin FramesOf(acc.ready) => OnceEach(ready)
      BY <1>7, <2>4, AppendFrames
    <3>2. r.frame = d.frame /\ r.pts = d.pts
      BY <2>4
    <3>3. OwnPts(ready) /\ OnceEach(ready)
      BY <1>3, <1>6, <1>7, <3>1, <3>2 DEF Splits
    <3>4. FramesOf(ready) \cap FramesOf(acc.remaining) = {}
      BY <1>6, <1>7, <3>1, <3>2 DEF Splits
    <3>5. FramesOf(ready) \cup FramesOf(acc.remaining) = F(i + 1)
      BY <1>5, <1>7, <3>1, <3>2 DEF Splits
    <3>6. Len(ready) + Len(acc.remaining) = i + 1
      <4>1. Len(acc.ready) + Len(acc.remaining) = i
        BY <1>7 DEF Splits
      <4>2. Len(acc.ready) \in Nat /\ Len(acc.remaining) \in Nat /\ i \in Nat
        BY <1>1, <1>7, LenProperties
      <4>3. (Len(acc.ready) + 1) + Len(acc.remaining) = i + 1
        <5> DEFINE a == Len(acc.ready)
                   b == Len(acc.remaining)
        <5>1. a \in Nat /\ b \in Nat /\ i \in Nat /\ a + b = i
          BY <4>1, <4>2
        <5> HIDE DEF a, b
        <5>2. (a + 1) + b = i + 1
          BY <5>1
        <5> QED  BY <5>2 DEF a, b
      <4> QED  BY <3>1, <4>3
    <3> HIDE DEF ready
    <3> QED  BY <1>7, <3>1, <3>3, <3>4, <3>5, <3>6 DEF Splits
  <2>6. /\ Range(ready) = Range(acc.ready) \cup {r}
        /\ DOMAIN ready = DOMAIN acc.ready \cup {Len(acc.ready) + 1}
        /\ \A a \in DOMAIN acc.ready : ready[a] = acc.ready[a]
        /\ ready[Len(acc.ready) + 1] = r
    BY <1>7, <2>4, AppendRange
  <2>7. ASSUME NEW e \in Range(frames), source = e.pts
        PROVE  d.frame = e.frame
    <3>1. PICK k \in 1 .. n : e = frames[k]
      BY <1>1 DEF Range
    <3>2. CASE k \in 1 .. i
      BY <2>3, <2>7, <3>1, <3>2 DEF Matched
    <3>3. CASE k > i + 1
      <4>1. d.frame < e.frame
        BY <1>1, <3>1, <3>3 DEF InOrder
      <4>2. source # NoPts /\ e.frame \in Nat /\ d.frame \in Nat
        <5>1. source \in Frame
          BY <2>3
        <5>2. e.frame \in Frame /\ d.frame \in Frame
          BY <1>2, <1>3, <3>1
        <5>3. Frame \subseteq Nat /\ NoPts \notin Frame
          BY JoinerAssumption DEF Frame
        <5> QED  BY <5>1, <5>2, <5>3
      <4>3. e.pts = e.frame
        BY <1>2, <2>7, <3>1, <4>2
      <4> QED  BY <2>3, <2>7, <4>1, <4>2, <4>3
    <3>4. k \in 1 .. i \/ k = i + 1 \/ k > i + 1
      BY <1>1
    <3> QED  BY <3>1, <3>2, <3>3, <3>4
  <2>8. ASSUME NEW q \in Range(ready)
        PROVE  /\ q.source \in avail \ left
               /\ q.pts # NoPts /\ q.source <= q.frame /\ q.frame - q.source <= MaxDelta
               /\ \E e \in Range(frames) : q.frame = e.frame /\ q.pts = e.pts
               /\ \A e \in Range(frames) : q.source = e.pts => q.frame = e.frame
    <3>1. CASE q \in Range(acc.ready)
      BY <3>1 DEF Matched
    <3>2. CASE q = r
      <4>1. q.source = source /\ q.frame = d.frame /\ q.pts = d.pts
        BY <2>4, <3>2
      <4>2. q.source \in avail \ left
        BY <1>7, <2>3, <4>1
      <4> HIDE DEF left, d, source
      <4> QED  BY <1>3, <2>3, <2>7, <4>1, <4>2
    <3> QED  BY <2>6, <3>1, <3>2
  <2>9. ASSUME NEW a \in DOMAIN acc.ready
        PROVE  acc.ready[a].source # source
    <3>1. acc.ready[a] \in Range(acc.ready)
      BY DEF Range
    <3> QED  BY <2>3, <3>1 DEF Matched
  <2>10. r.source = source
    BY <2>4
  <2>11. ASSUME NEW a \in DOMAIN ready, NEW b \in DOMAIN ready,
                ready[a].source = ready[b].source
         PROVE  a = b
    <3>1. CASE a \in DOMAIN acc.ready /\ b \in DOMAIN acc.ready
      BY <2>6, <2>11, <3>1 DEF Matched
    <3> QED  BY <2>6, <2>9, <2>10, <2>11, <3>1
  <2>12. avail \ left \subseteq {ready[a].source : a \in DOMAIN ready}
    <3>1. {acc.ready[a].source : a \in DOMAIN acc.ready} \cup {source}
            \subseteq {ready[a].source : a \in DOMAIN ready}
      BY <2>6, <2>10
    <3>2. avail \ acc.avail \subseteq {acc.ready[a].source : a \in DOMAIN acc.ready}
      BY DEF Matched
    <3> QED  BY <3>1, <3>2
  <2>13. \A e \in Range(acc.remaining) : Candidates(left, e.pts) = {}
    <3>1. \A e \in Range(acc.remaining) : Candidates(acc.avail, e.pts) = {}
      BY DEF Matched
    <3> QED  BY <3>1 DEF Candidates
  <2>14. \A k \in 1 .. (i + 1) : frames[k].pts \notin left
    <3>1. \A k \in 1 .. (i + 1) : k \in 1 .. i \/ k = i + 1
      BY <1>1
    <3>2. d.pts \notin left
      BY <2>2
    <3> QED  BY <3>1, <3>2 DEF Matched
  <2>15. left \subseteq avail
    BY <1>7
  <2> HIDE DEF ready, new, d, left, source
  <2>16. new.avail = left /\ new.ready = ready /\ new.remaining = acc.remaining
    BY <2>1
  <2>17. Splits({frames[k].frame : k \in 1 .. (i + 1)}, i + 1, new.ready, new.remaining)
    BY <2>5, <2>16 DEF F
  <2>18. Range(new.remaining) \subseteq Range(frames)
    BY <2>16 DEF Matched
  <2>19. \A q \in Range(new.ready) :
           /\ q.source \in avail \ new.avail
           /\ q.pts # NoPts /\ q.source <= q.frame /\ q.frame - q.source <= MaxDelta
           /\ \E e \in Range(frames) : q.frame = e.frame /\ q.pts = e.pts
           /\ \A e \in Range(frames) : q.source = e.pts => q.frame = e.frame
    BY <2>8, <2>16
  <2>20. \A a, b \in DOMAIN new.ready :
           new.ready[a].source = new.ready[b].source => a = b
    BY <2>11, <2>16
  <2>21. avail \ new.avail \subseteq {new.ready[a].source : a \in DOMAIN new.ready}
    BY <2>12, <2>16
  <2>22. /\ \A e \in Range(new.remaining) : Candidates(new.avail, e.pts) = {}
         /\ \A k \in 1 .. (i + 1) : frames[k].pts \notin new.avail
         /\ new.avail \subseteq avail
         /\ new = [avail |-> new.avail, ready |-> new.ready, remaining |-> new.remaining]
    BY <2>1, <2>13, <2>14, <2>15, <2>16
  <2>23. Matched(new, avail, frames, i + 1)
    BY <2>17, <2>18, <2>19, <2>20, <2>21, <2>22 DEF Matched
  <2> QED  BY <2>23 DEF new, d
<1> QED  BY <1>8, <1>9

(* match_all splits the waiting frames into those joined, each to metadata *)
(* of its own, and those without a candidate, which stay in order.         *)
LEMMA MatchAllMatches ==
  ASSUME NEW avail \in SUBSET Frame, NEW frames \in Seq(Pending),
         InOrder(frames), OwnPts(frames)
  PROVE  Matched(MatchAll(avail, frames), avail, frames, Len(frames))
<1> DEFINE n == Len(frames)
<1>1. n \in Nat
  BY LenProperties
<1>2. PICK acc :
        /\ acc[0] = [avail |-> avail, ready |-> <<>>, remaining |-> <<>>]
        /\ \A i \in 1 .. n : acc[i] = MatchOne(acc[i - 1], frames[i])
        /\ MatchAll(avail, frames) = acc[n]
  BY <1>1, MatchAllChain
<1> DEFINE S == {i \in 0 .. n : Matched(acc[i], avail, frames, i)}
<1>3. 0 \in S
  <2>1. DOMAIN <<>> = {} /\ Len(<<>>) = 0
    BY EmptySeq
  <2>2. <<>> \in Seq(Captured) /\ <<>> \in Seq(Pending)
    BY EmptySeq
  <2>3. FramesOf(<<>>) = {} /\ Range(<<>>) = {}
    BY <2>1 DEF FramesOf, Range
  <2>4. {frames[k].frame : k \in 1 .. 0} = {}
    OBVIOUS
  <2>5. Splits({frames[k].frame : k \in 1 .. 0}, 0, <<>>, <<>>)
    BY <2>1, <2>2, <2>3, <2>4 DEF Splits, OnceEach, InOrder, OwnPts
  <2>6. acc[0].avail = avail /\ acc[0].ready = <<>> /\ acc[0].remaining = <<>>
    BY <1>2
  <2>7. Matched(acc[0], avail, frames, 0)
    BY <1>2, <2>1, <2>3, <2>5, <2>6 DEF Matched
  <2>8. 0 \in 0 .. n
    BY <1>1
  <2> QED  BY <2>7, <2>8
<1>4. ASSUME NEW i \in 0 .. n, i < n, i \in S
      PROVE  i + 1 \in S
  <2>1. Matched(MatchOne(acc[i], frames[i + 1]), avail, frames, i + 1)
    BY <1>4, MatchStep
  <2>2. i + 1 \in 1 .. n /\ i + 1 \in 0 .. n /\ (i + 1) - 1 = i
    BY <1>1, <1>4
  <2>3. acc[i + 1] = MatchOne(acc[i], frames[i + 1])
    BY <1>2, <2>2
  <2> QED  BY <2>1, <2>2, <2>3
<1>5. n \in S
  <2> HIDE DEF S, n
  <2>1. \A i \in 0 .. n : i \in S
    BY <1>1, <1>3, <1>4, UpTo
  <2> QED  BY <1>1, <2>1
<1> QED  BY <1>2, <1>5

-----------------------------------------------------------------------------
(* A sequence holds at most as many frames as elements.                    *)
LEMMA FramesCardinality ==
  ASSUME NEW S, NEW s \in Seq(S)
  PROVE  IsFiniteSet(FramesOf(s)) /\ Cardinality(FramesOf(s)) <= Len(s)
<1> DEFINE n == Len(s)
           f == [i \in 1 .. n |-> s[i].frame]
<1>1. n \in Nat /\ DOMAIN s = 1 .. n
  BY LenProperties
<1>2. FramesOf(s) = {s[i].frame : i \in 1 .. n}
  BY <1>1 DEF FramesOf
<1>3. f \in Surjection(1 .. n, FramesOf(s))
  <2> HIDE DEF n
  <2> QED  BY <1>2 DEF Surjection
<1>4. IsFiniteSet(1 .. n) /\ Cardinality(1 .. n) = n
  <2> HIDE DEF n
  <2>1. n \in Int /\ 1 \in Int
    BY <1>1
  <2>2. IsFiniteSet(1 .. n) /\ Cardinality(1 .. n) = IF 1 > n THEN 0 ELSE n - 1 + 1
    BY <2>1, FS_Interval
  <2> QED  BY <1>1, <2>2
<1>5. IsFiniteSet(FramesOf(s)) /\ Cardinality(FramesOf(s)) <= Cardinality(1 .. n)
  <2> HIDE DEF f, n
  <2> QED  BY <1>3, <1>4, FS_Surjection
<1> QED  BY <1>4, <1>5

(* The frames that are due are among those that wait.                      *)
LEMMA DueBound ==
  ASSUME NEW S, pending \in Seq(S)
  PROVE  Due \in 0 .. Len(pending)
<1> DEFINE n == Len(pending)
           D == {i \in DOMAIN pending : \A j \in 1 .. i : pending[j].left = 0}
<1>1. n \in Nat /\ DOMAIN pending = 1 .. n
  BY LenProperties
<1>2. IsFiniteSet(1 .. n) /\ Cardinality(1 .. n) = n
  <2> HIDE DEF n
  <2>1. n \in Int /\ 1 \in Int
    BY <1>1
  <2>2. IsFiniteSet(1 .. n) /\ Cardinality(1 .. n) = IF 1 > n THEN 0 ELSE n - 1 + 1
    BY <2>1, FS_Interval
  <2> QED  BY <1>1, <2>2
<1>3. D \in SUBSET (1 .. n)
  BY <1>1
<1>4. IsFiniteSet(D) /\ Cardinality(D) <= n /\ Cardinality(D) \in Nat
  <2> HIDE DEF D, n
  <2> QED  BY <1>2, <1>3, FS_Subset, FS_CardinalityType
<1>5. Due = Cardinality(D)
  BY DEF Due
<1> HIDE DEF D
<1> QED  BY <1>1, <1>4, <1>5

-----------------------------------------------------------------------------
(* What a call does to the frames: at most one is decoded, after all the   *)
(* others, some leave, and the rest waits.                                 *)
FramesMove(new, T) ==
  /\ T \in SUBSET Frame
  /\ \A t, u \in T : t = u
  /\ \A f \in decoded, t \in T : f < t
  /\ decoded' = decoded \cup T
  /\ Splits(FramesOf(pending) \cup T, Len(pending) + Cardinality(T), new, pending')
  /\ emitted' = emitted \o new

(* A call that moves frames conserves them and bounds their reordering.    *)
LEMMA FramesStep ==
  ASSUME TypeOK, FramesKept, FewOvertaken, NEW new, NEW T, FramesMove(new, T)
  PROVE  FramesKept' /\ FewOvertaken' /\ emitted' \in Seq(Captured)
<1>1. /\ emitted \in Seq(Captured) /\ pending \in Seq(Pending) /\ decoded \subseteq Frame
      /\ Len(pending) <= MaxPending /\ MaxPending \in Nat /\ MaxFrame \in Nat
  BY JoinerAssumption DEF TypeOK
<1>2. /\ new \in Seq(Captured) /\ pending' \in Seq(Pending)
      /\ FramesOf(new) \cup FramesOf(pending') = FramesOf(pending) \cup T
      /\ FramesOf(new) \cap FramesOf(pending') = {}
      /\ OnceEach(new) /\ InOrder(pending') /\ OwnPts(new) /\ OwnPts(pending')
      /\ Len(new) + Len(pending') = Len(pending) + Cardinality(T)
  BY DEF FramesMove, Splits
<1>3. /\ T \in SUBSET Frame /\ \A t, u \in T : t = u
      /\ \A f \in decoded, t \in T : f < t
      /\ decoded' = decoded \cup T /\ emitted' = emitted \o new
  BY DEF FramesMove
<1>4. /\ OnceEach(emitted) /\ OwnPts(emitted)
      /\ decoded = FramesOf(emitted) \cup FramesOf(pending)
      /\ FramesOf(emitted) \cap FramesOf(pending) = {}
      /\ Cardinality(decoded) = Len(emitted) + Len(pending)
  BY DEF FramesKept
<1>5. T \cap decoded = {}
  BY <1>1, <1>3 DEF Frame
<1>6. FramesOf(emitted) \cap FramesOf(new) = {}
  BY <1>2, <1>4, <1>5
<1>7. /\ FramesOf(emitted') = FramesOf(emitted) \cup FramesOf(new)
      /\ OwnPts(emitted') /\ OnceEach(emitted')
  BY <1>1, <1>2, <1>3, <1>4, <1>6, ConcatFrames
<1>8. /\ emitted' \in Seq(Captured) /\ Len(emitted') = Len(emitted) + Len(new)
      /\ \A i \in 1 .. Len(emitted) + Len(new) :
           emitted'[i] = IF i <= Len(emitted) THEN emitted[i] ELSE new[i - Len(emitted)]
  BY <1>1, <1>2, <1>3, ConcatProperties
<1>9. decoded' = FramesOf(emitted') \cup FramesOf(pending')
  BY <1>2, <1>3, <1>4, <1>7
<1>10. FramesOf(emitted') \cap FramesOf(pending') = {}
  BY <1>2, <1>4, <1>5, <1>7
<1>11. /\ Len(emitted) \in Nat /\ Len(new) \in Nat /\ Len(pending) \in Nat
       /\ Len(pending') \in Nat
       /\ DOMAIN emitted = 1 .. Len(emitted) /\ DOMAIN new = 1 .. Len(new)
       /\ DOMAIN emitted' = 1 .. (Len(emitted) + Len(new))
  BY <1>1, <1>2, <1>8, LenProperties
<1>12. IsFiniteSet(decoded) /\ IsFiniteSet(T)
  <2>1. IsFiniteSet(1 .. MaxFrame)
    <3>1. MaxFrame \in Int /\ 1 \in Int
      BY <1>1
    <3> QED  BY <3>1, FS_Interval
  <2> QED  BY <1>1, <1>3, <2>1, FS_Subset DEF Frame
<1>13. Cardinality(decoded') = Cardinality(decoded) + Cardinality(T)
  <2>1. Cardinality(decoded') = Cardinality(decoded) + Cardinality(T)
                                  - Cardinality(decoded \cap T)
    BY <1>3, <1>12, FS_Union
  <2>2. Cardinality(decoded \cap T) = 0
    BY <1>5, FS_EmptySet
  <2>3. Cardinality(decoded) \in Nat /\ Cardinality(T) \in Nat
    BY <1>12, FS_CardinalityType
  <2> QED  BY <2>1, <2>2, <2>3
<1>14. Cardinality(decoded') = Len(emitted') + Len(pending')
  <2>1. Cardinality(T) \in Nat
    BY <1>12, FS_CardinalityType
  <2> DEFINE c == Cardinality(T)
             e == Len(emitted)
             p == Len(pending)
             v == Len(new)
             q == Len(pending')
  <2>2. /\ c \in Nat /\ e \in Nat /\ p \in Nat /\ v \in Nat /\ q \in Nat
        /\ v + q = p + c /\ Cardinality(decoded') = (e + p) + c
        /\ Len(emitted') = e + v
    BY <1>2, <1>4, <1>8, <1>11, <1>13, <2>1
  <2> HIDE DEF c, e, p, v, q
  <2>3. (e + p) + c = (e + v) + q
    BY <2>2
  <2>4. Cardinality(decoded') = Len(emitted') + q
    BY <2>2, <2>3
  <2> QED  BY <2>4 DEF q
<1>15. FramesKept'
  BY <1>2, <1>7, <1>9, <1>10, <1>14 DEF FramesKept, InOrder, OnceEach, OwnPts, FramesOf
<1>16. ASSUME NEW i \in DOMAIN emitted'
       PROVE  Cardinality(Overtaken(i)') <= MaxPending
  <2> DEFINE x == emitted'[i].frame
             O == {f \in decoded' : f < x /\ \A k \in 1 .. i : emitted'[k].frame # f}
  <2>1. x \in decoded' /\ decoded' \subseteq Nat
    BY <1>1, <1>3, <1>9 DEF FramesOf, Frame
  <2>2. CASE i \in DOMAIN emitted
    <3>1. i <= Len(emitted) /\ emitted'[i] = emitted[i]
          /\ \A k \in 1 .. i : emitted'[k] = emitted[k]
      BY <1>8, <1>11, <2>2
    <3>2. x \in decoded /\ x = emitted[i].frame
      BY <1>4, <2>2, <3>1 DEF FramesOf
    <3>3. \A f \in T : ~ (f < x)
      <4> HIDE DEF x
      <4> SUFFICES ASSUME NEW f \in T PROVE ~ (f < x)
        OBVIOUS
      <4>1. x < f
        BY <1>3, <3>2
      <4>2. x \in Nat /\ f \in Nat
        BY <1>1, <1>3, <3>2 DEF Frame
      <4> QED  BY <4>1, <4>2
    <3>4. O = {f \in decoded : f < x /\ \A k \in 1 .. i : emitted[k].frame # f}
      BY <1>3, <3>1, <3>3
    <3>5. Overtaken(i)' = Overtaken(i)
      BY <3>2, <3>4 DEF Overtaken
    <3> QED  BY <2>2, <3>5 DEF FewOvertaken
  <2>3. CASE i \notin DOMAIN emitted
    <3>1. \A k \in DOMAIN emitted : k \in 1 .. i /\ emitted'[k] = emitted[k]
      BY <1>8, <1>11, <2>3
    <3>2. \A f \in O : f \notin FramesOf(emitted)
      BY <3>1 DEF FramesOf
    <3>3. x \in FramesOf(pending) \cup T
      <4>1. i - Len(emitted) \in DOMAIN new /\ emitted'[i] = new[i - Len(emitted)]
        BY <1>8, <1>11, <2>3
      <4> QED  BY <1>2, <4>1 DEF FramesOf
    <3>4. \A f \in O : f \notin T
      <4> SUFFICES ASSUME NEW f \in T, f < x PROVE FALSE
        OBVIOUS
      <4>1. f \in Nat /\ x \in Nat /\ x \notin T
        BY <1>3, <2>1
      <4> QED  BY <1>3, <1>4, <3>3, <4>1
    <3>5. O \in SUBSET FramesOf(pending)
      BY <1>3, <1>4, <3>2, <3>4
    <3>6. IsFiniteSet(FramesOf(pending)) /\ Cardinality(FramesOf(pending)) <= Len(pending)
      BY <1>1, FramesCardinality
    <3>7. /\ Cardinality(O) <= Cardinality(FramesOf(pending))
          /\ Cardinality(O) \in Nat /\ Cardinality(FramesOf(pending)) \in Nat
      <4> HIDE DEF O
      <4> QED  BY <3>5, <3>6, FS_Subset, FS_CardinalityType
    <3>8. Overtaken(i)' = O
      BY DEF Overtaken
    <3> HIDE DEF O
    <3> QED  BY <1>1, <1>11, <3>6, <3>7, <3>8
  <2> QED  BY <2>2, <2>3
<1>17. FewOvertaken'
  BY <1>16 DEF FewOvertaken
<1> QED  BY <1>8, <1>15, <1>17

-----------------------------------------------------------------------------
(* Sequences of emitted frames are joined in any order.                    *)
LEMMA Regroup ==
  ASSUME NEW e \in Seq(Captured), NEW u \in Seq(Captured), NEW x \in Seq(Captured)
  PROVE  (e \o u) \o x = e \o (u \o x)
BY ConcatAssociative

(* w is u followed by v.                                                   *)
Joins(w, u, v) ==
  /\ Len(w) = Len(u) + Len(v)
  /\ \A i \in 1 .. Len(u) + Len(v) : w[i] = IF i <= Len(u) THEN u[i] ELSE v[i - Len(u)]

(* Two joined sequences, place by place.                                   *)
LEMMA JoinsBoth ==
  ASSUME NEW S, NEW u \in Seq(S), NEW v \in Seq(S)
  PROVE  u \o v \in Seq(S) /\ Joins(u \o v, u, v)
BY ConcatProperties DEF Joins

(* Where a frame that has been emitted comes from.                         *)
Comes(w, e, g, x) ==
  /\ \A i \in DOMAIN w :
       \/ i \in DOMAIN e /\ w[i] = e[i]
       \/ i \notin DOMAIN e /\ \E j \in DOMAIN g : w[i] = Build(g[j], NoSource)
       \/ i \notin DOMAIN e /\ \E j \in DOMAIN x : i = (Len(e) + Len(g)) + j /\ w[i] = x[j]
  /\ \A i \in DOMAIN e : i \in DOMAIN w /\ w[i] = e[i]
  /\ \A j \in DOMAIN g : \E i \in DOMAIN w : w[i] = Build(g[j], NoSource)

(* Each emitted frame was there, was a departed one, or is newly matched.  *)
LEMMA EmittedCases ==
  ASSUME NEW e \in Seq(Captured), NEW g \in Seq(Pending), NEW x \in Seq(Captured),
         NEW w, w = (e \o Unmatched(g)) \o x
  PROVE  /\ Comes(w, e, g, x)
         /\ w = e \o (Unmatched(g) \o x) /\ Unmatched(g) \in Seq(Captured)
<1> DEFINE u == Unmatched(g)
           m == Len(e)
           n == Len(g)
           l == Len(x)
<1>1. /\ m \in Nat /\ n \in Nat /\ l \in Nat
      /\ DOMAIN e = 1 .. m /\ DOMAIN g = 1 .. n /\ DOMAIN x = 1 .. l
  BY LenProperties
<1>2. u \in Seq(Captured) /\ Len(u) = n /\ \A i \in 1 .. n : u[i] = Build(g[i], NoSource)
  <2>1. \A i \in 1 .. n : Build(g[i], NoSource) \in Captured
    <3>1. \A i \in 1 .. n : g[i] \in Pending
      BY ElementOfSeq
    <3> HIDE DEF n
    <3> QED  BY <3>1 DEF Build, Captured, Pending
  <2>2. u = [i \in 1 .. n |-> Build(g[i], NoSource)]
    BY <1>1 DEF Unmatched
  <2>3. u \in [1 .. n -> Captured]
    BY <2>1, <2>2
  <2> HIDE DEF u
  <2> QED  BY <1>1, <2>2, <2>3
<1>0. w = (e \o u) \o x
  OBVIOUS
<1> HIDE DEF u
<1>3. /\ e \o u \in Seq(Captured) /\ Len(e \o u) = m + n
      /\ \A i \in 1 .. (m + n) : (e \o u)[i] = IF i <= m THEN e[i] ELSE u[i - m]
  <2>1. /\ e \o u \in Seq(Captured) /\ Len(e \o u) = Len(e) + Len(u)
        /\ \A i \in 1 .. Len(e) + Len(u) :
             (e \o u)[i] = IF i <= Len(e) THEN e[i] ELSE u[i - Len(e)]
    <3>1. e \o u \in Seq(Captured) /\ Joins(e \o u, e, u)
      BY <1>2, JoinsBoth
    <3> QED  BY <3>1 DEF Joins
  <2> QED  BY <1>2, <2>1
<1>4. /\ w \in Seq(Captured) /\ Len(w) = (m + n) + l
      /\ \A i \in 1 .. ((m + n) + l) :
           w[i] = IF i <= m + n THEN (e \o u)[i] ELSE x[i - (m + n)]
  <2> DEFINE eu == e \o u
  <2>1. eu \in Seq(Captured) /\ Len(eu) = m + n
    BY <1>3
  <2> HIDE DEF eu, m, n
  <2>2. /\ eu \o x \in Seq(Captured) /\ Len(eu \o x) = Len(eu) + Len(x)
        /\ \A i \in 1 .. Len(eu) + Len(x) :
             (eu \o x)[i] = IF i <= Len(eu) THEN eu[i] ELSE x[i - Len(eu)]
    BY <2>1, ConcatProperties
  <2>3. /\ eu \o x \in Seq(Captured) /\ Len(eu \o x) = (m + n) + Len(x)
        /\ \A i \in 1 .. (m + n) + Len(x) :
             (eu \o x)[i] = IF i <= m + n THEN eu[i] ELSE x[i - (m + n)]
    BY <2>1, <2>2
  <2> QED  BY <1>0, <2>3 DEF eu
<1>5. DOMAIN w = 1 .. ((m + n) + l)
  BY <1>4, LenProperties
<1> HIDE DEF m, n, l
<1>6. ASSUME NEW i \in 1 .. m
      PROVE  i \in DOMAIN w /\ w[i] = e[i]
  <2>1. i \in 1 .. (m + n) /\ i \in 1 .. ((m + n) + l) /\ i <= m /\ i <= m + n
    BY <1>1
  <2> QED  BY <1>3, <1>4, <1>5, <2>1
<1>7. ASSUME NEW j \in 1 .. n
      PROVE  m + j \in DOMAIN w /\ w[m + j] = Build(g[j], NoSource)
  <2>1. /\ m + j \in 1 .. (m + n) /\ m + j \in 1 .. ((m + n) + l) /\ ~ (m + j <= m)
        /\ m + j <= m + n /\ (m + j) - m = j
    BY <1>1
  <2> QED  BY <1>2, <1>3, <1>4, <1>5, <2>1
<1>8. ASSUME NEW i \in DOMAIN w
      PROVE  \/ i \in 1 .. m
             \/ i \notin 1 .. m /\ \E j \in 1 .. n : i = m + j
             \/ i \notin 1 .. m /\ \E j \in 1 .. l : i = (m + n) + j /\ w[i] = x[j]
  <2>1. i \in 1 .. ((m + n) + l)
    BY <1>5
  <2>2. CASE i <= m
    BY <1>1, <2>1, <2>2
  <2>3. CASE m < i /\ i <= m + n
    <3>1. i - m \in 1 .. n /\ i = m + (i - m) /\ i \notin 1 .. m
      BY <1>1, <2>1, <2>3
    <3> QED  BY <3>1
  <2>4. CASE m + n < i
    <3>1. /\ i - (m + n) \in 1 .. l /\ i = (m + n) + (i - (m + n)) /\ i \notin 1 .. m
          /\ ~ (i <= m + n)
      BY <1>1, <2>1, <2>4
    <3>2. w[i] = x[i - (m + n)]
      BY <1>4, <2>1, <3>1
    <3> QED  BY <3>1, <3>2
  <2> QED  BY <1>1, <2>1, <2>2, <2>3, <2>4
<1>9. w = e \o (u \o x)
  <2>1. (e \o u) \o x = e \o (u \o x)
    BY <1>2, Regroup
  <2> QED  BY <1>0, <2>1
<1>10. /\ \A i \in DOMAIN w :
            \/ i \in 1 .. m /\ w[i] = e[i]
            \/ i \notin 1 .. m /\ \E j \in 1 .. n : w[i] = Build(g[j], NoSource)
            \/ i \notin 1 .. m /\ \E j \in 1 .. l : i = (m + n) + j /\ w[i] = x[j]
  <2> SUFFICES ASSUME NEW i \in DOMAIN w
               PROVE  \/ i \in 1 .. m /\ w[i] = e[i]
                      \/ i \notin 1 .. m /\ \E j \in 1 .. n : w[i] = Build(g[j], NoSource)
                      \/ i \notin 1 .. m /\ \E j \in 1 .. l : i = (m + n) + j /\ w[i] = x[j]
    OBVIOUS
  <2>1. CASE i \in 1 .. m
    BY <1>6, <2>1
  <2>2. CASE i \notin 1 .. m /\ \E j \in 1 .. n : i = m + j
    BY <1>7, <2>2
  <2> QED  BY <1>8, <2>1, <2>2
<1>11. \A j \in 1 .. n : \E i \in DOMAIN w : w[i] = Build(g[j], NoSource)
  BY <1>7
<1> QED  BY <1>1, <1>2, <1>6, <1>9, <1>10, <1>11 DEF Comes, u, m, n, l

(* The frames a call emits without metadata are lost from then on.         *)
LEMMA LostStep ==
  ASSUME emitted \in Seq(Captured), NEW g \in Seq(Pending), NEW x \in Seq(Captured),
         OwnPts(g), \A r \in Range(x) : r.source # NoSource,
         emitted' = (emitted \o Unmatched(g)) \o x
  PROVE  Lost' = Lost \cup KnownPts(g)
<1> DEFINE w == emitted'
<1>1. /\ \A i \in DOMAIN w :
           \/ i \in DOMAIN emitted /\ w[i] = emitted[i]
           \/ \E j \in DOMAIN g : w[i] = Build(g[j], NoSource)
           \/ \E j \in DOMAIN x : w[i] = x[j]
      /\ \A i \in DOMAIN emitted : i \in DOMAIN w /\ w[i] = emitted[i]
      /\ \A j \in DOMAIN g : \E i \in DOMAIN w : w[i] = Build(g[j], NoSource)
  <2> HIDE DEF w
  <2>1. w = (emitted \o Unmatched(g)) \o x
    BY DEF w
  <2>2. Comes(w, emitted, g, x)
    BY <2>1, EmittedCases
  <2> QED  BY <2>2 DEF Comes
<1> HIDE DEF w
<1>2. Lost' = {w[i].frame : i \in {k \in DOMAIN w : w[k].source = NoSource /\ w[k].pts # NoPts}}
  BY DEF Lost, w
<1>3. \A j \in DOMAIN g : /\ Build(g[j], NoSource).source = NoSource
                          /\ Build(g[j], NoSource).frame = g[j].frame
                          /\ Build(g[j], NoSource).pts = g[j].pts
                          /\ g[j].pts \in {g[j].frame, NoPts}
  BY DEF Build, OwnPts
<1>4. \A j \in DOMAIN x : x[j].source # NoSource
  BY DEF Range
<1>5. Lost \subseteq Lost'
  <2> SUFFICES ASSUME NEW i \in DOMAIN emitted,
                      emitted[i].source = NoSource, emitted[i].pts # NoPts
               PROVE  emitted[i].frame \in Lost'
    BY DEF Lost
  <2>1. i \in DOMAIN w /\ w[i] = emitted[i]
    BY <1>1
  <2> QED  BY <1>2, <2>1
<1>6. KnownPts(g) \subseteq Lost'
  <2> SUFFICES ASSUME NEW j \in DOMAIN g, g[j].pts # NoPts
               PROVE  g[j].pts \in Lost'
    BY DEF KnownPts
  <2>1. PICK i \in DOMAIN w : w[i] = Build(g[j], NoSource)
    BY <1>1
  <2> QED  BY <1>2, <1>3, <2>1
<1>7. ASSUME NEW i \in DOMAIN w, w[i].source = NoSource, w[i].pts # NoPts
      PROVE  w[i].frame \in Lost \cup KnownPts(g)
  <2>1. CASE i \in DOMAIN emitted /\ w[i] = emitted[i]
    BY <1>7, <2>1 DEF Lost
  <2>2. CASE \E j \in DOMAIN g : w[i] = Build(g[j], NoSource)
    BY <1>3, <1>7, <2>2 DEF KnownPts
  <2>3. CASE \E j \in DOMAIN x : w[i] = x[j]
    BY <1>4, <1>7, <2>3
  <2> QED  BY <1>1, <2>1, <2>2, <2>3
<1>8. Lost' \subseteq Lost \cup KnownPts(g)
  BY <1>2, <1>7
<1> QED  BY <1>5, <1>6, <1>8

-----------------------------------------------------------------------------
(* An increasing list above f reaches f plus its length.                   *)
LEMMA IncreasingReach ==
  ASSUME NEW n \in Nat, NEW f \in Nat, NEW s,
         \A i \in 1 .. n : s[i] \in Nat /\ f < s[i],
         \A i, j \in 1 .. n : i < j => s[i] < s[j]
  PROVE  \A i \in 1 .. n : f + i <= s[i]
<1> DEFINE S == {i \in 0 .. n : i = 0 \/ f + i <= s[i]}
<1>1. 0 \in S
  OBVIOUS
<1>2. ASSUME NEW i \in 0 .. n, i < n, i \in S
      PROVE  i + 1 \in S
  <2>1. i + 1 \in 1 .. n
    BY <1>2
  <2>2. s[i + 1] \in Nat /\ f < s[i + 1]
    BY <2>1
  <2>3. CASE i = 0
    BY <2>1, <2>2, <2>3
  <2>4. CASE i # 0
    <3>1. i \in 1 .. n /\ i < i + 1 /\ s[i] \in Nat /\ f + i <= s[i]
      BY <1>2, <2>4
    <3>2. s[i] < s[i + 1]
      BY <2>1, <3>1
    <3>3. f + (i + 1) <= s[i + 1]
      BY <2>2, <3>1, <3>2
    <3> QED  BY <2>1, <3>3
  <2> QED  BY <2>3, <2>4
<1>3. \A i \in 0 .. n : i \in S
  <2> HIDE DEF S
  <2>1. \A k \in 0 .. n : k < n /\ k \in S => k + 1 \in S
    BY <1>2
  <2>2. \A k \in 0 .. n : k \in S
    BY <1>1, <2>1, UpTo
  <2> QED  BY <2>2
<1> QED  BY <1>3

(* What is stored is within its own frame's reach.                         *)
LEMMA OwnCandidate ==
  ASSUME NEW avail, NEW f \in avail, f \in Frame
  PROVE  f \in Candidates(avail, f)
<1>1. f \in Nat /\ MaxDelta \in Nat /\ f # NoPts
  BY JoinerAssumption DEF Frame
<1>2. f <= f /\ f - f <= MaxDelta
  BY <1>1
<1> QED  BY <1>1, <1>2 DEF Candidates

(* The head of the waiting frames leaves: what is remembered then, and     *)
(* which frames are passed.                                                *)
LEMMA Departure ==
  ASSUME TypeOK, FramesKept, LostRemembered, LostPassed, NEW k \in 0 .. Len(pending),
         NEW gone, gone = SubSeq(pending, 1, k)
  PROVE  /\ gone \in Seq(Pending) /\ OwnPts(gone) /\ Len(gone) = k
         /\ \A i \in DOMAIN gone : i \in DOMAIN pending /\ i <= k /\ gone[i] = pending[i]
         /\ Remembered(Tombstones(gone), Lost \cup KnownPts(gone), Arrived)
         /\ Range(Tombstones(gone).order) \subseteq Range(expiredOrder) \cup KnownPts(gone)
         /\ KnownPts(gone) \subseteq FramesOf(pending)
         /\ Lost \subseteq FramesOf(emitted) /\ Lost \in SUBSET Frame
         /\ \A f \in Lost \cup KnownPts(gone), i \in DOMAIN pending :
              i > k => f < pending[i].frame
<1>1. /\ pending \in Seq(Pending) /\ InOrder(pending) /\ OwnPts(pending)
      /\ emitted \in Seq(Captured)
  BY DEF TypeOK, FramesKept
<1>2. Len(pending) \in Nat /\ DOMAIN pending = 1 .. Len(pending) /\ k \in Nat
  BY <1>1, LenProperties
<1>3. /\ gone \in Seq(Pending) /\ InOrder(gone) /\ OwnPts(gone) /\ Len(gone) = k
      /\ \A i \in 1 .. k : gone[i] = pending[i]
  BY <1>1, PrefixSplits
<1>4. DOMAIN gone = 1 .. k
  BY <1>3, LenProperties
<1>5. \A i \in DOMAIN gone : i \in DOMAIN pending /\ i <= k /\ gone[i] = pending[i]
  BY <1>2, <1>3, <1>4
<1>6. Lost \subseteq FramesOf(emitted)
  BY DEF Lost, FramesOf
<1>7. FramesOf(emitted) \subseteq Frame
  <2>1. DOMAIN emitted = 1 .. Len(emitted)
    BY <1>1, LenProperties
  <2>2. \A i \in 1 .. Len(emitted) : emitted[i] \in Captured
    BY <1>1, ElementOfSeq
  <2> QED  BY <2>1, <2>2 DEF FramesOf, Captured
<1>8. \A f \in Lost, i \in DOMAIN gone : f < gone[i].frame
  BY <1>5 DEF LostPassed
<1>9. /\ Remembered(Tombstones(gone), Lost \cup KnownPts(gone), Arrived)
      /\ Range(Tombstones(gone).order) \subseteq Range(expiredOrder) \cup KnownPts(gone)
  <2>1. Lost \in SUBSET Frame
    BY <1>6, <1>7
  <2> QED  BY <1>3, <1>8, <2>1, TombstonesRemember DEF LostRemembered
<1>10. \A i \in DOMAIN gone : gone[i].pts # NoPts => gone[i].pts = gone[i].frame
  BY <1>3 DEF OwnPts
<1>11. KnownPts(gone) \subseteq FramesOf(pending)
  BY <1>5, <1>10 DEF KnownPts, FramesOf
<1>12. ASSUME NEW f \in Lost \cup KnownPts(gone), NEW i \in DOMAIN pending, i > k
       PROVE  f < pending[i].frame
  <2>1. CASE f \in Lost
    BY <2>1 DEF LostPassed
  <2>2. CASE f \in KnownPts(gone)
    <3>1. PICK j \in DOMAIN gone : f = gone[j].frame
      BY <1>10, <2>2 DEF KnownPts
    <3>2. f = pending[j].frame /\ j \in DOMAIN pending /\ j < i
      BY <1>2, <1>4, <1>5, <1>12, <3>1
    <3> QED  BY <1>1, <3>2 DEF InOrder
  <2> QED  BY <2>1, <2>2
<1> QED  BY <1>3, <1>5, <1>6, <1>7, <1>9, <1>11, <1>12

-----------------------------------------------------------------------------
(* What a step of the joiner may do: the first k waiting frames leave      *)
(* without metadata, those of extra with some of what is kept.             *)
Leave(k) ==
  LET gone == SubSeq(pending, 1, k)
  IN /\ k \in 0 .. Len(pending)
     /\ expiredOrder' = Tombstones(gone).order
     /\ expired' \subseteq Tombstones(gone).set
     /\ Tombstones(gone).set \ Arrived' \subseteq expired'
     /\ \A j \in DOMAIN pending' :
          \/ \E i \in DOMAIN pending : /\ i > k /\ pending'[j].frame = pending[i].frame
                                       /\ pending'[j].pts = pending[i].pts
          \/ /\ \A f \in decoded : f < pending'[j].frame
             /\ pending'[j].pts # NoPts => pending'[j].frame \notin early'
     /\ \A f \in decoded : f \in early' => f \in early

Keep(kept) ==
  /\ kept \in SUBSET Frame /\ stored' \subseteq kept
  /\ arrivals' \in [Frame -> 0 .. Copies]
  /\ \A f \in Frame : arrivals[f] <= arrivals'[f]
  /\ \A f \in kept :
       /\ arrivals'[f] > 0
       /\ arrivals'[f] = 1 => \/ f \in stored /\ arrivals[f] = 1
                              \/ arrivals[f] = 0 /\ f \notin Range(expiredOrder')

Give(k, extra, kept) ==
  /\ extra \in Seq(Captured)
  /\ \A x \in Range(extra) :
       /\ x.source \in kept \ stored' /\ x.pts # NoPts
       /\ x.source <= x.frame /\ x.frame - x.source <= MaxDelta
       /\ \/ \E i \in DOMAIN pending : i > k /\ x.frame = pending[i].frame
          \/ \A f \in decoded : f < x.frame
       /\ x.frame \in early' => x.source = x.frame
       /\ \A j \in DOMAIN pending' : x.source # pending'[j].pts
  /\ \A a, b \in DOMAIN extra : extra[a].source = extra[b].source => a = b

Call(k, extra, kept) ==
  LET gone == SubSeq(pending, 1, k)
  IN /\ Leave(k) /\ Keep(kept) /\ Give(k, extra, kept)
     /\ emitted' = (emitted \o Unmatched(gone)) \o extra
     /\ \E T : FramesMove(Unmatched(gone) \o extra, T)

(* What the call leaves behind fits.                                       *)
Fits ==
  /\ order \in Seq(Frame) /\ Len(order) <= MaxSamples
  /\ stored \subseteq Range(order)
  /\ Len(pending) <= MaxPending
  /\ early \subseteq decoded
  /\ ended \in BOOLEAN

(* What a call does to the frames that left without their metadata: the    *)
(* tombstones remember them.                                               *)
LEMMA CallLost ==
  ASSUME JoinerInv, NEW k, NEW extra, NEW kept, Call(k, extra, kept),
         NEW gone, gone = SubSeq(pending, 1, k)
  PROVE  /\ Lost' = Lost \cup KnownPts(gone)
         /\ LostRemembered' /\ LostPassed'
         /\ Comes(emitted', emitted, gone, extra)
         /\ \A x \in Range(extra), f \in Lost' : f < x.frame
         /\ \A f \in kept \cap Lost' : arrivals'[f] = 1 => f \notin Range(expiredOrder')
<1>1. /\ TypeOK /\ FramesKept /\ LostRemembered /\ LostPassed /\ StoredKept /\ UsedOnce
      /\ k \in 0 .. Len(pending)
  BY DEF JoinerInv, Call, Leave
<1>2. /\ gone \in Seq(Pending) /\ OwnPts(gone)
      /\ \A i \in DOMAIN gone : i \in DOMAIN pending /\ i <= k /\ gone[i] = pending[i]
      /\ Remembered(Tombstones(gone), Lost \cup KnownPts(gone), Arrived)
      /\ Range(Tombstones(gone).order) \subseteq Range(expiredOrder) \cup KnownPts(gone)
      /\ KnownPts(gone) \subseteq FramesOf(pending)
      /\ Lost \subseteq FramesOf(emitted) /\ Lost \in SUBSET Frame
      /\ \A f \in Lost \cup KnownPts(gone), i \in DOMAIN pending :
           i > k => f < pending[i].frame
  BY <1>1, Departure
<1>3. /\ emitted' = (emitted \o Unmatched(gone)) \o extra
      /\ extra \in Seq(Captured) /\ emitted \in Seq(Captured)
  BY <1>1 DEF Call, Give, TypeOK
<1>4. \A x \in Range(extra) : x.source \in kept /\ x.source # NoSource
  <2>1. kept \in SUBSET Frame /\ NoSource \notin Frame
    BY JoinerAssumption DEF Call, Keep, Frame
  <2>2. \A x \in Range(extra) : x.source \in kept
    BY DEF Call, Give
  <2> QED  BY <2>1, <2>2
<1>5. Lost' = Lost \cup KnownPts(gone)
  BY <1>2, <1>3, <1>4, LostStep
<1>6. Comes(emitted', emitted, gone, extra)
  BY <1>2, <1>3, EmittedCases
<1>7. Arrived \subseteq Arrived'
  <2>1. /\ \A f \in Frame : arrivals[f] <= arrivals'[f]
        /\ \A f \in Frame : arrivals[f] \in Nat /\ arrivals'[f] \in Nat
    BY <1>1, JoinerAssumption DEF Call, Keep, TypeOK
  <2> QED  BY <2>1 DEF Arrived
<1>8. LostRemembered'
  <2>1. /\ expiredOrder' = Tombstones(gone).order
        /\ expired' \subseteq Tombstones(gone).set
        /\ Tombstones(gone).set \ Arrived' \subseteq expired'
    BY DEF Call, Leave
  <2> DEFINE tombs == Tombstones(gone)
             new == [set |-> expired', order |-> expiredOrder']
  <2>2. new.set = expired' /\ new.order = tombs.order
    BY <2>1
  <2>3. Range(tombs.order) \ Arrived \subseteq tombs.set /\ tombs.set \subseteq Range(tombs.order)
    BY <1>2 DEF Remembered
  <2>4. Range(new.order) \ Arrived' \subseteq new.set /\ new.set \subseteq Range(new.order)
    BY <1>7, <2>1, <2>2, <2>3
  <2> HIDE DEF new, tombs
  <2>5. Remembered(new, Lost', Arrived')
    BY <1>2, <1>5, <2>2, <2>4 DEF Remembered, tombs
  <2> QED  BY <2>5 DEF LostRemembered, new
<1>9. Lost' \subseteq decoded
  BY <1>1, <1>2, <1>5 DEF FramesKept
<1>10. LostPassed'
  <2> SUFFICES ASSUME NEW f \in Lost', NEW j \in DOMAIN pending'
               PROVE  f < pending'[j].frame
    BY DEF LostPassed
  <2>1. \/ \E i \in DOMAIN pending : i > k /\ pending'[j].frame = pending[i].frame
        \/ \A g \in decoded : g < pending'[j].frame
    BY DEF Call, Leave
  <2> QED  BY <1>2, <1>5, <1>9, <2>1
<1>11. ASSUME NEW x \in Range(extra), NEW f \in Lost'
       PROVE  f < x.frame
  <2>1. \/ \E i \in DOMAIN pending : i > k /\ x.frame = pending[i].frame
        \/ \A g \in decoded : g < x.frame
    BY DEF Call, Give
  <2> QED  BY <1>2, <1>5, <1>9, <2>1
<1>12. ASSUME NEW f \in kept \cap Lost', arrivals'[f] = 1
       PROVE  f \notin Range(expiredOrder')
  <2>1. \/ f \in stored /\ arrivals[f] = 1
        \/ f \notin Range(expiredOrder')
    BY <1>12 DEF Call, Keep
  <2>2. ASSUME f \in stored, arrivals[f] = 1
        PROVE  f \notin Range(expiredOrder')
    <3>1. f \notin KnownPts(gone)
      <4> SUFFICES ASSUME NEW i \in DOMAIN gone, f = gone[i].pts PROVE FALSE
        BY DEF KnownPts
      <4>1. i \in DOMAIN pending /\ f = pending[i].pts
        BY <1>2
      <4>2. Candidates(stored, f) = {}
        BY <1>1, <4>1 DEF StoredKept
      <4>3. f \in Frame
        BY <1>1, <2>2 DEF TypeOK
      <4>4. f \in Candidates(stored, f)
        BY <2>2, <4>3, OwnCandidate
      <4> QED  BY <4>2, <4>4
    <3>2. f \in Lost
      BY <1>5, <3>1
    <3>3. f \notin Range(expiredOrder)
      BY <1>1, <2>2, <3>2 DEF UsedOnce
    <3>4. expiredOrder' = Tombstones(gone).order
      BY DEF Call, Leave
    <3> QED  BY <1>2, <3>1, <3>3, <3>4
  <2> QED  BY <2>1, <2>2
<1> QED  BY <1>5, <1>6, <1>8, <1>10, <1>11, <1>12

(* A call uses metadata once, and joins every frame metadata came for early. *)
LEMMA CallUses ==
  ASSUME JoinerInv, NEW k, NEW extra, NEW kept, Call(k, extra, kept)
  PROVE  FramesKept' /\ FewOvertaken' /\ UsedOnce' /\ EarlyJoined'
<1> DEFINE gone == SubSeq(pending, 1, k)
<1>1. /\ TypeOK /\ FramesKept /\ FewOvertaken /\ LostRemembered /\ LostPassed
      /\ UsedOnce /\ EarlyJoined /\ k \in 0 .. Len(pending)
  BY DEF JoinerInv, Call, Leave
<1>2. /\ gone \in Seq(Pending) /\ OwnPts(gone)
      /\ \A i \in DOMAIN gone : i \in DOMAIN pending /\ i <= k /\ gone[i] = pending[i]
  BY <1>1, Departure
<1>3. /\ Lost' = Lost \cup KnownPts(gone)
      /\ Comes(emitted', emitted, gone, extra)
      /\ \A f \in kept \cap Lost' : arrivals'[f] = 1 => f \notin Range(expiredOrder')
  BY CallLost
<1>4. FramesKept' /\ FewOvertaken' /\ emitted' \in Seq(Captured)
  <2>1. PICK T : FramesMove(Unmatched(gone) \o extra, T)
    BY DEF Call
  <2> HIDE DEF gone
  <2> QED  BY <1>1, <2>1, FramesStep
<1> HIDE DEF gone
<1>5. /\ arrivals \in [Frame -> 0 .. Copies] /\ arrivals' \in [Frame -> 0 .. Copies]
      /\ \A f \in Frame : arrivals[f] <= arrivals'[f]
      /\ \A f \in Frame : arrivals[f] \in Nat /\ arrivals'[f] \in Nat
  BY <1>1, JoinerAssumption DEF TypeOK, Call, Keep
<1>6. \A i \in DOMAIN emitted : /\ emitted[i].frame \in Frame /\ emitted[i].frame \in decoded
                                /\ emitted[i].source \in Frame \cup {NoSource}
  <2>1. /\ emitted \in Seq(Captured) /\ DOMAIN emitted = 1 .. Len(emitted)
    BY <1>1, LenProperties DEF TypeOK
  <2>2. \A i \in DOMAIN emitted : emitted[i] \in Captured
    BY <2>1, ElementOfSeq
  <2>3. FramesOf(emitted) \subseteq decoded
    BY <1>1 DEF FramesKept
  <2> QED  BY <2>2, <2>3 DEF Captured, FramesOf
<1>7. \A i \in DOMAIN pending : /\ pending[i].frame \in decoded
                                /\ pending[i].pts \in {pending[i].frame, NoPts}
  BY <1>1 DEF FramesKept, FramesOf, OwnPts
<1>8. \A j \in DOMAIN pending' :
        \/ \E i \in DOMAIN pending : /\ pending'[j].frame = pending[i].frame
                                     /\ pending'[j].pts = pending[i].pts
        \/ /\ \A f \in decoded : f < pending'[j].frame
           /\ pending'[j].pts # NoPts => pending'[j].frame \notin early'
  BY DEF Call, Leave
<1>9. /\ \A x \in Range(extra) :
           /\ x.source \in kept \ stored' /\ x.source <= x.frame
           /\ x.frame \in early' => x.source = x.frame
           /\ \A j \in DOMAIN pending' : x.source # pending'[j].pts
      /\ kept \in SUBSET Frame /\ stored' \subseteq kept
      /\ \A f \in kept : arrivals'[f] > 0
      /\ \A f \in kept : arrivals'[f] = 1 => \/ f \in stored /\ arrivals[f] = 1
                                             \/ arrivals[f] = 0
      /\ \A f \in decoded : f \in early' => f \in early
  BY DEF Call, Give, Keep, Leave
<1>10. ASSUME NEW i \in DOMAIN emitted', emitted'[i].source # NoSource
       PROVE  /\ emitted'[i].source <= emitted'[i].frame
              /\ arrivals'[emitted'[i].source] > 0
              /\ arrivals'[emitted'[i].source] = 1 => emitted'[i].source \notin stored'
              /\ \A j \in DOMAIN pending' :
                   arrivals'[emitted'[i].source] = 1 => emitted'[i].source # pending'[j].pts
  <2> DEFINE s == emitted'[i].source
  <2>1. CASE i \in DOMAIN emitted /\ emitted'[i] = emitted[i]
    <3>1. s = emitted[i].source /\ s \in Frame
      BY <1>6, <1>10, <2>1
    <3>2. /\ s <= emitted[i].frame /\ arrivals[s] > 0
          /\ arrivals[s] = 1 => s \notin stored
          /\ \A j \in DOMAIN pending : arrivals[s] = 1 => s # pending[j].pts
      BY <1>1, <1>10, <2>1, <3>1 DEF UsedOnce
    <3>3. arrivals'[s] > 0 /\ (arrivals'[s] = 1 => arrivals[s] = 1)
      BY <1>5, <3>1, <3>2
    <3>4. arrivals'[s] = 1 => s \notin stored'
      <4> SUFFICES ASSUME arrivals'[s] = 1, s \in stored' PROVE FALSE
        OBVIOUS
      <4>1. arrivals[s] = 1 /\ s \notin stored
        BY <3>2, <3>3
      <4>2. s \in stored \/ arrivals[s] = 0
        BY <1>9
      <4> QED  BY <4>1, <4>2
    <3>5. ASSUME NEW j \in DOMAIN pending', arrivals'[s] = 1, s = pending'[j].pts
          PROVE  FALSE
      <4>1. CASE \E l \in DOMAIN pending : pending'[j].pts = pending[l].pts
        BY <3>2, <3>3, <3>5, <4>1
      <4>2. CASE \A f \in decoded : f < pending'[j].frame
        <5>1. pending'[j].pts \in {pending'[j].frame, NoPts}
          BY <1>4 DEF FramesKept, OwnPts
        <5>2. s # NoPts /\ s \in Nat /\ emitted[i].frame \in Nat
          BY <1>6, <2>1, <3>1, JoinerAssumption DEF Frame
        <5>3. emitted[i].frame < pending'[j].frame
          BY <1>6, <2>1, <4>2
        <5>4. s = pending'[j].frame
          BY <3>5, <5>1, <5>2
        <5> HIDE DEF s
        <5> QED  BY <3>2, <5>2, <5>3, <5>4
      <4> QED  BY <1>8, <4>1, <4>2
    <3> QED  BY <2>1, <3>2, <3>3, <3>4, <3>5
  <2>2. CASE \E j \in DOMAIN gone : emitted'[i] = Build(gone[j], NoSource)
    BY <1>10, <2>2 DEF Build
  <2>3. CASE \E j \in DOMAIN extra : emitted'[i] = extra[j]
    <3>1. emitted'[i] \in Range(extra)
      BY <2>3 DEF Range
    <3>2. s \in kept \ stored' /\ s <= emitted'[i].frame
          /\ \A j \in DOMAIN pending' : s # pending'[j].pts
      BY <1>9, <3>1
    <3> QED  BY <1>9, <3>2
  <2> QED  BY <1>3, <2>1, <2>2, <2>3 DEF Comes
<1>11. ASSUME NEW f \in Lost', arrivals'[f] = 1, f \in stored'
       PROVE  f \notin Range(expiredOrder')
  BY <1>3, <1>9, <1>11
<1>12. UsedOnce'
  BY <1>10, <1>11 DEF UsedOnce
<1>13. ASSUME NEW j \in DOMAIN pending', pending'[j].pts # NoPts
       PROVE  pending'[j].frame \notin early'
  <2>1. CASE \E i \in DOMAIN pending : /\ pending'[j].frame = pending[i].frame
                                       /\ pending'[j].pts = pending[i].pts
    <3>1. PICK i \in DOMAIN pending : /\ pending'[j].frame = pending[i].frame
                                      /\ pending'[j].pts = pending[i].pts
      BY <2>1
    <3>2. pending[i].frame \notin early /\ pending[i].frame \in decoded
      BY <1>1, <1>7, <1>13, <3>1 DEF EarlyJoined
    <3> QED  BY <1>9, <3>1, <3>2
  <2> QED  BY <1>8, <1>13, <2>1
<1>14. ASSUME NEW i \in DOMAIN emitted', emitted'[i].frame \in early', emitted'[i].pts # NoPts
       PROVE  emitted'[i].source = emitted'[i].frame
  <2>1. CASE i \in DOMAIN emitted /\ emitted'[i] = emitted[i]
    <3>1. emitted[i].frame \in early
      BY <1>6, <1>9, <1>14, <2>1
    <3> QED  BY <1>1, <1>14, <2>1, <3>1 DEF EarlyJoined, EarlyMetadataJoined
  <2>2. CASE \E j \in DOMAIN gone : emitted'[i] = Build(gone[j], NoSource)
    <3>1. PICK j \in DOMAIN gone : emitted'[i] = Build(gone[j], NoSource)
      BY <2>2
    <3>2. /\ emitted'[i].frame = pending[j].frame /\ emitted'[i].pts = pending[j].pts
          /\ j \in DOMAIN pending
      BY <1>2, <3>1 DEF Build
    <3>3. pending[j].frame \notin early /\ pending[j].frame \in decoded
      BY <1>1, <1>7, <1>14, <3>2 DEF EarlyJoined
    <3> QED  BY <1>9, <1>14, <3>2, <3>3
  <2>3. CASE \E j \in DOMAIN extra : emitted'[i] = extra[j]
    BY <1>9, <1>14, <2>3 DEF Range
  <2> QED  BY <1>3, <2>1, <2>2, <2>3 DEF Comes
<1>15. EarlyJoined'
  BY <1>13, <1>14 DEF EarlyJoined, EarlyMetadataJoined
<1> QED  BY <1>4, <1>12, <1>15

(* Nothing is given twice, nor is what a frame was emitted without: when   *)
(* its tombstone has been pushed out, MaxSamples others lie between, and   *)
(* the next frames are out of its reach.                                   *)
LEMMA CallReuse ==
  ASSUME MaxDelta <= MaxSamples, JoinerInv, MetadataUsedOnce,
         NEW k, NEW extra, NEW kept, Call(k, extra, kept)
  PROVE  MetadataUsedOnce'
<1> DEFINE gone == SubSeq(pending, 1, k)
<1>1. /\ TypeOK /\ FramesKept /\ FewOvertaken /\ LostRemembered /\ LostPassed
      /\ UsedOnce /\ k \in 0 .. Len(pending)
  BY DEF JoinerInv, Call, Leave
<1>2. /\ OwnPts(gone)
      /\ \A i \in DOMAIN gone : i \in DOMAIN pending /\ i <= k /\ gone[i] = pending[i]
  BY <1>1, Departure
<1>3. /\ LostRemembered'
      /\ Comes(emitted', emitted, gone, extra)
      /\ \A x \in Range(extra), f \in Lost' : f < x.frame
      /\ \A f \in kept \cap Lost' : arrivals'[f] = 1 => f \notin Range(expiredOrder')
  BY CallLost
<1>4. /\ FramesKept' /\ UsedOnce'
  BY CallUses
<1> HIDE DEF gone
<1>5. /\ \A f \in Frame : arrivals[f] <= arrivals'[f]
      /\ \A f \in Frame : arrivals[f] \in Nat /\ arrivals'[f] \in Nat
  BY <1>1, JoinerAssumption DEF TypeOK, Call, Keep
<1>6. \A i \in DOMAIN emitted : /\ emitted[i].frame \in Frame
                                /\ emitted[i].source \in Frame \cup {NoSource}
  <2>1. /\ emitted \in Seq(Captured) /\ DOMAIN emitted = 1 .. Len(emitted)
    BY <1>1, LenProperties DEF TypeOK
  <2>2. \A i \in DOMAIN emitted : emitted[i] \in Captured
    BY <2>1, ElementOfSeq
  <2> QED  BY <2>2 DEF Captured
<1>7. /\ \A x \in Range(extra) :
           /\ x.source \in kept \ stored' /\ x.source <= x.frame
           /\ x.frame - x.source <= MaxDelta /\ x \in Captured
      /\ \A a, b \in DOMAIN extra : extra[a].source = extra[b].source => a = b
      /\ kept \in SUBSET Frame
      /\ \A f \in kept : arrivals'[f] > 0
      /\ \A f \in kept : arrivals'[f] = 1 => \/ f \in stored /\ arrivals[f] = 1
                                             \/ arrivals[f] = 0
  <2>1. \A x \in Range(extra) : x \in Captured
    <3>1. extra \in Seq(Captured)
      BY DEF Call, Give
    <3>2. DOMAIN extra = 1 .. Len(extra)
      BY <3>1, LenProperties
    <3> QED  BY <3>1, <3>2, ElementOfSeq DEF Range
  <2> QED  BY <2>1 DEF Call, Give, Keep
<1>8. NoSource \notin Frame
  BY JoinerAssumption DEF Frame
<1>9. ASSUME NEW f \in Lost', NEW x \in Range(extra), x.source = f, arrivals'[f] = 1
      PROVE  FALSE
  <2>1. f \notin Range(expiredOrder')
    BY <1>3, <1>7, <1>9
  <2>2. /\ Len(expiredOrder') = MaxSamples
        /\ expiredOrder' \in Seq(Frame)
        /\ \A i \in DOMAIN expiredOrder' : f < expiredOrder'[i]
        /\ \A i, j \in DOMAIN expiredOrder' : i < j => expiredOrder'[i] < expiredOrder'[j]
        /\ Range(expiredOrder') \subseteq Lost'
    BY <1>3, <2>1 DEF LostRemembered, Remembered
  <2>3. DOMAIN expiredOrder' = 1 .. MaxSamples /\ MaxSamples \in Nat \ {0} /\ MaxDelta \in Nat
    BY <2>2, LenProperties, JoinerAssumption
  <2>4. \A i \in 1 .. MaxSamples : expiredOrder'[i] \in Frame
    BY <2>2, ElementOfSeq
  <2>5. f \in Nat /\ \A i \in 1 .. MaxSamples : expiredOrder'[i] \in Nat
    <3>1. f \in Frame
      BY <1>7, <1>9
    <3>2. \A g \in Frame : g \in Nat
      BY DEF Frame
    <3> QED  BY <2>4, <3>1, <3>2
  <2> DEFINE last == expiredOrder'[MaxSamples]
  <2>6. f + MaxSamples <= last
    <3> DEFINE s == expiredOrder'
               n == MaxSamples
    <3>1. /\ n \in Nat /\ n \in 1 .. n /\ f \in Nat
          /\ \A i \in 1 .. n : s[i] \in Nat /\ f < s[i]
          /\ \A i, j \in 1 .. n : i < j => s[i] < s[j]
      <4>1. n \in Nat /\ n \in 1 .. n /\ f \in Nat
        BY <2>3, <2>5
      <4>2. DOMAIN s = 1 .. n
        BY <2>3
      <4> HIDE DEF s
      <4>3. \A i \in 1 .. n : s[i] \in Nat /\ f < s[i]
        BY <2>2, <2>5, <4>2 DEF s
      <4>4. \A i, j \in 1 .. n : i < j => s[i] < s[j]
        BY <2>2, <4>2 DEF s
      <4> QED  BY <4>1, <4>3, <4>4
    <3> HIDE DEF s, n
    <3>2. \A i \in 1 .. n : f + i <= s[i]
      BY <3>1, IncreasingReach
    <3>3. f + n <= s[n]
      BY <3>1, <3>2
    <3> QED  BY <3>3 DEF s, n
  <2>7. last \in Lost' /\ last \in Nat
    BY <2>2, <2>3, <2>5 DEF Range
  <2>8. last < x.frame /\ x.frame - f <= MaxDelta /\ x.frame \in Nat
    BY <1>3, <1>7, <1>9, <2>7 DEF Captured, Frame
  <2> HIDE DEF last
  <2> QED  BY <2>3, <2>5, <2>6, <2>7, <2>8
<1>10. \A i \in DOMAIN emitted' :
         \/ i \in DOMAIN emitted /\ emitted'[i] = emitted[i]
         \/ /\ i \notin DOMAIN emitted
            /\ \E j \in DOMAIN gone : emitted'[i] = Build(gone[j], NoSource)
         \/ /\ i \notin DOMAIN emitted
            /\ \E j \in DOMAIN extra :
                 i = (Len(emitted) + Len(gone)) + j /\ emitted'[i] = extra[j]
  BY <1>3 DEF Comes
<1>11. ASSUME NEW i \in DOMAIN emitted', NEW j \in DOMAIN emitted',
              emitted'[i].source = NoSource, emitted'[i].pts # NoPts,
              emitted'[j].source = emitted'[i].frame
       PROVE  arrivals'[emitted'[i].frame] > 1
  <2> DEFINE f == emitted'[i].frame
  <2>1. f \in Lost'
    BY <1>11 DEF Lost
  <2>2. f \in Frame
    <3>1. FramesOf(emitted') \subseteq Frame
      <4>1. decoded' \subseteq Frame
        <5>1. PICK T : T \in SUBSET Frame /\ decoded' = decoded \cup T
          BY DEF Call, FramesMove
        <5> QED  BY <1>1, <5>1 DEF TypeOK
      <4> QED  BY <1>4, <4>1 DEF FramesKept
    <3> QED  BY <3>1 DEF FramesOf
  <2>3. arrivals'[f] > 0
    <3>1. emitted'[j].source # NoSource
      BY <1>8, <1>11, <2>2
    <3> QED  BY <1>4, <1>11, <3>1 DEF UsedOnce
  <2>4. CASE j \in DOMAIN emitted /\ emitted'[j] = emitted[j]
    <3>1. CASE i \in DOMAIN emitted /\ emitted'[i] = emitted[i]
      <4>1. arrivals[f] > 1
        BY <1>1, <1>11, <2>4, <3>1 DEF MetadataUsedOnce
      <4> QED  BY <1>5, <2>2, <4>1
    <3>2. CASE \E l \in DOMAIN gone : emitted'[i] = Build(gone[l], NoSource)
      <4>1. PICK l \in DOMAIN gone : emitted'[i] = Build(gone[l], NoSource)
        BY <3>2
      <4>2. f = pending[l].pts /\ l \in DOMAIN pending
        <5>1. gone[l].pts \in {gone[l].frame, NoPts}
          BY <1>2 DEF OwnPts
        <5> QED  BY <1>2, <1>11, <4>1, <5>1 DEF Build
      <4>3. emitted[j].source = f /\ f # NoSource
        BY <1>8, <1>11, <2>2, <2>4
      <4>4. arrivals[f] > 0 /\ arrivals[f] # 1
        BY <1>1, <2>4, <4>2, <4>3 DEF UsedOnce
      <4>5. arrivals'[f] > 1
        <5> HIDE DEF f
        <5> QED  BY <1>5, <2>2, <4>4
      <4> QED  BY <4>5
    <3>3. CASE \E l \in DOMAIN extra : emitted'[i] = extra[l]
      BY <1>7, <1>8, <1>11, <3>3 DEF Range
    <3> QED  BY <1>10, <3>1, <3>2, <3>3
  <2>5. CASE \E l \in DOMAIN gone : emitted'[j] = Build(gone[l], NoSource)
    BY <1>8, <1>11, <2>2, <2>5 DEF Build
  <2>6. CASE \E l \in DOMAIN extra : emitted'[j] = extra[l]
    <3>1. emitted'[j] \in Range(extra) /\ emitted'[j].source = f
      BY <1>11, <2>6 DEF Range
    <3>2. arrivals'[f] # 1
      BY <1>9, <2>1, <3>1
    <3>3. arrivals'[f] > 1
      <4> HIDE DEF f
      <4> QED  BY <1>5, <2>2, <2>3, <3>2
    <3> QED  BY <3>3
  <2> QED  BY <1>10, <2>4, <2>5, <2>6
<1>12. ASSUME NEW i \in DOMAIN emitted, NEW j \in DOMAIN extra, emitted[i].source = extra[j].source
       PROVE  arrivals'[extra[j].source] > 1
  <2> DEFINE s == extra[j].source
  <2>1. s \in kept /\ s \in Frame /\ s # NoSource
    BY <1>7, <1>8 DEF Range
  <2>2. arrivals[s] > 0 /\ (arrivals[s] = 1 => s \notin stored)
    BY <1>1, <1>12, <2>1 DEF UsedOnce
  <2>3. arrivals'[s] > 0 /\ arrivals'[s] # 1
    <3> HIDE DEF s
    <3>1. arrivals'[s] = 1 => \/ s \in stored /\ arrivals[s] = 1
                              \/ arrivals[s] = 0
      BY <1>7, <2>1
    <3>2. arrivals[s] # 0
      BY <2>2
    <3> QED  BY <1>7, <2>1, <2>2, <3>1, <3>2
  <2> HIDE DEF s
  <2>4. arrivals'[s] > 1
    BY <1>5, <2>1, <2>3
  <2> QED  BY <2>4 DEF s
<1>13. ASSUME NEW i \in DOMAIN emitted', NEW j \in DOMAIN emitted',
              emitted'[i].source = emitted'[j].source, emitted'[i].source # NoSource, i # j
       PROVE  arrivals'[emitted'[i].source] > 1
  <2> DEFINE Old(l) == l \in DOMAIN emitted /\ emitted'[l] = emitted[l]
             New(l) == \E m \in DOMAIN extra :
                         l = (Len(emitted) + Len(gone)) + m /\ emitted'[l] = extra[m]
  <2>1. \A l \in {i, j} : Old(l) \/ New(l)
    BY <1>10, <1>13 DEF Build
  <2>2. CASE Old(i) /\ Old(j)
    <3>1. arrivals[emitted[i].source] > 1 /\ emitted[i].source \in Frame
      BY <1>6, <1>13, <2>2 DEF MetadataUsedOnce
    <3>2. arrivals'[emitted[i].source] > 1
      BY <1>5, <3>1
    <3> QED  BY <2>2, <3>2
  <2>3. CASE Old(i) /\ New(j)
    BY <1>12, <1>13, <2>3
  <2>4. CASE New(i) /\ Old(j)
    BY <1>12, <1>13, <2>4
  <2>5. CASE New(i) /\ New(j)
    BY <1>7, <1>13, <2>5
  <2> QED  BY <2>1, <2>2, <2>3, <2>4, <2>5
<1> QED  BY <1>11, <1>13 DEF MetadataUsedOnce

-----------------------------------------------------------------------------
(* Frame number and pts decide what a sequence of waiting frames holds.    *)
LEMMA SameFrames ==
  ASSUME NEW s \in Seq(Pending), NEW t \in Seq(Pending), Len(s) = Len(t),
         \A i \in 1 .. Len(s) : s[i].frame = t[i].frame /\ s[i].pts = t[i].pts
  PROVE  /\ FramesOf(s) = FramesOf(t)
         /\ InOrder(t) => InOrder(s)
         /\ OwnPts(t) => OwnPts(s)
         /\ DOMAIN s = DOMAIN t
<1>1. DOMAIN s = 1 .. Len(s) /\ DOMAIN t = 1 .. Len(s)
  BY LenProperties
<1> QED  BY <1>1 DEF FramesOf, InOrder, OwnPts

(* Nothing waits longer than the frames that leave, and no metadata is     *)
(* given: the deadlines passed, or the stream has ended.                   *)
LEMMA PlainCall ==
  ASSUME JoinerInv, NEW k \in 0 .. Len(pending),
         NEW gone, gone = SubSeq(pending, 1, k),
         NEW rest, rest = SubSeq(pending, k + 1, Len(pending)),
         stored' = stored, order' = order, decoded' = decoded, early' = early,
         ended' \in BOOLEAN,
         emitted' = emitted \o Unmatched(gone),
         expiredOrder' = Tombstones(gone).order,
         expired' \subseteq Tombstones(gone).set,
         Tombstones(gone).set \ Arrived' \subseteq expired',
         arrivals' \in [Frame -> 0 .. Copies],
         \A f \in Frame : arrivals[f] <= arrivals'[f],
         pending' \in Seq(Pending), Len(pending') = Len(rest),
         \A i \in 1 .. Len(rest) : /\ pending'[i].frame = rest[i].frame
                                   /\ pending'[i].pts = rest[i].pts
  PROVE  StoredKept' /\ Fits' /\ Call(k, <<>>, stored)
<1>1. TypeOK /\ FramesKept /\ StoredKept /\ UsedOnce /\ LostRemembered /\ LostPassed
  BY DEF JoinerInv
<1>2. /\ pending \in Seq(Pending) /\ InOrder(pending) /\ OwnPts(pending)
      /\ emitted \in Seq(Captured) /\ stored \subseteq Frame
      /\ Len(pending) <= MaxPending /\ arrivals \in [Frame -> 0 .. Copies]
  BY <1>1 DEF TypeOK, FramesKept
<1>3. /\ Len(pending) \in Nat /\ DOMAIN pending = 1 .. Len(pending) /\ k \in Nat
      /\ k <= Len(pending)
  BY <1>2, LenProperties
<1>4. /\ Splits(FramesOf(pending), Len(pending), Unmatched(gone), rest)
      /\ Len(rest) = Len(pending) - k
      /\ \A i \in 1 .. Len(rest) : rest[i] = pending[k + i]
      /\ gone \in Seq(Pending)
  BY <1>2, PrefixSplits
<1>5. rest \in Seq(Pending) /\ Unmatched(gone) \in Seq(Captured)
  BY <1>4 DEF Splits
<1>6. /\ FramesOf(pending') = FramesOf(rest)
      /\ InOrder(rest) => InOrder(pending')
      /\ OwnPts(rest) => OwnPts(pending')
      /\ DOMAIN pending' = DOMAIN rest
  <2>1. \A i \in 1 .. Len(pending') : /\ pending'[i].frame = rest[i].frame
                                       /\ pending'[i].pts = rest[i].pts
    OBVIOUS
  <2>2. pending' \in Seq(Pending) /\ Len(pending') = Len(rest)
    OBVIOUS
  <2> DEFINE p == pending'
  <2> HIDE DEF p
  <2>3. /\ p \in Seq(Pending) /\ Len(p) = Len(rest)
        /\ \A i \in 1 .. Len(p) : p[i].frame = rest[i].frame /\ p[i].pts = rest[i].pts
    BY <2>1, <2>2 DEF p
  <2>4. /\ FramesOf(p) = FramesOf(rest) /\ (InOrder(rest) => InOrder(p))
        /\ (OwnPts(rest) => OwnPts(p)) /\ DOMAIN p = DOMAIN rest
    BY <1>5, <2>3, SameFrames
  <2> QED  BY <2>4 DEF p
<1>7. Unmatched(gone) \o <<>> = Unmatched(gone)
  BY <1>5, ConcatEmptySeq
<1>8. emitted' = (emitted \o Unmatched(gone)) \o <<>>
  <2>1. emitted \o Unmatched(gone) \in Seq(Captured)
    BY <1>2, <1>5, ConcatProperties
  <2> QED  BY <2>1, ConcatEmptySeq
<1>9. FramesMove(Unmatched(gone) \o <<>>, {})
  <2>1. FramesOf(pending) \cup {} = FramesOf(pending) /\ Len(pending) + Cardinality({}) = Len(pending)
    <3>1. Cardinality({}) = 0
      BY FS_EmptySet
    <3> DEFINE p == Len(pending)
               c == Cardinality({})
    <3> HIDE DEF p, c
    <3>2. p \in Nat /\ c = 0
      BY <1>3, <3>1 DEF p, c
    <3>3. p + c = p
      BY <3>2
    <3> QED  BY <3>3 DEF p, c
  <2>2. Splits(FramesOf(pending), Len(pending), Unmatched(gone), pending')
    BY <1>4, <1>6 DEF Splits
  <2> QED  BY <1>7, <2>1, <2>2 DEF FramesMove
<1>10. ASSUME NEW j \in DOMAIN pending'
       PROVE  \E i \in DOMAIN pending : /\ i > k /\ pending'[j].frame = pending[i].frame
                                        /\ pending'[j].pts = pending[i].pts
  <2>1. j \in 1 .. Len(rest)
    BY <1>5, <1>6, LenProperties
  <2>2. k + j \in DOMAIN pending /\ k + j > k
    <3> DEFINE p == Len(pending)
               r == Len(rest)
    <3> HIDE DEF p, r
    <3>1. p \in Nat /\ k \in Nat /\ r = p - k /\ j \in 1 .. r /\ DOMAIN pending = 1 .. p
      BY <1>3, <1>4, <2>1 DEF p, r
    <3>2. k + j \in 1 .. p /\ k + j > k
      BY <3>1, Beyond, Zenon
    <3> QED  BY <3>1, <3>2, Zenon
  <2>3. rest[j] = pending[k + j]
    BY <1>4, <2>1
  <2>4. pending'[j].frame = rest[j].frame /\ pending'[j].pts = rest[j].pts
    BY <1>4, <2>1
  <2> QED  BY <2>2, <2>3, <2>4
<1>11. Leave(k)
  BY <1>10 DEF Leave
<1>12. \A f \in Frame : arrivals[f] \in Nat /\ arrivals'[f] \in Nat
  BY <1>2, JoinerAssumption
<1>13. \A f \in stored : arrivals[f] > 0 /\ f \in Frame
  BY <1>1, <1>2 DEF StoredKept, TypeOK, Arrived
<1>14. Keep(stored)
  <2> SUFFICES ASSUME NEW f \in stored
               PROVE  arrivals'[f] > 0 /\ (arrivals'[f] = 1 => arrivals[f] = 1)
    BY <1>2 DEF Keep
  <2> QED  BY <1>12, <1>13
<1>15. Give(k, <<>>, stored)
  <2>1. <<>> \in Seq(Captured) /\ DOMAIN <<>> = {}
    OBVIOUS
  <2> QED  BY <2>1 DEF Give, Range
<1>16. Call(k, <<>>, stored)
  BY <1>8, <1>9, <1>11, <1>14, <1>15 DEF Call
<1>17. StoredKept'
  <2>1. Arrived \subseteq Arrived'
    BY <1>12 DEF Arrived
  <2>2. \A i, j \in DOMAIN order : order[i] = order[j] /\ i # j => arrivals'[order[i]] > 1
    <3>1. \A i \in DOMAIN order : order[i] \in Frame
      BY <1>1 DEF StoredKept, Range, Arrived
    <3> QED  BY <1>1, <1>12, <3>1 DEF StoredKept
  <2>3. ASSUME NEW n \in Range(order), \A f \in decoded : f < n, arrivals'[n] = 1
        PROVE  n \in stored
    <3>1. n \in Frame /\ arrivals[n] > 0
      BY <1>1 DEF StoredKept, Arrived
    <3>2. arrivals[n] = 1
      BY <1>12, <2>3, <3>1
    <3> QED  BY <1>1, <2>3, <3>2 DEF StoredKept
  <2>4. \A j \in DOMAIN pending' : Candidates(stored, pending'[j].pts) = {}
    BY <1>1, <1>10 DEF StoredKept
  <2>5. Range(order) \subseteq Arrived'
    BY <1>1, <2>1 DEF StoredKept
  <2> QED  BY <2>2, <2>3, <2>4, <2>5 DEF StoredKept, Candidates
<1>18. Len(pending') <= MaxPending
  <2> DEFINE p == Len(pending)
  <2> HIDE DEF p
  <2>1. /\ p \in Nat /\ k \in Nat /\ Len(pending') = p - k /\ p <= MaxPending
        /\ MaxPending \in Nat
    BY <1>2, <1>3, <1>4, JoinerAssumption DEF p
  <2> QED  BY <2>1
<1> QED  BY <1>1, <1>16, <1>17, <1>18 DEF Fits, TypeOK

(* Nothing leaves: time passes, or the joiner is left alone.               *)
LEMMA StillCall ==
  ASSUME JoinerInv,
         UNCHANGED <<stored, order, expired, expiredOrder, emitted, arrivals, decoded,
                     early, ended>>,
         pending' \in Seq(Pending), Len(pending') = Len(pending),
         \A i \in 1 .. Len(pending) : /\ pending'[i].frame = pending[i].frame
                                      /\ pending'[i].pts = pending[i].pts
  PROVE  StoredKept' /\ Fits' /\ Call(0, <<>>, stored)
<1> DEFINE gone == SubSeq(pending, 1, 0)
           rest == SubSeq(pending, 0 + 1, Len(pending))
<1>1. /\ pending \in Seq(Pending) /\ emitted \in Seq(Captured) /\ ended \in BOOLEAN
      /\ InOrder(pending) /\ OwnPts(pending) /\ arrivals \in [Frame -> 0 .. Copies]
  BY DEF JoinerInv, TypeOK, FramesKept
<1>2. gone = <<>> /\ rest = pending
  <2>1. SubSeq(pending, 1, 0) = <<>>
    BY SubSeqEmpty
  <2>2. SubSeq(pending, 1, Len(pending)) = pending
    BY <1>1, SubSeqFull
  <2> QED  BY <2>1, <2>2
<1>3. Len(pending) \in Nat /\ 0 \in 0 .. Len(pending) /\ Len(<<>>) = 0
  BY <1>1, LenProperties
<1> HIDE DEF gone, rest
<1>4. Unmatched(gone) = <<>>
  <2>1. DOMAIN <<>> = {}
    OBVIOUS
  <2>2. Unmatched(gone) = [i \in {} |-> Build(gone[i], NoSource)]
    BY <1>2, <2>1 DEF Unmatched
  <2>3. Unmatched(gone) \in [1 .. 0 -> Captured]
    BY <2>2
  <2>4. Unmatched(gone) \in Seq(Captured) /\ Len(Unmatched(gone)) = 0
    <3> HIDE DEF gone
    <3> QED  BY <2>2, <2>3
  <2> QED  BY <2>4, EmptySeq
<1>5. emitted' = emitted \o Unmatched(gone)
  BY <1>1, <1>4, ConcatEmptySeq
<1>6. Tombstones(gone) = [set |-> expired, order |-> expiredOrder]
  <2>1. \E tombs : /\ tombs[0] = [set |-> expired, order |-> expiredOrder]
                   /\ Tombstones(gone) = tombs[0]
    BY <1>2, <1>3, TombstonesChain
  <2> QED  BY <2>1
<1>7. expiredOrder' = Tombstones(gone).order /\ expired' = Tombstones(gone).set
  BY <1>6
<1>8. \A f \in Frame : arrivals[f] <= arrivals'[f]
  <2>1. \A f \in Frame : arrivals[f] \in Nat
    BY <1>1, JoinerAssumption
  <2> QED  BY <2>1
<1>9. Len(pending') = Len(rest) /\ \A i \in 1 .. Len(rest) : /\ pending'[i].frame = rest[i].frame
                                                             /\ pending'[i].pts = rest[i].pts
  BY <1>2
<1>10. StoredKept' /\ Fits' /\ Call(0, <<>>, stored)
  BY <1>1, <1>3, <1>5, <1>7, <1>8, <1>9, PlainCall DEF gone, rest
<1> QED  BY <1>10

-----------------------------------------------------------------------------
(* One more arrival.                                                       *)
LEMMA OneArrival ==
  ASSUME arrivals \in [Frame -> 0 .. Copies], NEW m \in Frame, arrivals[m] < Copies,
         arrivals' = [arrivals EXCEPT ![m] = @ + 1]
  PROVE  /\ arrivals' \in [Frame -> 0 .. Copies]
         /\ \A f \in Frame : arrivals[f] \in Nat /\ arrivals'[f] \in Nat
         /\ \A f \in Frame : arrivals[f] <= arrivals'[f]
         /\ \A f \in Frame : f # m => arrivals'[f] = arrivals[f]
         /\ arrivals'[m] = arrivals[m] + 1
<1>1. Copies \in Nat
  BY JoinerAssumption
<1>2. arrivals[m] \in 0 .. Copies /\ arrivals[m] + 1 \in 0 .. Copies
  BY <1>1
<1>3. arrivals' \in [Frame -> 0 .. Copies]
  BY <1>2
<1>4. /\ \A f \in Frame : f # m => arrivals'[f] = arrivals[f]
      /\ arrivals'[m] = arrivals[m] + 1
  OBVIOUS
<1>5. \A f \in Frame : arrivals[f] \in Nat /\ arrivals'[f] \in Nat
  BY <1>1, <1>3
<1>6. \A f \in Frame : arrivals[f] <= arrivals'[f]
  BY <1>4, <1>5
<1> QED  BY <1>3, <1>4, <1>5, <1>6

(* _frame_order after one more arrival.                                    *)
NewOrder(m) ==
  LET grown == Append(order, m)
  IN IF Len(grown) > MaxSamples THEN Tail(grown) ELSE grown

Kept(m) ==
  LET grown == Append(order, m)
  IN (stored \cup {m}) \ (IF Len(grown) > MaxSamples THEN {Head(grown)} ELSE {})

OrderKept(new, kept) ==
  /\ new \in Seq(Frame) /\ Len(new) <= MaxSamples
  /\ Range(new) \subseteq Arrived' /\ kept \subseteq Range(new)
  /\ \A i, j \in DOMAIN new : new[i] = new[j] /\ i # j => arrivals'[new[i]] > 1
  /\ \A n \in Range(new) :
       (\A f \in decoded : f < n) /\ arrivals'[n] = 1 => n \in kept

(* The store evicts its oldest sample and keeps the first copies of the    *)
(* metadata of the frames to come.                                         *)
LEMMA OrderStep ==
  ASSUME JoinerInv, NEW m \in Frame, arrivals[m] < Copies,
         arrivals' = [arrivals EXCEPT ![m] = @ + 1]
  PROVE  OrderKept(NewOrder(m), Kept(m))
<1> DEFINE grown == Append(order, m)
           new == NewOrder(m)
           kept == Kept(m)
<1>1. /\ order \in Seq(Frame) /\ Len(order) <= MaxSamples /\ stored \subseteq Range(order)
      /\ arrivals \in [Frame -> 0 .. Copies] /\ MaxSamples \in Nat \ {0}
      /\ Range(order) \subseteq Arrived
      /\ \A i, j \in DOMAIN order : order[i] = order[j] /\ i # j => arrivals[order[i]] > 1
      /\ \A n \in Range(order) :
           (\A f \in decoded : f < n) /\ arrivals[n] = 1 => n \in stored
  BY JoinerAssumption DEF JoinerInv, TypeOK, StoredKept
<1> DEFINE l == Len(order)
<1>2. /\ l \in Nat /\ DOMAIN order = 1 .. l
      /\ \A i \in 1 .. l : order[i] \in Frame /\ order[i] \in Arrived
  <2>1. l \in Nat /\ DOMAIN order = 1 .. l
    BY <1>1, LenProperties
  <2>2. \A i \in 1 .. l : order[i] \in Range(order)
    BY <2>1 DEF Range
  <2> QED  BY <1>1, <2>1, <2>2 DEF Arrived
<1>3. /\ grown \in Seq(Frame) /\ Len(grown) = l + 1
      /\ \A i \in 1 .. l : grown[i] = order[i]
      /\ grown[l + 1] = m
  BY <1>1, <1>2
<1>4. /\ Range(grown) = Range(order) \cup {m}
      /\ DOMAIN grown = 1 .. (l + 1)
  BY <1>1, <1>3, AppendRange, LenProperties
<1>5. /\ \A f \in Frame : arrivals[f] \in Nat /\ arrivals'[f] \in Nat
      /\ \A f \in Frame : arrivals[f] <= arrivals'[f]
      /\ \A f \in Frame : f # m => arrivals'[f] = arrivals[f]
      /\ arrivals'[m] = arrivals[m] + 1
  BY <1>1, OneArrival
<1>6. Arrived \cup {m} \subseteq Arrived'
  <2>1. m \in Arrived'
    BY <1>5 DEF Arrived
  <2>2. ASSUME NEW f \in Arrived
        PROVE  f \in Arrived'
    BY <1>5 DEF Arrived
  <2> QED  BY <2>1, <2>2
<1> HIDE DEF l, grown, new, kept
<1>7. ASSUME NEW i \in 1 .. (l + 1), NEW j \in 1 .. (l + 1), grown[i] = grown[j], i # j
      PROVE  arrivals'[grown[i]] > 1
  <2>1. i \in 1 .. l \/ j \in 1 .. l
    BY <1>2, <1>7
  <2>2. CASE i \in 1 .. l /\ j \in 1 .. l
    <3>1. grown[i] = order[i] /\ grown[j] = order[j] /\ order[i] \in Frame
      BY <1>2, <1>3, <2>2
    <3>2. arrivals[order[i]] > 1
      BY <1>1, <1>2, <1>7, <2>2, <3>1
    <3> QED  BY <1>5, <3>1, <3>2
  <2>3. CASE i \notin 1 .. l \/ j \notin 1 .. l
    <3>1. grown[i] = m
      BY <1>2, <1>3, <1>7, <2>3
    <3>2. m \in Arrived
      BY <1>2, <1>3, <1>7, <2>1, <3>1
    <3>3. arrivals[m] > 0
      BY <3>2 DEF Arrived
    <3>4. arrivals'[m] > 1
      BY <1>5, <3>3
    <3> QED  BY <3>1, <3>4
  <2> QED  BY <2>2, <2>3
<1>8. ASSUME NEW n \in Range(grown), \A f \in decoded : f < n, arrivals'[n] = 1
      PROVE  n \in stored \cup {m}
  <2> SUFFICES ASSUME n # m PROVE n \in stored
    OBVIOUS
  <2>1. n \in Range(order) /\ n \in Frame
    BY <1>1, <1>4 DEF Arrived
  <2> QED  BY <1>1, <1>5, <1>8, <2>1
<1>9. CASE Len(grown) > MaxSamples
  <2>1. /\ new = Tail(grown) /\ kept = (stored \cup {m}) \ {Head(grown)}
    BY <1>9 DEF NewOrder, Kept, grown, new, kept
  <2>2. grown # <<>> /\ l + 1 > MaxSamples /\ l = MaxSamples
    <3>1. /\ l \in Nat /\ MaxSamples \in Nat /\ l <= MaxSamples /\ Len(grown) = l + 1
          /\ l + 1 > MaxSamples
      BY <1>1, <1>2, <1>3, <1>9 DEF l
    <3>2. l = MaxSamples /\ l + 1 # 0
      BY <3>1
    <3>3. grown # <<>>
      BY <3>1, <3>2, EmptySeq
    <3> QED  BY <3>1, <3>2, <3>3
  <2>3. /\ Head(grown) = grown[1] /\ new \in Seq(Frame) /\ Len(new) = l
        /\ DOMAIN new = 1 .. l /\ \A i \in 1 .. l : new[i] = grown[i + 1]
    <3>1. /\ Tail(grown) \in Seq(Frame) /\ Len(Tail(grown)) = Len(grown) - 1
          /\ \A i \in 1 .. Len(Tail(grown)) : Tail(grown)[i] = grown[i + 1]
      BY <1>3, <2>2, HeadTailProperties
    <3>2. Len(grown) - 1 = l
      BY <1>2, <1>3
    <3>3. Head(grown) = grown[1]
      OBVIOUS
    <3> QED  BY <2>1, <3>1, <3>2, <3>3, LenProperties
  <2>4. \A i \in 1 .. l : i + 1 \in 1 .. (l + 1)
    BY <1>2
  <2>5. Range(new) \subseteq Range(grown)
    BY <1>4, <2>3, <2>4 DEF Range
  <2>6. ASSUME NEW n \in Range(grown), n # grown[1]
        PROVE  n \in Range(new)
    <3>1. PICK i \in 1 .. (l + 1) : n = grown[i]
      BY <1>4 DEF Range
    <3>2. i - 1 \in 1 .. l /\ (i - 1) + 1 = i
      BY <1>2, <2>6, <3>1
    <3>3. new[i - 1] = n
      BY <2>3, <3>1, <3>2
    <3> QED  BY <2>3, <3>2, <3>3 DEF Range
  <2>7. kept \subseteq Range(new)
    BY <1>1, <1>4, <2>1, <2>3, <2>6
  <2>8. ASSUME NEW i \in 1 .. l, NEW j \in 1 .. l, new[i] = new[j], i # j
        PROVE  arrivals'[new[i]] > 1
    <3>1. i + 1 # j + 1
      <4>1. i \in Nat /\ j \in Nat
        BY <1>2
      <4> QED  BY <2>8, <4>1
    <3>2. new[i] = grown[i + 1] /\ new[j] = grown[j + 1]
      BY <2>3
    <3>3. arrivals'[grown[i + 1]] > 1
      BY <1>7, <2>4, <2>8, <3>1, <3>2
    <3> QED  BY <3>2, <3>3
  <2>9. ASSUME NEW n \in Range(new), \A f \in decoded : f < n, arrivals'[n] = 1
        PROVE  n \in kept
    <3>1. n \in stored \cup {m}
      BY <1>8, <2>5, <2>9
    <3>2. n # grown[1]
      <4> SUFFICES ASSUME n = grown[1] PROVE FALSE
        OBVIOUS
      <4>1. PICK i \in 1 .. l : n = grown[i + 1]
        <5>1. PICK i \in DOMAIN new : n = new[i]
          BY <2>9 DEF Range
        <5> QED  BY <2>3, <5>1
      <4>2. 1 \in 1 .. (l + 1) /\ i + 1 \in 1 .. (l + 1) /\ 1 # i + 1
        BY <1>2, <4>1
      <4>3. arrivals'[grown[1]] > 1
        BY <1>7, <4>1, <4>2
      <4> QED  BY <2>9, <4>3
    <3> QED  BY <2>1, <2>3, <3>1, <3>2
  <2>10. Range(new) \subseteq Arrived'
    BY <1>1, <1>4, <1>6, <2>5
  <2>11. Len(new) <= MaxSamples
    BY <1>1, <2>2, <2>3
  <2>12. \A i, j \in DOMAIN new : new[i] = new[j] /\ i # j => arrivals'[new[i]] > 1
    <3> SUFFICES ASSUME NEW i \in DOMAIN new, NEW j \in DOMAIN new,
                        new[i] = new[j], i # j
                 PROVE  arrivals'[new[i]] > 1
      OBVIOUS
    <3>1. i \in 1 .. l /\ j \in 1 .. l
      BY <2>3
    <3> QED  BY <2>8, <3>1
  <2>13. \A n \in Range(new) :
           (\A f \in decoded : f < n) /\ arrivals'[n] = 1 => n \in kept
    BY <2>9
  <2>14. new \in Seq(Frame)
    BY <2>3
  <2> QED  BY <2>7, <2>10, <2>11, <2>12, <2>13, <2>14 DEF OrderKept, new, kept
<1>10. CASE ~ (Len(grown) > MaxSamples)
  <2>1. new = grown /\ kept = stored \cup {m}
    BY <1>10 DEF NewOrder, Kept, grown, new, kept
  <2>2. Len(grown) <= MaxSamples
    BY <1>1, <1>2, <1>3, <1>10
  <2>3. Range(new) \subseteq Arrived' /\ kept \subseteq Range(new)
    BY <1>1, <1>4, <1>6, <2>1
  <2> QED  BY <1>3, <1>4, <1>7, <1>8, <2>1, <2>2, <2>3 DEF OrderKept, new, kept
<1> QED  BY <1>9, <1>10

-----------------------------------------------------------------------------
(* The metadata of frame m comes too late, or is stored and given.         *)
LEMMA FrameCall ==
  ASSUME JoinerInv, NEW m \in Frame, IngestFrame(m)
  PROVE  StoredKept' /\ Fits' /\ \E k, extra, kept : Call(k, extra, kept)
<1> DEFINE k == Due
           gone == SubSeq(pending, 1, k)
           rest == SubSeq(pending, k + 1, Len(pending))
           tombs == Tombstones(gone)
           kept == Kept(m)
           matched == MatchAll(kept, rest)
           extra == matched.ready
<1>1. TypeOK /\ FramesKept /\ StoredKept /\ UsedOnce /\ LostRemembered /\ LostPassed
      /\ EarlyJoined
  BY DEF JoinerInv
<1>2. /\ pending \in Seq(Pending) /\ InOrder(pending) /\ OwnPts(pending)
      /\ emitted \in Seq(Captured) /\ stored \subseteq Frame
      /\ Len(pending) <= MaxPending /\ arrivals \in [Frame -> 0 .. Copies]
      /\ ended \in BOOLEAN /\ early \subseteq decoded
  BY <1>1 DEF TypeOK, FramesKept
<1>3. k \in 0 .. Len(pending)
  BY <1>2, DueBound
<1>4. /\ Len(pending) \in Nat /\ DOMAIN pending = 1 .. Len(pending) /\ k \in Nat
      /\ k <= Len(pending)
  BY <1>2, <1>3, LenProperties
<1>5. /\ arrivals[m] < Copies /\ arrivals' = [arrivals EXCEPT ![m] = @ + 1]
      /\ expiredOrder' = tombs.order
      /\ decoded' = decoded /\ early' = early /\ ended' = ended
  BY DEF IngestFrame, DueFrames
<1>6. /\ arrivals' \in [Frame -> 0 .. Copies]
      /\ \A f \in Frame : arrivals[f] \in Nat /\ arrivals'[f] \in Nat
      /\ \A f \in Frame : arrivals[f] <= arrivals'[f]
      /\ \A f \in Frame : f # m => arrivals'[f] = arrivals[f]
      /\ arrivals'[m] = arrivals[m] + 1
  BY <1>2, <1>5, OneArrival
<1>7. m \in Arrived'
  BY <1>6 DEF Arrived
<1> HIDE DEF k
<1>8. /\ Splits(FramesOf(pending), Len(pending), Unmatched(gone), rest)
      /\ Len(rest) = Len(pending) - k
      /\ \A i \in 1 .. Len(rest) : rest[i] = pending[k + i]
      /\ \A f \in FramesOf(gone), g \in FramesOf(rest) : f < g
  BY <1>2, <1>3, PrefixSplits
<1>9. rest \in Seq(Pending) /\ Unmatched(gone) \in Seq(Captured) /\ InOrder(rest) /\ OwnPts(rest)
  BY <1>8 DEF Splits
<1>10. \A d \in Range(rest) : \E i \in DOMAIN pending : i > k /\ d = pending[i]
  <2> SUFFICES ASSUME NEW i \in DOMAIN rest
               PROVE  \E j \in DOMAIN pending : j > k /\ rest[i] = pending[j]
    BY DEF Range
  <2>1. i \in 1 .. Len(rest)
    BY <1>9, LenProperties
  <2> DEFINE p == Len(pending)
             r == Len(rest)
  <2> HIDE DEF p, r, rest
  <2>2. p \in Nat /\ k \in Nat /\ r = p - k /\ i \in 1 .. r /\ DOMAIN pending = 1 .. p
    BY <1>4, <1>8, <2>1 DEF p, r
  <2>3. k + i \in DOMAIN pending /\ k + i > k
    BY <2>2
  <2> QED  BY <1>8, <2>1, <2>3
<1>11. CASE m \in tombs.set
  <2>1. /\ expired' = tombs.set \ {m} /\ pending' = rest
        /\ emitted' = emitted \o Unmatched(gone) /\ stored' = stored /\ order' = order
    BY <1>11 DEF IngestFrame, DueFrames, Waiting, k
  <2>2. tombs.set \ Arrived' \subseteq expired' /\ expired' \subseteq tombs.set
    BY <1>7, <2>1
  <2>3. StoredKept' /\ Fits' /\ Call(k, <<>>, stored)
    BY <1>2, <1>3, <1>5, <1>6, <1>9, <2>1, <2>2, PlainCall
  <2> QED  BY <2>3
<1>12. CASE m \notin tombs.set
  <2> DEFINE new == NewOrder(m)
  <2>1. /\ expired' = tombs.set /\ order' = new /\ stored' = matched.avail
        /\ pending' = matched.remaining
        /\ emitted' = (emitted \o Unmatched(gone)) \o extra
    BY <1>12 DEF IngestFrame, DueFrames, Waiting, k, NewOrder, Kept
  <2>2. /\ new \in Seq(Frame) /\ Len(new) <= MaxSamples
        /\ Range(new) \subseteq Arrived' /\ kept \subseteq Range(new)
        /\ \A i, j \in DOMAIN new : new[i] = new[j] /\ i # j => arrivals'[new[i]] > 1
        /\ \A n \in Range(new) :
             (\A f \in decoded : f < n) /\ arrivals'[n] = 1 => n \in kept
    BY <1>5, OrderStep DEF OrderKept
  <2>3. kept \in SUBSET Frame
    BY <1>2 DEF Kept
  <2>4. Matched(matched, kept, rest, Len(rest))
    <3> HIDE DEF kept, rest
    <3> QED  BY <1>9, <2>3, MatchAllMatches
  <2> HIDE DEF matched, new
  <2>5. /\ extra \in Seq(Captured) /\ matched.remaining \in Seq(Pending)
        /\ Range(matched.remaining) \subseteq Range(rest)
        /\ matched.avail \subseteq kept
        /\ \A r \in Range(extra) :
             /\ r.source \in kept \ matched.avail
             /\ r.pts # NoPts /\ r.source <= r.frame /\ r.frame - r.source <= MaxDelta
             /\ \E d \in Range(rest) : r.frame = d.frame /\ r.pts = d.pts
             /\ \A d \in Range(rest) : r.source = d.pts => r.frame = d.frame
        /\ \A a, b \in DOMAIN extra : extra[a].source = extra[b].source => a = b
        /\ \A d \in Range(matched.remaining) : Candidates(matched.avail, d.pts) = {}
        /\ FramesOf(extra) \cap FramesOf(matched.remaining) = {}
    BY <2>4 DEF Matched, Splits
  <2>6. kept \ stored' \subseteq {extra[a].source : a \in DOMAIN extra}
    BY <2>1, <2>4 DEF Matched
  <2>7. Splits(FramesOf(rest), Len(rest), extra, pending')
    <3>1. {rest[i].frame : i \in 1 .. Len(rest)} = FramesOf(rest)
      <4>1. DOMAIN rest = 1 .. Len(rest)
        BY <1>9, LenProperties
      <4> QED  BY <4>1 DEF FramesOf
    <3> QED  BY <2>1, <2>4, <3>1 DEF Matched
  <2> HIDE DEF gone, rest, tombs, kept, extra
  <2>8. FramesMove(Unmatched(gone) \o extra, {})
    <3>1. Splits(FramesOf(pending), Len(pending), Unmatched(gone) \o extra, pending')
      BY <1>8, <2>7, SplitsAgain
    <3>2. FramesOf(pending) \cup {} = FramesOf(pending)
          /\ Len(pending) + Cardinality({}) = Len(pending)
      <4>1. Cardinality({}) = 0
        BY FS_EmptySet
      <4> DEFINE p == Len(pending)
                 c == Cardinality({})
      <4> HIDE DEF p, c
      <4>2. p \in Nat /\ c = 0
        BY <1>4, <4>1 DEF p, c
      <4>3. p + c = p
        BY <4>2
      <4> QED  BY <4>3 DEF p, c
    <3>3. emitted' = emitted \o (Unmatched(gone) \o extra)
      <4> DEFINE u == Unmatched(gone)
      <4> HIDE DEF u
      <4>1. u \in Seq(Captured)
        BY <1>9 DEF u
      <4>2. (emitted \o u) \o extra = emitted \o (u \o extra)
        BY <1>2, <2>5, <4>1, Regroup
      <4> QED  BY <2>1, <4>2 DEF u
    <3> QED  BY <1>5, <3>1, <3>2, <3>3 DEF FramesMove
  <2>9. \A d \in Range(pending') : \E i \in DOMAIN pending : i > k /\ d = pending[i]
    BY <1>10, <2>1, <2>5
  <2>10. Leave(k)
    <3>1. \A j \in DOMAIN pending' :
            \E i \in DOMAIN pending : /\ i > k /\ pending'[j].frame = pending[i].frame
                                      /\ pending'[j].pts = pending[i].pts
      BY <2>9 DEF Range
    <3>2. tombs.set \ Arrived' \subseteq expired' /\ expired' \subseteq tombs.set
      BY <2>1
    <3> QED  BY <1>3, <1>5, <3>1, <3>2 DEF Leave, gone, tombs
  <2>11. m \notin Range(expiredOrder') \/ arrivals[m] > 0
    <3>1. Remembered(tombs, Lost \cup KnownPts(gone), Arrived)
      BY <1>1, <1>3, Departure DEF gone, tombs
    <3>2. Range(tombs.order) \ Arrived \subseteq tombs.set
      BY <3>1 DEF Remembered
    <3> QED  BY <1>5, <1>12, <3>2 DEF Arrived
  <2>12. Keep(kept)
    <3> SUFFICES ASSUME NEW f \in kept
                 PROVE  /\ arrivals'[f] > 0
                        /\ arrivals'[f] = 1 => \/ f \in stored /\ arrivals[f] = 1
                                               \/ arrivals[f] = 0 /\ f \notin Range(expiredOrder')
      BY <1>6, <2>1, <2>3, <2>5 DEF Keep
    <3>1. CASE f = m
      <4>1. arrivals[m] \in Nat /\ arrivals'[m] = arrivals[m] + 1
        BY <1>6
      <4>2. arrivals'[m] > 0 /\ (arrivals'[m] = 1 => arrivals[m] = 0)
        BY <4>1
      <4> QED  BY <2>11, <3>1, <4>2
    <3>2. CASE f # m
      <4>1. f \in stored /\ f \in Frame
        BY <1>2, <3>2 DEF kept, Kept
      <4>2. arrivals[f] > 0
        BY <1>1, <4>1 DEF StoredKept, TypeOK, Arrived
      <4> QED  BY <1>6, <3>2, <4>1, <4>2
    <3> QED  BY <3>1, <3>2
  <2>13. Give(k, extra, kept)
    <3> SUFFICES ASSUME NEW x \in Range(extra)
                 PROVE  /\ \E i \in DOMAIN pending : i > k /\ x.frame = pending[i].frame
                        /\ x.frame \in early' => x.source = x.frame
                        /\ \A j \in DOMAIN pending' : x.source # pending'[j].pts
      BY <2>1, <2>5 DEF Give
    <3>1. PICK d \in Range(rest) : x.frame = d.frame /\ x.pts = d.pts
      BY <2>5
    <3>2. PICK i \in DOMAIN pending : i > k /\ d = pending[i]
      BY <1>10, <3>1
    <3>3. x.frame \notin early'
      BY <1>1, <1>5, <2>5, <3>1, <3>2 DEF EarlyJoined
    <3>4. ASSUME NEW j \in DOMAIN pending', x.source = pending'[j].pts
          PROVE  FALSE
      <4>1. pending'[j] \in Range(rest)
        BY <2>1, <2>5 DEF Range
      <4>2. x.frame = pending'[j].frame
        BY <2>5, <3>4, <4>1
      <4>3. x.frame \in FramesOf(extra)
        BY DEF Range, FramesOf
      <4>4. pending'[j].frame \in FramesOf(matched.remaining)
        BY <2>1 DEF FramesOf
      <4> QED  BY <2>5, <4>2, <4>3, <4>4
    <3> QED  BY <3>1, <3>2, <3>3, <3>4
  <2>14. Call(k, extra, kept)
    BY <2>1, <2>8, <2>10, <2>12, <2>13 DEF Call, gone
  <2>15. StoredKept'
    <3>1. \A n \in Range(order') :
            (\A f \in decoded' : f < n) /\ arrivals'[n] = 1 => n \in stored'
      <4> SUFFICES ASSUME NEW n \in Range(new), \A f \in decoded : f < n, arrivals'[n] = 1
                   PROVE  n \in stored'
        BY <1>5, <2>1
      <4>1. n \in kept
        BY <2>2
      <4>2. ASSUME n \notin stored'
            PROVE  FALSE
        <5>1. PICK a \in DOMAIN extra : n = extra[a].source
          BY <2>6, <4>1, <4>2
        <5>2. extra[a] \in Range(extra)
          BY DEF Range
        <5>3. PICK d \in Range(rest) : extra[a].frame = d.frame
          BY <2>5, <5>2
        <5>4. d.frame \in decoded
          <6>1. \A i \in DOMAIN pending : pending[i].frame \in decoded
            BY <1>1 DEF FramesKept, FramesOf
          <6> QED  BY <1>10, <6>1
        <5>5. n <= d.frame /\ d.frame < n
          BY <2>5, <5>1, <5>2, <5>3, <5>4
        <5>6. n \in Nat /\ d.frame \in Nat
          <6>1. decoded \subseteq Frame
            BY <1>1 DEF TypeOK
          <6>2. \A f \in Frame : f \in Nat
            BY DEF Frame
          <6> QED  BY <2>3, <4>1, <5>4, <6>1, <6>2
        <5> QED  BY <5>5, <5>6
      <4> QED  BY <4>2
    <3>2. \A j \in DOMAIN pending' : Candidates(stored', pending'[j].pts) = {}
      BY <2>1, <2>5 DEF Range
    <3> QED  BY <2>1, <2>2, <3>1, <3>2 DEF StoredKept, Candidates
  <2>16. Fits'
    <3>1. Len(pending') <= MaxPending
      <4> DEFINE p == Len(pending)
                 q == Len(pending')
                 x == Len(extra)
                 r == Len(rest)
      <4>1. q \in Nat /\ x \in Nat
        BY <2>1, <2>5, LenProperties
      <4>2. x + q = r
        BY <2>7 DEF Splits
      <4> HIDE DEF p, q, x, r
      <4>3. p \in Nat /\ p <= MaxPending /\ r = p - k /\ k \in Nat /\ MaxPending \in Nat
        BY <1>2, <1>4, <1>8, JoinerAssumption DEF p, r
      <4>4. q <= MaxPending
        BY <4>1, <4>2, <4>3
      <4> QED  BY <4>4 DEF q
    <3>2. stored' \subseteq Range(order')
      BY <2>1, <2>2, <2>5
    <3> QED  BY <1>2, <1>5, <2>1, <2>2, <3>1, <3>2 DEF Fits
  <2> QED  BY <2>14, <2>15, <2>16
<1> QED  BY <1>11, <1>12

(* Frame n is decoded: it takes what is stored for it, or it waits, and    *)
(* the oldest makes room.                                                  *)
LEMMA DecodedCall ==
  ASSUME JoinerInv, NEW n \in Frame, NEW pts \in {n, NoPts}, IngestDecoded(n, pts)
  PROVE  StoredKept' /\ Fits' /\ \E k, extra, kept : Call(k, extra, kept)
<1> DEFINE source == Match(stored, pts)
           room == source = NoSource /\ Full
           k == IF room THEN Due + 1 ELSE Due
           gone == SubSeq(pending, 1, k)
           rest == SubSeq(pending, k + 1, Len(pending))
           tombs == Tombstones(gone)
           d == [frame |-> n, pts |-> pts, left |-> MaxWait]
           r == Build([frame |-> n, pts |-> pts], source)
           extra == IF source = NoSource THEN <<>> ELSE <<r>>
<1>1. TypeOK /\ FramesKept /\ StoredKept /\ UsedOnce /\ LostRemembered /\ LostPassed
      /\ EarlyJoined
  BY DEF JoinerInv
<1>2. /\ pending \in Seq(Pending) /\ InOrder(pending) /\ OwnPts(pending)
      /\ emitted \in Seq(Captured) /\ stored \subseteq Frame /\ stored \subseteq Range(order)
      /\ Len(pending) <= MaxPending /\ arrivals \in [Frame -> 0 .. Copies]
      /\ ended \in BOOLEAN /\ early \subseteq decoded /\ decoded \subseteq Frame
      /\ order \in Seq(Frame) /\ Len(order) <= MaxSamples
      /\ MaxPending \in Nat \ {0} /\ MaxWait \in Nat \ {0}
  BY <1>1, JoinerAssumption DEF TypeOK, FramesKept
<1>3. /\ Due \in 0 .. Len(pending) /\ Due \in Nat
      /\ Len(pending) \in Nat /\ DOMAIN pending = 1 .. Len(pending)
  BY <1>2, DueBound, LenProperties
<1>4. /\ Waiting \in Seq(Pending) /\ Len(Waiting) = Len(pending) - Due
  BY <1>2, <1>3, PrefixSplits DEF Waiting, Splits
<1>5. room => Due + 1 \in 1 .. Len(pending) /\ Waiting # <<>>
  <2> SUFFICES ASSUME Len(Waiting) = MaxPending
               PROVE  Due + 1 \in 1 .. Len(pending) /\ Waiting # <<>>
    BY DEF Full
  <2> DEFINE p == Len(pending)
             w == Len(Waiting)
  <2>1. p \in Nat /\ w = p - Due /\ Due \in 0 .. p /\ w = MaxPending /\ MaxPending \in Nat \ {0}
    BY <1>2, <1>3, <1>4
  <2> HIDE DEF p, w
  <2>2. Due + 1 \in 1 .. p /\ w # 0
    BY <2>1
  <2>3. Waiting # <<>>
    BY <2>2, EmptySeq DEF w
  <2> QED  BY <2>2, <2>3 DEF p
<1>6. k \in 0 .. Len(pending)
  BY <1>3, <1>5
<1>7. gone = DueFrames \o (IF room THEN <<Head(Waiting)>> ELSE <<>>)
  <2>1. CASE room
    <3>1. SubSeq(pending, 1, Due) \o SubSeq(pending, Due + 1, Due + 1)
            = SubSeq(pending, 1, Due + 1)
      <4>1. /\ 1 \in 1 .. Len(pending) + 1 /\ Due \in (1 - 1) .. Len(pending)
            /\ Due + 1 \in Due .. Len(pending)
        BY <1>3, <1>5, <2>1
      <4> QED  BY <1>2, <4>1, ConcatAdjacentSubSeq
    <3>2. SubSeq(pending, Due + 1, Due + 1) = <<pending[Due + 1]>>
      <4>1. Due + 1 \in 1 .. Len(pending) /\ Due + 1 \in (Due + 1) .. Len(pending)
            /\ Due + 1 \in (Due + 1) .. (Due + 1)
        BY <1>3, <1>5, <2>1
      <4>2. SubSeq(pending, Due + 1, Due + 1)
              = <<pending[Due + 1]>> \o SubSeq(pending, (Due + 1) + 1, Due + 1)
        <5> DEFINE a == Due + 1
        <5>1. a \in 1 .. Len(pending) /\ a \in a .. Len(pending)
          BY <4>1
        <5> HIDE DEF a
        <5>2. SubSeq(pending, a, a) = <<pending[a]>> \o SubSeq(pending, a + 1, a)
          BY <1>2, <5>1, SubSeqRecursiveFirst
        <5> QED  BY <5>2 DEF a
      <4>3. SubSeq(pending, (Due + 1) + 1, Due + 1) = <<>>
        <5>1. (Due + 1) + 1 \in Int /\ Due + 1 \in Int /\ Due + 1 < (Due + 1) + 1
          BY <1>3
        <5> QED  BY <5>1, SubSeqEmpty
      <4>4. pending[Due + 1] \in Pending
        BY <1>2, <4>1, ElementOfSeq
      <4>5. <<pending[Due + 1]>> \in Seq(Pending)
        BY <4>4
      <4> QED  BY <4>2, <4>3, <4>5, ConcatEmptySeq
    <3>3. Head(Waiting) = pending[Due + 1]
      <4>1. Due + 1 \in 1 .. Len(pending) /\ Len(pending) \in (Due + 1) .. Len(pending)
        BY <1>3, <1>5, <2>1
      <4> QED  BY <1>2, <4>1, HeadTailOfSubSeq DEF Waiting
    <3> QED  BY <2>1, <3>1, <3>2, <3>3 DEF DueFrames
  <2>2. CASE ~room
    <3>1. DueFrames \in Seq(Pending)
      BY <1>2, <1>3, PrefixSplits DEF DueFrames
    <3>2. DueFrames \o <<>> = DueFrames
      BY <3>1, ConcatEmptySeq
    <3> QED  BY <2>2, <3>2 DEF DueFrames
  <2> QED  BY <2>1, <2>2
<1>8. rest = IF room THEN Tail(Waiting) ELSE Waiting
  <2>1. CASE room
    <3>1. Due + 1 \in 1 .. Len(pending) /\ Len(pending) \in (Due + 1) .. Len(pending)
      BY <1>3, <1>5, <2>1
    <3>2. Tail(SubSeq(pending, Due + 1, Len(pending)))
            = SubSeq(pending, (Due + 1) + 1, Len(pending))
      BY <1>2, <3>1, HeadTailOfSubSeq
    <3> QED  BY <2>1, <3>2 DEF Waiting
  <2>2. CASE ~room
    BY <2>2 DEF Waiting
  <2> QED  BY <2>1, <2>2
<1>9. /\ \A m \in decoded : m < n
      /\ decoded' = decoded \cup {n}
      /\ early' = IF arrivals[n] = 1 /\ n \in Range(order) THEN early \cup {n} ELSE early
      /\ expired' = tombs.set /\ expiredOrder' = tombs.order
      /\ stored' = stored \ {source}
      /\ emitted' = (emitted \o Unmatched(gone)) \o extra
      /\ pending' = IF source # NoSource THEN rest ELSE Append(rest, d)
      /\ order' = order /\ arrivals' = arrivals /\ ended' = ended
  <2> HIDE DEF gone, rest, k
  <2>1. /\ tombs = Tombstones(DueFrames \o (IF room THEN <<Head(Waiting)>> ELSE <<>>))
        /\ Unmatched(gone) = Unmatched(DueFrames \o (IF room THEN <<Head(Waiting)>> ELSE <<>>))
    BY <1>7
  <2>2. IF source # NoSource THEN Waiting = rest
        ELSE (IF Full THEN Tail(Waiting) ELSE Waiting) = rest
    BY <1>8
  <2> QED  BY <2>1, <2>2 DEF IngestDecoded
<1> HIDE DEF k, room, source
<1>10. /\ source = NoSource => Candidates(stored, pts) = {}
       /\ source # NoSource => source \in Candidates(stored, pts)
       /\ pts \in stored => source = pts
  <2>1. stored \in SUBSET Frame /\ pts \in Frame \cup {NoPts}
    BY <1>2
  <2>2. ASSUME pts \in stored
        PROVE  source # NoSource
    <3>1. pts \in Candidates(stored, pts)
      BY <1>2, <2>2, OwnCandidate
    <3>2. NoSource \notin Frame
      BY JoinerAssumption DEF Frame
    <3>3. Match(stored, pts) # NoSource
      <4>1. Candidates(stored, pts) # {}
        BY <3>1
      <4>2. Candidates(stored, pts) \subseteq Frame
        BY <1>2 DEF Candidates
      <4> QED  BY <2>1, <3>2, <4>1, <4>2, MatchIs
    <3> QED  BY <3>3 DEF source
  <2>3. \/ source = NoSource /\ Candidates(stored, pts) = {}
        \/ /\ source \in Candidates(stored, pts) /\ source # NoSource
           /\ pts \in stored => source = pts
    BY <2>1, MatchIs DEF source
  <2> QED  BY <2>2, <2>3
<1>11. /\ Splits(FramesOf(pending), Len(pending), Unmatched(gone), rest)
       /\ Len(rest) = Len(pending) - k
       /\ \A i \in 1 .. Len(rest) : rest[i] = pending[k + i]
  BY <1>2, <1>6, PrefixSplits
<1>12. /\ rest \in Seq(Pending) /\ Unmatched(gone) \in Seq(Captured)
       /\ InOrder(rest) /\ OwnPts(rest) /\ FramesOf(rest) \subseteq FramesOf(pending)
  BY <1>11 DEF Splits
<1>13. \A j \in DOMAIN rest : \E i \in DOMAIN pending : i > k /\ rest[j] = pending[i]
  <2> SUFFICES ASSUME NEW j \in DOMAIN rest
               PROVE  \E i \in DOMAIN pending : i > k /\ rest[j] = pending[i]
    OBVIOUS
  <2>1. j \in 1 .. Len(rest)
    BY <1>12, LenProperties
  <2> DEFINE p == Len(pending)
             q == Len(rest)
  <2> HIDE DEF p, q, rest
  <2>2. p \in Nat /\ k \in 0 .. p /\ q = p - k /\ j \in 1 .. q /\ DOMAIN pending = 1 .. p
    BY <1>3, <1>6, <1>11, <2>1 DEF p, q
  <2>3. k + j \in DOMAIN pending /\ k + j > k
    BY <2>2
  <2> QED  BY <1>11, <2>1, <2>3
<1>14. FramesOf(pending) \subseteq decoded /\ n \notin decoded /\ n \notin early
  <2>1. \A m \in decoded : m \in Nat
    BY <1>2 DEF Frame
  <2> QED  BY <1>1, <1>2, <1>9, <2>1 DEF FramesKept
<1>15. n \in early' => n \in stored
  BY <1>1, <1>9, <1>14 DEF StoredKept
<1>16. /\ \A i \in DOMAIN pending : pending[i].frame \in decoded
       /\ \A i \in DOMAIN pending : Candidates(stored, pending[i].pts) = {}
       /\ Range(order) \subseteq Arrived /\ stored \subseteq Arrived
  BY <1>1, <1>2, <1>14 DEF StoredKept, FramesOf
<1> HIDE DEF gone, rest, tombs, r, d
<1>17. Keep(stored)
  <2>1. \A f \in Frame : arrivals[f] \in Nat
    BY <1>2, JoinerAssumption
  <2> QED  BY <1>2, <1>9, <1>16, <2>1 DEF Keep, Arrived
<1>18. Leave(k)
  <2>1. ASSUME NEW j \in DOMAIN pending'
        PROVE  \/ \E i \in DOMAIN pending : /\ i > k /\ pending'[j].frame = pending[i].frame
                                            /\ pending'[j].pts = pending[i].pts
               \/ /\ \A f \in decoded : f < pending'[j].frame
                  /\ pending'[j].pts # NoPts => pending'[j].frame \notin early'
    <3>1. CASE pending' = rest
      BY <1>13, <3>1
    <3>2. CASE source = NoSource /\ pending' = Append(rest, d)
      <4>1. d \in Pending /\ d.frame = n /\ d.pts = pts
        BY <1>2 DEF d, Pending
      <4>2. /\ DOMAIN pending' = DOMAIN rest \cup {Len(rest) + 1}
            /\ \A i \in DOMAIN rest : pending'[i] = rest[i]
            /\ pending'[Len(rest) + 1] = d
        BY <1>12, <3>2, <4>1, AppendRange
      <4>3. CASE j \in DOMAIN rest
        BY <1>13, <4>2, <4>3
      <4>4. CASE pending'[j] = d
        <5>1. ASSUME pts # NoPts, n \in early'
              PROVE  FALSE
          <6>1. pts \in stored
            BY <1>15, <5>1
          <6>2. pts \in Candidates(stored, pts)
            BY <1>2, <6>1, OwnCandidate
          <6> QED  BY <1>10, <3>2, <6>2
        <5> QED  BY <1>9, <4>1, <4>4, <5>1
      <4> QED  BY <4>2, <4>3, <4>4
    <3> QED  BY <1>9, <3>1, <3>2
  <2>2. \A f \in decoded : f \in early' => f \in early
    BY <1>9, <1>14
  <2>3. /\ expiredOrder' = Tombstones(gone).order /\ expired' = Tombstones(gone).set
    BY <1>9 DEF tombs
  <2> QED  BY <1>6, <2>1, <2>2, <2>3 DEF Leave, gone
<1>19. CASE source # NoSource
  <2>1. extra = <<r>> /\ pending' = rest
    BY <1>9, <1>19
  <2>2. /\ source \in stored /\ source \in Frame /\ pts = n /\ pts # NoPts
        /\ source <= n /\ n - source <= MaxDelta
    BY <1>2, <1>10, <1>19 DEF Candidates
  <2>3. r = [frame |-> n, pts |-> pts, source |-> source] /\ r \in Captured
    BY <2>2 DEF r, Build, Captured
  <2>4. /\ extra \in Seq(Captured) /\ Len(extra) = 1 /\ DOMAIN extra = {1} /\ extra[1] = r
    BY <2>1, <2>3
  <2>5. Give(k, extra, stored)
    <3>1. \A x \in Range(extra) : x = r
      BY <2>4 DEF Range
    <3>2. r.source \in stored \ stored'
      BY <1>9, <2>2, <2>3
    <3>3. \A j \in DOMAIN pending' : source # pending'[j].pts
      <4> SUFFICES ASSUME NEW j \in DOMAIN pending', source = pending'[j].pts PROVE FALSE
        OBVIOUS
      <4>1. PICK i \in DOMAIN pending : pending'[j] = pending[i]
        BY <1>13, <2>1
      <4>2. source \in Candidates(stored, source)
        BY <2>2, OwnCandidate
      <4> QED  BY <1>16, <4>1, <4>2
    <3>4. n \in early' => source = n
      BY <1>10, <1>15, <2>2
    <3>5. /\ r.source = source /\ r.frame = n /\ r.pts = pts
      BY <2>3
    <3> HIDE DEF extra
    <3> QED  BY <1>9, <2>2, <2>4, <3>1, <3>2, <3>3, <3>4, <3>5 DEF Give
  <2>6. FramesMove(Unmatched(gone) \o extra, {n})
    <3> DEFINE u == Unmatched(gone)
    <3>1. u \o extra = Append(u, r)
      BY <1>12, <2>1, <2>3, AppendIsConcat
    <3>2. /\ Append(u, r) \in Seq(Captured) /\ Len(Append(u, r)) = Len(u) + 1
          /\ FramesOf(Append(u, r)) = FramesOf(u) \cup {r.frame}
          /\ OwnPts(u) /\ r.pts \in {r.frame, NoPts} => OwnPts(Append(u, r))
          /\ OnceEach(u) /\ r.frame \notin FramesOf(u) => OnceEach(Append(u, r))
      BY <1>12, <2>3, AppendFrames
    <3> HIDE DEF u
    <3>3. r.frame = n /\ r.pts = n
      BY <2>2, <2>3
    <3>4. Splits(FramesOf(pending), Len(pending), u, rest)
      BY <1>11 DEF u
    <3>5. n \notin FramesOf(u) /\ n \notin FramesOf(rest)
      BY <1>14, <3>4 DEF Splits
    <3>6. Len(Append(u, r)) + Len(rest) = Len(pending) + 1
      <4>1. Len(u) \in Nat /\ Len(rest) \in Nat /\ Len(pending) \in Nat
        BY <1>3, <1>12, LenProperties DEF u
      <4>2. Len(u) + Len(rest) = Len(pending)
        BY <3>4 DEF Splits
      <4>3. (Len(u) + 1) + Len(rest) = Len(pending) + 1
        BY <4>1, <4>2, OneMore
      <4> QED  BY <3>2, <4>3
    <3>7. Splits(FramesOf(pending) \cup {n}, Len(pending) + 1, Append(u, r), rest)
      BY <3>2, <3>3, <3>4, <3>5, <3>6 DEF Splits
    <3>8. emitted' = emitted \o (u \o extra)
      <4>1. u \in Seq(Captured) /\ emitted' = (emitted \o u) \o extra
        BY <1>9, <1>12 DEF u
      <4> HIDE DEF extra
      <4>2. (emitted \o u) \o extra = emitted \o (u \o extra)
        BY <1>2, <2>4, <4>1, Regroup
      <4> QED  BY <4>1, <4>2
    <3>9. Cardinality({n}) = 1
      BY FS_Singleton
    <3> QED  BY <1>9, <2>1, <3>1, <3>7, <3>8, <3>9 DEF FramesMove, u
  <2>7. Call(k, extra, stored)
    BY <1>9, <1>17, <1>18, <2>5, <2>6 DEF Call, gone
  <2>8. Len(pending') <= MaxPending
    <3> DEFINE p == Len(pending)
               q == Len(rest)
    <3> HIDE DEF p, q
    <3>1. p \in Nat /\ q = p - k /\ k \in 0 .. p /\ p <= MaxPending /\ MaxPending \in Nat
      BY <1>2, <1>3, <1>6, <1>11 DEF p, q
    <3>2. q <= MaxPending
      BY <3>1
    <3> QED  BY <2>1, <3>2 DEF q
  <2>9. ASSUME NEW m \in Range(order'), \A f \in decoded' : f < m, arrivals'[m] = 1
        PROVE  m \in stored'
    <3>1. m \in stored
      BY <1>1, <1>9, <2>9 DEF StoredKept
    <3>2. n < m /\ m \in Nat /\ n \in Nat /\ source \in Nat
      BY <1>2, <1>9, <2>2, <2>9, <3>1 DEF Frame
    <3> QED  BY <1>9, <2>2, <3>1, <3>2
  <2>10. \A j \in DOMAIN pending' : Candidates(stored', pending'[j].pts) = {}
    <3>1. \A q : Candidates(stored', q) \subseteq Candidates(stored, q)
      BY <1>9 DEF Candidates
    <3> QED  BY <1>13, <1>16, <2>1, <3>1
  <2>11. StoredKept'
    <3>1. Arrived' = Arrived
      BY <1>9 DEF Arrived
    <3> QED  BY <1>1, <1>9, <2>9, <2>10, <3>1 DEF StoredKept, Candidates
  <2>12. Fits'
    <3>1. stored' \subseteq Range(order') /\ early' \subseteq decoded'
      BY <1>2, <1>9
    <3> QED  BY <1>2, <1>9, <2>8, <3>1 DEF Fits
  <2> QED  BY <2>7, <2>11, <2>12
<1>20. CASE source = NoSource
  <2>1. extra = <<>> /\ pending' = Append(rest, d) /\ stored' = stored
    <3>1. NoSource \notin Frame
      BY JoinerAssumption DEF Frame
    <3>2. stored \ {source} = stored
      BY <1>2, <1>20, <3>1
    <3> QED  BY <1>9, <1>20, <3>2
  <2>2. d \in Pending /\ d.frame = n /\ d.pts = pts
    BY <1>2 DEF d, Pending
  <2>3. /\ pending' \in Seq(Pending) /\ Len(pending') = Len(rest) + 1
        /\ FramesOf(pending') = FramesOf(rest) \cup {n}
        /\ OwnPts(pending') /\ InOrder(pending')
    <3>1. \A f \in FramesOf(rest) : f < d.frame
      BY <1>9, <1>12, <1>14, <2>2
    <3>2. /\ Append(rest, d) \in Seq(Pending) /\ Len(Append(rest, d)) = Len(rest) + 1
          /\ FramesOf(Append(rest, d)) = FramesOf(rest) \cup {d.frame}
          /\ OwnPts(rest) /\ d.pts \in {d.frame, NoPts} => OwnPts(Append(rest, d))
          /\ InOrder(rest) /\ (\A f \in FramesOf(rest) : f < d.frame)
               => InOrder(Append(rest, d))
      BY <1>12, <2>2, AppendFrames
    <3>3. d.pts \in {d.frame, NoPts}
      BY <2>2
    <3>4. OwnPts(Append(rest, d)) /\ InOrder(Append(rest, d))
      BY <1>12, <3>1, <3>2, <3>3
    <3> DEFINE s == Append(rest, d)
    <3>5. pending' = s
      BY <2>1
    <3>6. /\ s \in Seq(Pending) /\ Len(s) = Len(rest) + 1
          /\ FramesOf(s) = FramesOf(rest) \cup {n} /\ OwnPts(s) /\ InOrder(s)
      BY <2>2, <3>2, <3>4
    <3> HIDE DEF s
    <3> QED  BY <3>5, <3>6
  <2>4. extra \in Seq(Captured) /\ DOMAIN extra = {}
    BY <2>1
  <2>5. Give(k, extra, stored)
    BY <2>4 DEF Give, Range
  <2>6. FramesMove(Unmatched(gone) \o extra, {n})
    <3> DEFINE u == Unmatched(gone)
    <3>1. u \o extra = u
      BY <1>12, <2>1, ConcatEmptySeq
    <3> HIDE DEF u
    <3>2. Splits(FramesOf(pending), Len(pending), u, rest)
      BY <1>11 DEF u
    <3>3. n \notin FramesOf(u) /\ n \notin FramesOf(rest)
      BY <1>14, <3>2 DEF Splits
    <3>4. Len(u) + Len(pending') = Len(pending) + 1
      <4>1. Len(u) \in Nat /\ Len(rest) \in Nat /\ Len(pending) \in Nat
        BY <1>3, <1>12, LenProperties DEF u
      <4>2. Len(u) + Len(rest) = Len(pending)
        BY <3>2 DEF Splits
      <4>3. Len(u) + (Len(rest) + 1) = Len(pending) + 1
        BY <4>1, <4>2, OneMore
      <4> QED  BY <2>3, <4>3
    <3>5. Splits(FramesOf(pending) \cup {n}, Len(pending) + 1, u, pending')
      BY <2>3, <3>2, <3>3, <3>4 DEF Splits
    <3>6. emitted' = emitted \o (u \o extra)
      <4>1. u \in Seq(Captured) /\ emitted' = (emitted \o u) \o extra
        BY <1>9, <1>12 DEF u
      <4> HIDE DEF extra
      <4>2. (emitted \o u) \o extra = emitted \o (u \o extra)
        BY <1>2, <2>4, <4>1, Regroup
      <4> QED  BY <4>1, <4>2
    <3>7. Cardinality({n}) = 1
      BY FS_Singleton
    <3> QED  BY <1>9, <3>1, <3>5, <3>6, <3>7 DEF FramesMove, u
  <2>7. Call(k, extra, stored)
    BY <1>9, <1>17, <1>18, <2>5, <2>6 DEF Call, gone
  <2>8. Len(pending') <= MaxPending
    <3> DEFINE p == Len(pending)
               q == Len(rest)
               w == Len(Waiting)
    <3> HIDE DEF p, q, w
    <3>1. /\ p \in Nat /\ q = p - k /\ p <= MaxPending /\ MaxPending \in Nat
          /\ Due \in 0 .. p /\ w = p - Due
      BY <1>2, <1>3, <1>4, <1>11 DEF p, q, w
    <3>2. CASE w = MaxPending
      <4>1. k = Due + 1
        BY <1>20, <3>2 DEF k, room, Full, w
      <4>2. q + 1 <= MaxPending
        BY <3>1, <4>1
      <4> QED  BY <2>3, <4>2 DEF q
    <3>3. CASE w # MaxPending
      <4>1. k = Due
        BY <1>20, <3>3 DEF k, room, Full, w
      <4>2. q + 1 <= MaxPending
        BY <3>1, <3>3, <4>1
      <4> QED  BY <2>3, <4>2 DEF q
    <3> QED  BY <3>2, <3>3
  <2>9. ASSUME NEW m \in Range(order'), \A f \in decoded' : f < m, arrivals'[m] = 1
        PROVE  m \in stored'
    BY <1>1, <1>9, <2>1, <2>9 DEF StoredKept
  <2>10. \A j \in DOMAIN pending' : Candidates(stored', pending'[j].pts) = {}
    <3>1. /\ DOMAIN pending' = DOMAIN rest \cup {Len(rest) + 1}
          /\ \A i \in DOMAIN rest : pending'[i] = rest[i]
          /\ pending'[Len(rest) + 1] = d
      BY <1>12, <2>1, <2>2, AppendRange
    <3>2. \A j \in DOMAIN rest : Candidates(stored, rest[j].pts) = {}
      BY <1>13, <1>16
    <3>3. Candidates(stored, d.pts) = {}
      BY <1>10, <1>20, <2>2
    <3> QED  BY <2>1, <3>1, <3>2, <3>3
  <2>11. StoredKept'
    <3>1. Arrived' = Arrived
      BY <1>9 DEF Arrived
    <3> QED  BY <1>1, <1>9, <2>9, <2>10, <3>1 DEF StoredKept, Candidates
  <2>12. Fits'
    <3>1. stored' \subseteq Range(order') /\ early' \subseteq decoded'
      BY <1>2, <1>9, <2>1
    <3> QED  BY <1>2, <1>9, <2>8, <3>1 DEF Fits
  <2> QED  BY <2>7, <2>11, <2>12
<1> QED  BY <1>19, <1>20

-----------------------------------------------------------------------------
(* Every step of the joiner is such a call.                                *)
LEMMA StepCall ==
  ASSUME JoinerInv, [Next]_vars
  PROVE  StoredKept' /\ Fits' /\ \E k, extra, kept : Call(k, extra, kept)
<1>1. /\ pending \in Seq(Pending) /\ ended \in BOOLEAN /\ Len(pending) \in Nat
      /\ DOMAIN pending = 1 .. Len(pending)
      /\ arrivals \in [Frame -> 0 .. Copies]
      /\ \A f \in Frame : arrivals[f] <= arrivals[f]
  <2>1. TypeOK
    BY DEF JoinerInv
  <2>2. \A f \in Frame : arrivals[f] \in Nat
    BY <2>1, JoinerAssumption DEF TypeOK
  <2> QED  BY <2>1, <2>2, LenProperties DEF TypeOK
<1>2. CASE \E m \in Frame : IngestFrame(m)
  BY <1>2, FrameCall
<1>3. CASE \E n \in Frame : \E pts \in {n, NoPts} : IngestDecoded(n, pts)
  BY <1>3, DecodedCall
<1>4. CASE IngestOther
  <2> DEFINE k == Due
             gone == SubSeq(pending, 1, k)
             rest == SubSeq(pending, k + 1, Len(pending))
  <2>1. k \in 0 .. Len(pending)
    BY <1>1, DueBound
  <2>2. /\ expired' = Tombstones(gone).set /\ expiredOrder' = Tombstones(gone).order
        /\ pending' = rest /\ emitted' = emitted \o Unmatched(gone)
        /\ stored' = stored /\ order' = order /\ arrivals' = arrivals
        /\ decoded' = decoded /\ early' = early /\ ended' = ended
    BY <1>4 DEF IngestOther, DueFrames, Waiting
  <2>3. rest \in Seq(Pending)
    <3> HIDE DEF k, gone, rest
    <3>1. InOrder(pending) /\ OwnPts(pending)
      BY Zenon DEF JoinerInv, FramesKept
    <3> QED  BY <1>1, <2>1, <3>1, PrefixSplits DEF Splits, rest
  <2> HIDE DEF k
  <2>4. StoredKept' /\ Fits' /\ Call(k, <<>>, stored)
    BY <1>1, <2>1, <2>2, <2>3, PlainCall
  <2> QED  BY <2>4
<1>5. CASE Flush
  <2> DEFINE k == Len(pending)
             gone == SubSeq(pending, 1, k)
             rest == SubSeq(pending, k + 1, Len(pending))
  <2>1. k \in 0 .. Len(pending)
    BY <1>1
  <2>2. gone = pending
    BY <1>1, SubSeqFull
  <2>3. rest = <<>>
    <3>1. k + 1 \in Int /\ k \in Int /\ k < k + 1
      BY <1>1
    <3> QED  BY <3>1, SubSeqEmpty
  <2>4. /\ expired' = Tombstones(gone).set /\ expiredOrder' = Tombstones(gone).order
        /\ pending' = rest /\ emitted' = emitted \o Unmatched(gone)
        /\ stored' = stored /\ order' = order /\ arrivals' = arrivals
        /\ decoded' = decoded /\ early' = early /\ ended' = TRUE
    BY <1>5, <2>2, <2>3 DEF Flush
  <2>5. rest \in Seq(Pending) /\ ended' \in BOOLEAN
    BY <2>3, <2>4
  <2> HIDE DEF k
  <2>6. StoredKept' /\ Fits' /\ Call(k, <<>>, stored)
    BY <1>1, <2>1, <2>4, <2>5, PlainCall
  <2> QED  BY <2>6
<1>6. CASE Tick \/ UNCHANGED vars
  <2>1. /\ stored' = stored /\ order' = order /\ expired' = expired
        /\ expiredOrder' = expiredOrder /\ emitted' = emitted /\ arrivals' = arrivals
        /\ decoded' = decoded /\ early' = early /\ ended' = ended
    BY <1>6 DEF Tick, vars, joiner
  <2>2. /\ pending' \in Seq(Pending) /\ Len(pending') = Len(pending)
        /\ \A i \in 1 .. Len(pending) : /\ pending'[i].frame = pending[i].frame
                                        /\ pending'[i].pts = pending[i].pts
    <3>1. CASE UNCHANGED vars
      BY <1>1, <3>1 DEF vars, joiner
    <3>2. CASE Tick
      <4> DEFINE s == [i \in DOMAIN pending |->
                        [pending[i] EXCEPT !.left = IF @ > 0 THEN @ - 1 ELSE 0]]
                 n == Len(pending)
      <4>1. pending' = s
        BY <3>2 DEF Tick
      <4>2. \A i \in 1 .. n : /\ pending[i] \in Pending /\ s[i] \in Pending
                              /\ s[i].frame = pending[i].frame
                              /\ s[i].pts = pending[i].pts
        <5> SUFFICES ASSUME NEW i \in 1 .. n
                     PROVE  /\ pending[i] \in Pending /\ s[i] \in Pending
                            /\ s[i].frame = pending[i].frame
                            /\ s[i].pts = pending[i].pts
          OBVIOUS
        <5> DEFINE e == pending[i]
                   left == IF e.left > 0 THEN e.left - 1 ELSE 0
        <5>1. e \in Pending
          BY <1>1, ElementOfSeq
        <5>2. s[i] = [e EXCEPT !.left = left]
          BY <1>1
        <5> HIDE DEF e, s
        <5>3. /\ e = [frame |-> e.frame, pts |-> e.pts, left |-> e.left]
              /\ e.frame \in Frame /\ e.pts \in Frame \cup {NoPts}
              /\ e.left \in 0 .. MaxWait /\ MaxWait \in Nat
          BY <5>1, JoinerAssumption DEF Pending
        <5>4. left \in 0 .. MaxWait
          BY <5>3
        <5> HIDE DEF left
        <5>5. s[i] = [frame |-> e.frame, pts |-> e.pts, left |-> left]
          BY <5>2, <5>3
        <5>6. s[i] \in Pending
          BY <5>3, <5>4, <5>5 DEF Pending
        <5> QED  BY <5>1, <5>5, <5>6 DEF e
      <4>3. s \in [1 .. n -> Pending] /\ n \in Nat
        BY <1>1, <4>2
      <4> HIDE DEF s, n
      <4>4. s \in Seq(Pending) /\ Len(s) = n
        <5>1. s \in Seq(Pending)
          BY <4>3
        <5>2. DOMAIN s = 1 .. n /\ DOMAIN s = 1 .. Len(s) /\ Len(s) \in Nat
          BY <4>3, <5>1, LenProperties
        <5> QED  BY <4>3, <5>2
      <4> QED  BY <4>1, <4>2, <4>4 DEF n
    <3> QED  BY <1>6, <3>1, <3>2
  <2>3. StoredKept' /\ Fits' /\ Call(0, <<>>, stored)
    BY <2>1, <2>2, StillCall
  <2> QED  BY <2>3
<1> QED  BY <1>2, <1>3, <1>4, <1>5, <1>6 DEF Next

(* The joiner starts with nothing stored, waiting or emitted.              *)
LEMMA JoinerInit == Init => JoinerInv /\ MetadataUsedOnce
<1> SUFFICES ASSUME Init PROVE JoinerInv /\ MetadataUsedOnce
  OBVIOUS
<1> USE JoinerAssumption DEF Init
<1>1. /\ DOMAIN pending = {} /\ DOMAIN emitted = {} /\ DOMAIN order = {}
      /\ DOMAIN expiredOrder = {} /\ Len(pending) = 0 /\ Len(emitted) = 0
      /\ Len(order) = 0 /\ Len(expiredOrder) = 0
  OBVIOUS
<1>2. TypeOK
  <2>1. Range(order) = {} /\ Range(expiredOrder) = {}
    BY <1>1 DEF Range
  <2>2. /\ order \in Seq(Frame) /\ expiredOrder \in Seq(Frame)
        /\ pending \in Seq(Pending) /\ emitted \in Seq(Captured)
    OBVIOUS
  <2>3. 0 <= MaxSamples /\ 0 <= MaxPending /\ 0 \in 0 .. Copies
    OBVIOUS
  <2>4. arrivals \in [Frame -> 0 .. Copies]
    BY <2>3
  <2>5. /\ stored \subseteq Frame /\ stored \subseteq Range(order)
        /\ expired \subseteq Range(expiredOrder)
        /\ decoded \subseteq Frame /\ early \subseteq decoded
        /\ ended \in BOOLEAN
    BY <2>1
  <2> QED  BY <1>1, <2>2, <2>3, <2>4, <2>5 DEF TypeOK
<1>3. Lost = {} /\ FramesOf(pending) = {} /\ FramesOf(emitted) = {}
  BY <1>1 DEF Lost, FramesOf
<1>4. FramesKept
  <2>1. Cardinality(decoded) = 0
    BY FS_EmptySet
  <2> QED  BY <1>1, <1>3, <2>1 DEF FramesKept, InOrder, OwnPts, OnceEach
<1>5. FewOvertaken /\ EarlyJoined /\ MetadataUsedOnce
  BY <1>1 DEF FewOvertaken, EarlyJoined, EarlyMetadataJoined, MetadataUsedOnce
<1>6. LostRemembered
  <2>1. Range(expiredOrder) = {} /\ expiredOrder \in Seq(Frame)
    BY <1>1 DEF Range
  <2> QED  BY <1>1, <1>3, <2>1 DEF LostRemembered, Remembered
<1>7. LostPassed /\ StoredKept /\ UsedOnce
  BY <1>1, <1>3 DEF LostPassed, StoredKept, UsedOnce, Range
<1> QED  BY <1>2, <1>4, <1>5, <1>6, <1>7 DEF JoinerInv

(* Every step of the joiner keeps its invariant; metadata is used once when *)
(* the store is as large as the window of pts.                             *)
LEMMA JoinerStep ==
  ASSUME JoinerInv, [Next]_vars
  PROVE  JoinerInv' /\ (MaxDelta <= MaxSamples /\ MetadataUsedOnce => MetadataUsedOnce')
<1>1. PICK k, extra, kept : StoredKept' /\ Fits' /\ Call(k, extra, kept)
  BY StepCall
<1>2. FramesKept' /\ FewOvertaken' /\ UsedOnce' /\ EarlyJoined'
  BY <1>1, CallUses
<1>3. LostRemembered' /\ LostPassed'
  <2> DEFINE gone == SubSeq(pending, 1, k)
  <2>1. gone = SubSeq(pending, 1, k)
    OBVIOUS
  <2> HIDE DEF gone
  <2> QED  BY <1>1, <2>1, CallLost
<1>4. TypeOK /\ FramesKept /\ FewOvertaken
  BY DEF JoinerInv
<1>5. PICK T, new : FramesMove(new, T)
  BY <1>1 DEF Call
<1>6. /\ emitted' \in Seq(Captured) /\ pending' \in Seq(Pending) /\ decoded' \subseteq Frame
  <2>1. emitted' \in Seq(Captured)
    BY <1>4, <1>5, FramesStep
  <2> QED  BY <1>4, <1>5, <2>1 DEF FramesMove, Splits, TypeOK
<1>7. arrivals' \in [Frame -> 0 .. Copies] /\ stored' \subseteq Frame
  BY <1>1 DEF Call, Keep
<1>8. /\ expiredOrder' \in Seq(Frame) /\ Len(expiredOrder') <= MaxSamples
      /\ expired' \subseteq Range(expiredOrder')
  BY <1>3 DEF LostRemembered, Remembered
<1>9. TypeOK'
  BY <1>1, <1>6, <1>7, <1>8 DEF TypeOK, Fits
<1>10. JoinerInv'
  BY <1>1, <1>2, <1>3, <1>9 DEF JoinerInv
<1>11. MaxDelta <= MaxSamples /\ MetadataUsedOnce => MetadataUsedOnce'
  BY <1>1, CallReuse
<1> QED  BY <1>10, <1>11

(* Every step of the bridge is a step of the joiner, or leaves it alone.   *)
LEMMA BridgeIsJoiner == ASSUME [BridgeNext]_bridgeVars PROVE [Next]_vars
<1>1. CASE RecordTelemetry
  BY <1>1 DEF RecordTelemetry, Next
<1>2. CASE RecordDecodedFrame
  BY <1>2 DEF RecordDecodedFrame, Next
<1>3. CASE RecordReceiverEnd
  BY <1>3 DEF RecordReceiverEnd, Next
<1>4. CASE Elapse
  BY <1>4 DEF Elapse, Next
<1>5. CASE Putting \/ ReleaseSource \/ Consume \/ UNCHANGED bridgeVars
  BY <1>5 DEF Putting, PutFrame, CloseQueue, ReleaseSource, Consume, ReadPacket,
              TakeFrame, GetWaits, GetNothing, AskOpened, ProcessFrame, Consumer,
              bridgeVars
<1> QED  BY <1>1, <1>2, <1>3, <1>4, <1>5 DEF BridgeNext

(* The invariant of the joiner is one of the bridge.                       *)
LEMMA BridgeJoins == BridgeSpec => []JoinerInv
<1>1. BridgeInit => JoinerInv
  BY JoinerInit DEF BridgeInit
<1>2. JoinerInv /\ [BridgeNext]_bridgeVars => JoinerInv'
  BY BridgeIsJoiner, JoinerStep
<1> QED  BY <1>1, <1>2, PTL DEF BridgeSpec

(* The joiner keeps its bounds behind any queue and consumer: never more   *)
(* than max_samples metadata or tombstones, never more than max_pending    *)
(* frames that wait (FrameJoiner.ingest_item, ingest_decoded, flush).      *)
THEOREM JoinerTyped == BridgeSpec => []TypeOK
<1>1. JoinerInv => TypeOK
  BY DEF JoinerInv
<1> QED  BY <1>1, BridgeJoins, PTL

(* A frame whose metadata was there before it was decoded, and was among   *)
(* the last max_samples that came, is emitted with that metadata, whatever *)
(* was lost, late or reordered in between (_take_metadata).                *)
THEOREM EarlyMetadataIsJoined == BridgeSpec => []EarlyMetadataJoined
<1>1. JoinerInv => EarlyMetadataJoined
  BY DEF JoinerInv, EarlyJoined
<1> QED  BY <1>1, BridgeJoins, PTL

(* Metadata of a frame emitted without it is given to no other frame, and  *)
(* nothing is given twice unless it came twice (_take_metadata,            *)
(* _remember_expired), as long as there are as many tombstones as the      *)
(* frames a PTS reaches back.  The code keeps 512 for a reach of one; with *)
(* fewer, a tombstone is pushed out while later frames still reach its     *)
(* metadata.                                                               *)
THEOREM MetadataIsUsedOnce ==
  ASSUME MaxDelta <= MaxSamples
  PROVE  BridgeSpec => []MetadataUsedOnce
<1>1. BridgeInit => MetadataUsedOnce
  BY JoinerInit DEF BridgeInit
<1>2. JoinerInv /\ MetadataUsedOnce /\ [BridgeNext]_bridgeVars => MetadataUsedOnce'
  BY BridgeIsJoiner, JoinerStep
<1> QED  BY <1>1, <1>2, BridgeJoins, PTL DEF BridgeSpec

(* The frames that one has overtaken waited when it was emitted, and each  *)
(* of them is emitted later at one place only.                             *)
LEMMA OvertakenBound == JoinerInv => BoundedReordering
<1> SUFFICES ASSUME JoinerInv, NEW i \in DOMAIN emitted
             PROVE  Cardinality({j \in DOMAIN emitted :
                      j > i /\ emitted[j].frame < emitted[i].frame}) <= MaxPending
  BY DEF BoundedReordering
<1> DEFINE later == {j \in DOMAIN emitted : j > i /\ emitted[j].frame < emitted[i].frame}
           f == [j \in later |-> emitted[j].frame]
<1>1. /\ OnceEach(emitted) /\ decoded = FramesOf(emitted) \cup FramesOf(pending)
      /\ decoded \subseteq Frame /\ Cardinality(Overtaken(i)) <= MaxPending
      /\ emitted \in Seq(Captured) /\ MaxPending \in Nat
  BY JoinerAssumption DEF JoinerInv, FramesKept, FewOvertaken, TypeOK
<1>2. DOMAIN emitted = 1 .. Len(emitted) /\ Len(emitted) \in Nat
  BY <1>1, LenProperties
<1>3. ASSUME NEW j \in later
      PROVE  emitted[j].frame \in Overtaken(i)
  <2>1. emitted[j].frame \in decoded
    BY <1>1 DEF FramesOf
  <2>2. \A k \in 1 .. i : emitted[k].frame # emitted[j].frame
    <3> SUFFICES ASSUME NEW k \in 1 .. i PROVE emitted[k].frame # emitted[j].frame
      OBVIOUS
    <3>1. k \in DOMAIN emitted /\ k # j
      BY <1>2
    <3> QED  BY <1>1, <3>1 DEF OnceEach
  <2> QED  BY <2>1, <2>2 DEF Overtaken
<1>4. f \in Injection(later, Overtaken(i))
  <2>1. f \in [later -> Overtaken(i)]
    BY <1>3
  <2>2. \A a, b \in later : f[a] = f[b] => a = b
    BY <1>1 DEF OnceEach
  <2> QED  BY <2>1, <2>2 DEF Injection, IsInjective
<1>5. IsFiniteSet(Overtaken(i))
  <2>1. IsFiniteSet(Frame)
    BY FS_Interval, JoinerAssumption DEF Frame
  <2>2. Overtaken(i) \subseteq Frame
    BY <1>1 DEF Overtaken
  <2> QED  BY <2>1, <2>2, FS_Subset
<1> HIDE DEF later, f
<1>6. /\ IsFiniteSet(later)
      /\ Cardinality(later) <= Cardinality(Overtaken(i))
  BY <1>4, <1>5, FS_Injection
<1>7. Cardinality(later) \in Nat /\ Cardinality(Overtaken(i)) \in Nat
  BY <1>5, <1>6, FS_CardinalityType
<1>8. Cardinality(later) <= MaxPending
  BY <1>1, <1>6, <1>7
<1> QED  BY <1>8 DEF later

(* A frame overtakes no more frames than the joiner lets wait (max_pending,*)
(* ingest_decoded), for any deadline and any loss.                         *)
THEOREM ReorderingIsBounded == BridgeSpec => []BoundedReordering
BY OvertakenBound, BridgeJoins, PTL

-----------------------------------------------------------------------------
(* The oldest of a queue of frames leaves it.                              *)
LEMMA TailFrames ==
  ASSUME NEW S, NEW s \in Seq(S), s # <<>>, OnceEach(s)
  PROVE  /\ Tail(s) \in Seq(S) /\ Len(Tail(s)) = Len(s) - 1
         /\ OnceEach(Tail(s))
         /\ Head(s) \in S
         /\ FramesOf(s) = {Head(s).frame} \cup FramesOf(Tail(s))
         /\ Head(s).frame \notin FramesOf(Tail(s))
<1> DEFINE t == Tail(s)
           n == Len(s)
<1>1. /\ Head(s) \in S /\ t \in Seq(S) /\ Len(t) = n - 1
      /\ \A i \in 1 .. Len(t) : t[i] = s[i + 1]
  BY HeadTailProperties
<1>2. n \in Nat \ {0} /\ DOMAIN s = 1 .. n /\ Head(s) = s[1]
  BY LenProperties, EmptySeq
<1>3. DOMAIN t = 1 .. Len(t)
  BY <1>1, LenProperties
<1> HIDE DEF t, n
<1>4. DOMAIN t = 1 .. (n - 1)
  BY <1>1, <1>3
<1>5. \A i \in DOMAIN t : i + 1 \in DOMAIN s /\ t[i] = s[i + 1] /\ i + 1 # 1
  BY <1>1, <1>2, <1>3, <1>4
<1>6. \A i \in DOMAIN s : i = 1 \/ (i - 1 \in DOMAIN t /\ t[i - 1] = s[i])
  <2> SUFFICES ASSUME NEW i \in DOMAIN s, i # 1
               PROVE  i - 1 \in DOMAIN t /\ t[i - 1] = s[i]
    OBVIOUS
  <2>1. i \in Int /\ i - 1 \in DOMAIN t /\ (i - 1) + 1 = i
    BY <1>2, <1>4
  <2> QED  BY <1>5, <2>1
<1>7. 1 \in DOMAIN s
  BY <1>2
<1>8. OnceEach(t)
  <2> SUFFICES ASSUME NEW i \in DOMAIN t, NEW j \in DOMAIN t, t[i].frame = t[j].frame
               PROVE  i = j
    BY DEF OnceEach
  <2>1. i + 1 = j + 1
    BY <1>5 DEF OnceEach
  <2> QED  BY <1>4, <2>1
<1>9. Head(s).frame \notin FramesOf(t)
  BY <1>2, <1>5, <1>7 DEF OnceEach, FramesOf
<1>10. FramesOf(s) = {Head(s).frame} \cup FramesOf(t)
  <2>1. FramesOf(t) \subseteq FramesOf(s)
    BY <1>5 DEF FramesOf
  <2>2. Head(s).frame \in FramesOf(s)
    BY <1>2, <1>7 DEF FramesOf
  <2>3. FramesOf(s) \subseteq {Head(s).frame} \cup FramesOf(t)
    BY <1>2, <1>6 DEF FramesOf
  <2> QED  BY <2>1, <2>2, <2>3
<1> QED  BY <1>1, <1>8, <1>9, <1>10 DEF t, n

(* put keeps the frame, for which it may drop the oldest, or refuses it.   *)
LEMMA PutKeeps ==
  ASSUME NEW q \in Queues(Captured), NEW d \in Captured,
         OnceEach(q.items), d.frame \notin FramesOf(q.items)
  PROVE  LET p == Put(q, d)
         IN /\ p \in Queues(Captured) /\ OnceEach(p.items)
            /\ FramesOf(p.items) \subseteq FramesOf(q.items) \cup {d.frame}
            /\ Len(p.items) + p.dropped + (IF q.closed THEN 1 ELSE 0)
                 = Len(q.items) + q.dropped + 1
<1> DEFINE p == Put(q, d)
           full == Len(q.items) >= MaxSize
           kept == IF full THEN Tail(q.items) ELSE q.items
           more == IF full THEN q.dropped + 1 ELSE q.dropped
<1>1. /\ q = [items |-> q.items, closed |-> q.closed, dropped |-> q.dropped]
      /\ q.items \in Seq(Captured) /\ q.closed \in BOOLEAN /\ q.dropped \in Nat
  BY DEF Queues
<1>2. Len(q.items) \in Nat /\ MaxSize \in Nat \ {0}
  BY <1>1, LenProperties, MaxSizeAssumption
<1>3. CASE q.closed
  <2>1. p = q
    BY <1>3 DEF Put
  <2> HIDE DEF p
  <2>2. Len(p.items) + p.dropped + 1 = Len(q.items) + q.dropped + 1
    BY <2>1
  <2> QED  BY <1>3, <2>1, <2>2 DEF p
<1>4. CASE ~q.closed
  <2>1. /\ kept \in Seq(Captured) /\ OnceEach(kept)
        /\ FramesOf(kept) \subseteq FramesOf(q.items)
        /\ Len(kept) + more = Len(q.items) + q.dropped
        /\ more \in Nat
    <3>1. CASE full
      <4>1. q.items # <<>>
        <5>1. Len(q.items) # 0
          BY <1>2, <3>1
        <5> QED  BY <1>1, <5>1, EmptySeq
      <4>2. /\ Tail(q.items) \in Seq(Captured) /\ OnceEach(Tail(q.items))
            /\ FramesOf(Tail(q.items)) \subseteq FramesOf(q.items)
            /\ Len(Tail(q.items)) = Len(q.items) - 1
        BY <1>1, <4>1, TailFrames
      <4>3. kept = Tail(q.items) /\ more = q.dropped + 1
        BY <3>1
      <4> HIDE DEF kept, more
      <4>4. Len(kept) + more = Len(q.items) + q.dropped
        BY <1>1, <1>2, <4>2, <4>3
      <4>5. more \in Nat
        BY <1>1, <4>3
      <4> QED  BY <4>2, <4>3, <4>4, <4>5
    <3>2. CASE ~full
      BY <1>1, <3>2
    <3> QED  BY <3>1, <3>2
  <2>2. p = [q EXCEPT !.items = Append(kept, d), !.dropped = more]
    BY <1>4 DEF Put
  <2> HIDE DEF p, kept, more
  <2>3. p = [items |-> Append(kept, d), closed |-> q.closed, dropped |-> more]
    BY <1>1, <2>2
  <2>4. d.frame \notin FramesOf(kept)
    BY <2>1
  <2>5. /\ Append(kept, d) \in Seq(Captured) /\ Len(Append(kept, d)) = Len(kept) + 1
        /\ FramesOf(Append(kept, d)) = FramesOf(kept) \cup {d.frame}
        /\ OnceEach(Append(kept, d))
    BY <2>1, <2>4, AppendFrames
  <2>6. p.items = Append(kept, d) /\ p.dropped = more /\ p.closed = q.closed
    BY <2>3
  <2>7. p \in Queues(Captured)
    BY <1>1, <2>1, <2>3, <2>5 DEF Queues
  <2>8. Len(kept) \in Nat
    BY <2>1, LenProperties
  <2> DEFINE a == Len(kept)
             b == Len(q.items)
             c == Len(p.items)
  <2>9. c = a + 1 /\ a \in Nat /\ b \in Nat /\ a + more = b + q.dropped
    BY <1>2, <2>1, <2>5, <2>6, <2>8
  <2> HIDE DEF a, b, c
  <2>10. c + p.dropped + 0 = b + q.dropped + 1
    BY <1>1, <2>1, <2>6, <2>9
  <2> QED  BY <1>4, <2>1, <2>5, <2>6, <2>7, <2>10 DEF p, b, c
<1> QED  BY <1>1, <1>3, <1>4

-----------------------------------------------------------------------------
(* What the joiner emitted is about to be put, queued, taken, dropped or   *)
(* refused, and no frame is in two of the first three places.              *)
Delivered ==
  /\ putting \in Seq(Captured) /\ queue \in Queues(Captured)
  /\ refused \in Nat /\ seen \in Seq(Frame)
  /\ OnceEach(putting) /\ OnceEach(queue.items) /\ IsInjective(seen)
  /\ FramesOf(putting) \cup FramesOf(queue.items) \cup Range(seen)
       \subseteq FramesOf(emitted)
  /\ FramesOf(putting) \cap FramesOf(queue.items) = {}
  /\ FramesOf(putting) \cap Range(seen) = {}
  /\ FramesOf(queue.items) \cap Range(seen) = {}
  /\ Len(emitted) = Len(putting) + (Len(queue.items) + queue.dropped)
                      + Len(seen) + refused

(* The bridge starts with nothing put, queued, refused or seen.            *)
LEMMA DeliveredInit == BridgeInit => Delivered
<1> SUFFICES ASSUME BridgeInit PROVE Delivered
  OBVIOUS
<1>1. /\ putting = <<>> /\ queue = [items |-> <<>>, closed |-> FALSE, dropped |-> 0]
      /\ refused = 0 /\ seen = <<>> /\ emitted = <<>>
  BY DEF BridgeInit, NewSource, EmptyQueue, Init
<1>2. queue.items = <<>> /\ queue.dropped = 0
  BY <1>1
<1>3. /\ putting \in Seq(Captured) /\ queue.items \in Seq(Captured)
      /\ seen \in Seq(Frame) /\ Len(putting) = 0 /\ Len(queue.items) = 0
      /\ Len(seen) = 0 /\ Len(emitted) = 0
      /\ DOMAIN putting = {} /\ DOMAIN queue.items = {} /\ DOMAIN seen = {}
  BY <1>1, <1>2
<1>4. FramesOf(putting) = {} /\ FramesOf(queue.items) = {} /\ Range(seen) = {}
  BY <1>3 DEF FramesOf, Range
<1>5. OnceEach(putting) /\ OnceEach(queue.items) /\ IsInjective(seen)
  BY <1>3 DEF OnceEach, IsInjective
<1>6. queue \in Queues(Captured)
  BY <1>1, <1>3 DEF Queues
<1>7. Len(emitted) = Len(putting) + (Len(queue.items) + queue.dropped)
                       + Len(seen) + refused
  BY <1>1, <1>2, <1>3
<1> QED  BY <1>1, <1>3, <1>4, <1>5, <1>6, <1>7 DEF Delivered

(* The slice of a call's new frames is what the call appended.             *)
LEMMA SuffixIs ==
  ASSUME NEW S, NEW u \in Seq(S), NEW v \in Seq(S)
  PROVE  SubSeq(u \o v, Len(u) + 1, Len(u \o v)) = v
<1> DEFINE a == Len(u)
           b == Len(v)
           w == u \o v
           c == Len(w)
           x == SubSeq(w, a + 1, c)
<1>1. /\ a \in Nat /\ b \in Nat /\ c = a + b
      /\ \A i \in 1 .. (a + b) : w[i] = IF i <= a THEN u[i] ELSE v[i - a]
  BY ConcatProperties, LenProperties
<1>2. v \in [1 .. b -> S]
  BY LenProperties
<1> HIDE DEF a, b, c, w
<1>3. \A i \in 1 .. b : v[i] \in S
  BY <1>2
<1>4. \A i \in (a + 1) .. c : w[i] \in S
  <2> SUFFICES ASSUME NEW i \in (a + 1) .. c PROVE w[i] \in S
    OBVIOUS
  <2>1. i \in 1 .. (a + b) /\ ~(i <= a) /\ i - a \in 1 .. b
    BY <1>1
  <2> QED  BY <1>1, <1>3, <2>1
<1>5. a + 1 \in Int /\ c \in Int /\ c - (a + 1) + 1 = b
  BY <1>1
<1>6. /\ x \in Seq(S) /\ Len(x) = IF a + 1 <= c THEN c - (a + 1) + 1 ELSE 0
      /\ \A i \in 1 .. (c - (a + 1) + 1) : x[i] = w[(a + 1) + i - 1]
  BY <1>4, <1>5, SubSeqProperties
<1>7. (IF a + 1 <= c THEN c - (a + 1) + 1 ELSE 0) = b
  BY <1>1
<1> HIDE DEF x
<1>8. x \in Seq(S) /\ Len(x) = b /\ \A i \in 1 .. b : x[i] = w[(a + 1) + i - 1]
  <2>1. Len(x) = b
    BY <1>6, <1>7
  <2>2. \A i \in 1 .. b : x[i] = w[(a + 1) + i - 1]
    BY <1>5, <1>6
  <2> QED  BY <1>6, <2>1, <2>2
<1>9. \A i \in 1 .. b : x[i] = v[i]
  <2> SUFFICES ASSUME NEW i \in 1 .. b PROVE x[i] = v[i]
    OBVIOUS
  <2>1. /\ (a + 1) + i - 1 = a + i /\ (a + i) - a = i
        /\ a + i \in 1 .. (a + b) /\ ~(a + i <= a)
    BY <1>1
  <2> QED  BY <1>1, <1>8, <2>1
<1>10. x \in [1 .. b -> S]
  BY <1>8, LenProperties
<1>11. x = v
  <2>1. x = [i \in 1 .. b |-> x[i]] /\ v = [i \in 1 .. b |-> v[i]]
    BY <1>2, <1>10
  <2>2. [i \in 1 .. b |-> x[i]] = [i \in 1 .. b |-> v[i]]
    BY <1>9
  <2> QED  BY <2>1, <2>2
<1> QED  BY <1>11 DEF x, w, a, c

(* What a joiner call returns is new, and what is put is what it returned. *)
LEMMA CallDelivers ==
  ASSUME JoinerInv, Delivered, [Next]_vars, putting = <<>>,
         putting' = SubSeq(emitted', Len(emitted) + 1, Len(emitted')),
         UNCHANGED <<queue, refused, seen>>
  PROVE  Delivered'
<1>1. PICK k, extra, kept : StoredKept' /\ Fits' /\ Call(k, extra, kept)
  BY StepCall
<1>2. PICK T, new : FramesMove(new, T)
  BY <1>1 DEF Call
<1>3. /\ new \in Seq(Captured) /\ OnceEach(new)
      /\ FramesOf(new) \subseteq FramesOf(pending) \cup T
      /\ \A f \in decoded, t \in T : f < t
      /\ emitted' = emitted \o new /\ T \in SUBSET Frame
  BY <1>2 DEF FramesMove, Splits
<1>4. /\ emitted \in Seq(Captured)
      /\ decoded = FramesOf(emitted) \cup FramesOf(pending)
      /\ FramesOf(emitted) \cap FramesOf(pending) = {}
  BY DEF JoinerInv, TypeOK, FramesKept
<1>5. FramesOf(emitted) \cap FramesOf(new) = {}
  <2>1. \A t \in T : t \notin decoded
    <3> SUFFICES ASSUME NEW t \in T, t \in decoded PROVE FALSE
      OBVIOUS
    <3>1. t < t /\ t \in Nat
      BY <1>3 DEF Frame
    <3> QED  BY <3>1
  <2> QED  BY <1>3, <1>4, <2>1
<1> DEFINE a == Len(emitted)
           b == Len(new)
           c == Len(emitted')
<1>6. /\ a \in Nat /\ b \in Nat /\ c = a + b /\ emitted' \in Seq(Captured)
      /\ \A i \in 1 .. (a + b) : emitted'[i] = IF i <= a THEN emitted[i] ELSE new[i - a]
  BY <1>3, <1>4, ConcatProperties, LenProperties
<1>7. DOMAIN new = 1 .. b
  BY <1>3, LenProperties
<1>8. putting' = new
  <2>1. putting' = SubSeq(emitted \o new, Len(emitted) + 1, Len(emitted \o new))
    BY <1>3
  <2> QED  BY <1>3, <1>4, <2>1, SuffixIs
<1>9. FramesOf(emitted') = FramesOf(emitted) \cup FramesOf(new)
  BY <1>3, <1>4, ConcatFrames
<1>10. c = b + (Len(queue.items) + queue.dropped) + Len(seen) + refused
  <2>1. Len(putting) = 0
    OBVIOUS
  <2>2. a = Len(putting) + (Len(queue.items) + queue.dropped) + Len(seen) + refused
    BY DEF Delivered
  <2>3. Len(queue.items) \in Nat /\ queue.dropped \in Nat /\ Len(seen) \in Nat /\ refused \in Nat
    BY LenProperties DEF Delivered, Queues
  <2> DEFINE m == Len(queue.items)
             n == Len(seen)
             x == queue.dropped
  <2>4. a = 0 + (m + x) + n + refused
    BY <2>1, <2>2
  <2>5. m \in Nat /\ n \in Nat /\ x \in Nat /\ refused \in Nat
    BY <2>3
  <2>6. a \in Nat /\ b \in Nat /\ c = a + b
    BY <1>6
  <2> HIDE DEF a, b, c, m, n, x
  <2>7. c = b + (m + x) + n + refused
    BY <2>4, <2>5, <2>6
  <2> QED  BY <2>7 DEF m, n, x
<1> HIDE DEF a, b, c
<1>11. /\ queue' = queue /\ refused' = refused /\ seen' = seen
       /\ FramesOf(putting') = FramesOf(new) /\ Len(putting') = b
  BY <1>8 DEF b
<1> QED  BY <1>3, <1>5, <1>8, <1>9, <1>10, <1>11 DEF Delivered, c

(* Putting a frame queues it, drops the oldest for it, or has it refused.  *)
LEMMA PutDelivers ==
  ASSUME Delivered, PutFrame
  PROVE  Delivered'
<1>1. /\ putting \in Seq(Captured) /\ putting # <<>> /\ OnceEach(putting)
      /\ queue \in Queues(Captured) /\ OnceEach(queue.items)
      /\ refused \in Nat /\ seen \in Seq(Frame) /\ queue.closed \in BOOLEAN
  BY DEF Delivered, PutFrame, Queues
<1> DEFINE d == Head(putting)
           t == Tail(putting)
<1>2. /\ t \in Seq(Captured) /\ Len(t) = Len(putting) - 1 /\ OnceEach(t)
      /\ d \in Captured /\ FramesOf(putting) = {d.frame} \cup FramesOf(t)
      /\ d.frame \notin FramesOf(t)
  BY <1>1, TailFrames
<1>3. /\ putting' = t /\ queue' = Put(queue, d)
      /\ refused' = (IF queue.closed THEN refused + 1 ELSE refused)
      /\ emitted' = emitted /\ seen' = seen
  BY DEF PutFrame, vars, joiner, reading
<1> HIDE DEF d, t
<1>4. d.frame \notin FramesOf(queue.items)
  BY <1>2 DEF Delivered
<1>5. /\ queue' \in Queues(Captured) /\ OnceEach(queue'.items)
      /\ FramesOf(queue'.items) \subseteq FramesOf(queue.items) \cup {d.frame}
      /\ Len(queue'.items) + queue'.dropped + (IF queue.closed THEN 1 ELSE 0)
           = Len(queue.items) + queue.dropped + 1
  BY <1>1, <1>2, <1>3, <1>4, PutKeeps
<1>6. Len(emitted') = Len(putting') + (Len(queue'.items) + queue'.dropped)
                        + Len(seen') + refused'
  <2>1. /\ queue'.dropped \in Nat /\ queue.dropped \in Nat
        /\ queue'.items \in Seq(Captured) /\ queue.items \in Seq(Captured)
    BY <1>1, <1>5 DEF Queues
  <2> DEFINE e == Len(emitted)
             p == Len(putting)
             p2 == Len(t)
             m == Len(queue.items)
             m2 == Len(queue'.items)
             n == Len(seen)
             one == IF queue.closed THEN 1 ELSE 0
             x == queue.dropped
             x2 == queue'.dropped
  <2>2. /\ p \in Nat /\ p2 \in Nat /\ m \in Nat /\ m2 \in Nat /\ n \in Nat
    BY <1>1, <1>2, <2>1, LenProperties
  <2>3. e = p + (m + x) + n + refused
    BY DEF Delivered
  <2>4. p2 = p - 1 /\ m2 + x2 + one = m + x + 1
    BY <1>2, <1>5
  <2>5. refused' = refused + one /\ one \in Nat
    BY <1>1, <1>3
  <2>6. x \in Nat /\ x2 \in Nat /\ refused \in Nat
    BY <1>1, <2>1
  <2> HIDE DEF e, p, p2, m, m2, n, one, x, x2
  <2>7. e = p2 + (m2 + x2) + n + refused'
    BY <2>2, <2>3, <2>4, <2>5, <2>6
  <2> QED  BY <1>3, <2>7 DEF e, p2, m2, n, x2
<1>7. refused' \in Nat
  BY <1>1, <1>3
<1>8. /\ FramesOf(t) \cup FramesOf(queue'.items) \cup Range(seen)
           \subseteq FramesOf(emitted)
      /\ FramesOf(t) \cap FramesOf(queue'.items) = {}
      /\ FramesOf(t) \cap Range(seen) = {}
      /\ FramesOf(queue'.items) \cap Range(seen) = {}
  BY <1>2, <1>5 DEF Delivered
<1>9. IsInjective(seen)
  BY DEF Delivered
<1> QED  BY <1>1, <1>2, <1>3, <1>5, <1>6, <1>7, <1>8, <1>9 DEF Delivered

(* get drops all but the newest, which is taken.                           *)
LEMMA TakeDelivers ==
  ASSUME JoinerInv, Delivered, TakeFrame
  PROVE  Delivered'
<1>1. /\ putting \in Seq(Captured) /\ OnceEach(putting)
      /\ queue = [items |-> queue.items, closed |-> queue.closed, dropped |-> queue.dropped]
      /\ queue.items \in Seq(Captured) /\ queue.items # <<>>
      /\ queue.closed \in BOOLEAN /\ queue.dropped \in Nat
      /\ refused \in Nat /\ seen \in Seq(Frame) /\ IsInjective(seen)
  BY DEF Delivered, TakeFrame, Queues
<1> DEFINE m == Len(queue.items)
           n == Len(seen)
           f == queue.items[m].frame
           more == queue.dropped + (m - 1)
<1>2. m \in Nat \ {0} /\ n \in Nat /\ DOMAIN queue.items = 1 .. m /\ DOMAIN seen = 1 .. n
  BY <1>1, LenProperties, EmptySeq
<1>3. f \in Frame /\ f \in FramesOf(queue.items)
  <2>1. m \in DOMAIN queue.items /\ m \in 1 .. m
    BY <1>2
  <2>2. queue.items[m] \in Captured
    BY <1>1, <2>1, ElementOfSeq
  <2> QED  BY <2>1, <2>2 DEF FramesOf, Captured
<1>4. /\ seen' = Append(seen, f) /\ queue' = [queue EXCEPT !.items = <<>>, !.dropped = more]
      /\ putting' = putting /\ refused' = refused /\ emitted' = emitted
  BY DEF TakeFrame, Newest, Taken, vars, joiner
<1> HIDE DEF f, more
<1>5. queue' = [items |-> <<>>, closed |-> queue.closed, dropped |-> more]
  BY <1>1, <1>4
<1>6. queue'.items = <<>> /\ queue'.dropped = more /\ Len(queue'.items) = 0
  BY <1>5
<1>7. more \in Nat /\ more = queue.dropped + (m - 1)
  BY <1>1, <1>2 DEF more
<1>8. queue' \in Queues(Captured)
  BY <1>1, <1>5, <1>7 DEF Queues
<1>9. FramesOf(queue'.items) = {} /\ OnceEach(queue'.items)
  BY <1>6 DEF FramesOf, OnceEach
<1>10. /\ seen' \in Seq(Frame) /\ Len(seen') = n + 1
       /\ \A i \in 1 .. n : seen'[i] = seen[i]
       /\ seen'[n + 1] = f
  BY <1>1, <1>3, <1>4, AppendProperties
<1>11. DOMAIN seen' = 1 .. (n + 1)
  BY <1>10, LenProperties
<1> HIDE DEF m, n
<1>12. ASSUME NEW i \in DOMAIN seen'
       PROVE  \/ i \in DOMAIN seen /\ seen'[i] = seen[i] /\ seen[i] \in Range(seen)
              \/ i = n + 1 /\ seen'[i] = f
  <2>1. i \in 1 .. n \/ i = n + 1
    BY <1>2, <1>11
  <2> QED  BY <1>2, <1>10, <2>1 DEF Range
<1>13. f \notin Range(seen)
  BY <1>3 DEF Delivered
<1>14. Range(seen') \subseteq Range(seen) \cup {f}
  BY <1>12 DEF Range
<1>15. IsInjective(seen')
  <2> SUFFICES ASSUME NEW a \in DOMAIN seen', NEW b \in DOMAIN seen', seen'[a] = seen'[b]
               PROVE  a = b
    BY DEF IsInjective
  <2>1. \/ a \in DOMAIN seen /\ seen'[a] = seen[a] /\ seen[a] \in Range(seen)
        \/ a = n + 1 /\ seen'[a] = f
    BY <1>12
  <2>2. \/ b \in DOMAIN seen /\ seen'[b] = seen[b] /\ seen[b] \in Range(seen)
        \/ b = n + 1 /\ seen'[b] = f
    BY <1>12
  <2> QED  BY <1>1, <1>13, <2>1, <2>2 DEF IsInjective
<1>16. Len(emitted') = Len(putting') + (Len(queue'.items) + queue'.dropped)
                         + Len(seen') + refused'
  <2> DEFINE p == Len(putting)
             e == Len(emitted)
  <2>1. p \in Nat /\ e = p + (m + queue.dropped) + n + refused
    BY <1>1, LenProperties DEF Delivered, m, n
  <2> HIDE DEF p, e
  <2>2. e = p + (0 + more) + (n + 1) + refused
    BY <1>1, <1>2, <1>7, <2>1
  <2> QED  BY <1>4, <1>6, <1>10, <2>2 DEF p, e
<1>17. /\ FramesOf(putting) \cup Range(seen') \subseteq FramesOf(emitted)
       /\ FramesOf(putting) \cap Range(seen') = {}
  BY <1>3, <1>14 DEF Delivered
<1> QED  BY <1>1, <1>4, <1>8, <1>9, <1>10, <1>15, <1>16, <1>17 DEF Delivered

(* Every step of the bridge keeps the delivery of the frames.              *)
LEMMA DeliveredStep ==
  ASSUME JoinerInv, Delivered, [BridgeNext]_bridgeVars
  PROVE  Delivered'
<1>1. CASE RecordTelemetry \/ RecordDecodedFrame \/ RecordReceiverEnd
  <2>1. [Next]_vars
    BY BridgeIsJoiner
  <2>2. EnqueueCaptured
    BY <1>1 DEF RecordTelemetry, RecordDecodedFrame, RecordReceiverEnd
  <2>3. /\ putting = <<>> /\ UNCHANGED <<queue, refused, seen>>
        /\ putting' = SubSeq(emitted', Len(emitted) + 1, Len(emitted'))
    BY <2>2 DEF EnqueueCaptured, reading
  <2> QED  BY <2>1, <2>3, CallDelivers
<1>2. CASE PutFrame
  BY <1>2, PutDelivers
<1>3. CASE TakeFrame
  BY <1>3, TakeDelivers
<1>4. CASE CloseQueue
  <2>1. /\ queue' = [queue EXCEPT !.closed = TRUE] /\ putting' = putting
        /\ refused' = refused /\ seen' = seen /\ emitted' = emitted
    BY <1>4 DEF CloseQueue, Close, vars, joiner, reading
  <2>2. /\ queue' \in Queues(Captured) /\ queue'.items = queue.items
        /\ queue'.dropped = queue.dropped
    BY <2>1 DEF Delivered, Queues
  <2> QED  BY <2>1, <2>2 DEF Delivered
<1>5. CASE Elapse \/ ReleaseSource \/ UNCHANGED bridgeVars
  <2>1. /\ queue' = queue /\ putting' = putting
        /\ refused' = refused /\ seen' = seen /\ emitted' = emitted
    BY <1>5 DEF Elapse, Tick, ReleaseSource, bridgeVars, vars, joiner, delivery, reading
  <2> QED  BY <2>1 DEF Delivered
<1>6. CASE ReadPacket \/ GetWaits \/ GetNothing \/ AskOpened \/ ProcessFrame
  <2>1. /\ queue' = queue /\ putting' = putting
        /\ refused' = refused /\ seen' = seen /\ emitted' = emitted
    BY <1>6 DEF ReadPacket, GetWaits, GetNothing, AskOpened, ProcessFrame, Consumer,
                vars, joiner, delivery
  <2> QED  BY <2>1 DEF Delivered
<1> QED  BY <1>1, <1>2, <1>3, <1>4, <1>5, <1>6 DEF BridgeNext, Putting, Consume

(* Delivered to the queue and emitted by the joiner, the frames add up.    *)
LEMMA DeliveredAll == JoinerInv /\ Delivered => BridgeConserved
<1> SUFFICES ASSUME JoinerInv, Delivered PROVE BridgeConserved
  OBVIOUS
<1>1. /\ queue.items \in Seq(Captured) /\ seen \in Seq(Frame) /\ refused \in Nat
      /\ queue.dropped \in Nat /\ putting \in Seq(Captured)
      /\ IsInjective(seen) /\ OnceEach(queue.items)
      /\ FramesOf(queue.items) \cap Range(seen) = {}
  BY DEF Delivered, Queues
<1> DEFINE queued == [i \in DOMAIN queue.items |-> queue.items[i].frame]
           w == seen \o queued
           m == Len(queue.items)
           n == Len(seen)
<1>2. m \in Nat /\ n \in Nat /\ DOMAIN queue.items = 1 .. m /\ DOMAIN seen = 1 .. n
  BY <1>1, LenProperties
<1>3. queued \in Seq(Frame) /\ Len(queued) = m
  <2>1. \A i \in 1 .. m : queue.items[i].frame \in Frame
    <3> SUFFICES ASSUME NEW i \in 1 .. m PROVE queue.items[i].frame \in Frame
      OBVIOUS
    <3>1. queue.items[i] \in Captured
      BY <1>1, ElementOfSeq
    <3> QED  BY <3>1 DEF Captured
  <2>2. queued \in [1 .. m -> Frame]
    BY <1>2, <2>1
  <2> HIDE DEF queued, m
  <2>3. queued \in Seq(Frame)
    BY <1>2, <2>2
  <2>4. DOMAIN queued = 1 .. m /\ DOMAIN queued = 1 .. Len(queued) /\ Len(queued) \in Nat
    BY <2>2, <2>3, LenProperties
  <2> QED  BY <1>2, <2>3, <2>4
<1>4. \A i \in 1 .. m : queued[i] = queue.items[i].frame
  BY <1>2
<1> HIDE DEF queued
<1>5. /\ w \in Seq(Frame) /\ Len(w) = n + m
      /\ \A i \in 1 .. (n + m) : w[i] = IF i <= n THEN seen[i] ELSE queued[i - n]
  <2>1. /\ w \in Seq(Frame) /\ Len(w) = Len(seen) + Len(queued)
        /\ \A i \in 1 .. (Len(seen) + Len(queued)) :
             w[i] = IF i <= Len(seen) THEN seen[i] ELSE queued[i - Len(seen)]
    <3>1. seen \o queued \in Seq(Frame) /\ Joins(seen \o queued, seen, queued)
      BY <1>1, <1>3, JoinsBoth
    <3> HIDE DEF n, m
    <3> QED  BY <3>1 DEF Joins
  <2>2. Len(seen) = n /\ Len(queued) = m
    BY <1>3
  <2> HIDE DEF w, n, m
  <2> QED  BY <2>1, <2>2
<1>6. DOMAIN w = 1 .. (n + m)
  BY <1>5, LenProperties
<1> HIDE DEF w, n, m
<1>7. ASSUME NEW i \in DOMAIN w
      PROVE  \/ /\ i \in DOMAIN seen /\ w[i] = seen[i] /\ w[i] \in Range(seen)
             \/ /\ i - n \in DOMAIN queue.items /\ w[i] = queue.items[i - n].frame
                /\ w[i] \in FramesOf(queue.items)
  <2>1. CASE i <= n
    <3>1. i \in 1 .. n /\ i \in 1 .. (n + m)
      BY <1>2, <1>6, <2>1
    <3> QED  BY <1>2, <1>5, <2>1, <3>1 DEF Range
  <2>2. CASE ~(i <= n)
    <3>1. i - n \in 1 .. m /\ i \in 1 .. (n + m)
      BY <1>2, <1>6, <2>2
    <3> QED  BY <1>2, <1>4, <1>5, <2>2, <3>1 DEF FramesOf
  <2> QED  BY <2>1, <2>2
<1>8. IsInjective(w)
  <2> SUFFICES ASSUME NEW a \in DOMAIN w, NEW b \in DOMAIN w, w[a] = w[b]
               PROVE  a = b
    BY DEF IsInjective
  <2>1. CASE a \in DOMAIN seen /\ w[a] = seen[a] /\ w[a] \in Range(seen)
    <3>1. b \in DOMAIN seen /\ w[b] = seen[b]
      BY <1>1, <1>7, <2>1
    <3> QED  BY <1>1, <2>1, <3>1 DEF IsInjective
  <2>2. CASE /\ a - n \in DOMAIN queue.items /\ w[a] = queue.items[a - n].frame
             /\ w[a] \in FramesOf(queue.items)
    <3>1. b - n \in DOMAIN queue.items /\ w[b] = queue.items[b - n].frame
      BY <1>1, <1>7, <2>2
    <3>2. a - n = b - n
      BY <1>1, <2>2, <3>1 DEF OnceEach
    <3>3. a \in Int /\ b \in Int /\ n \in Int
      BY <1>2, <1>6
    <3> QED  BY <3>2, <3>3
  <2> QED  BY <1>7, <2>1, <2>2
<1>9. Cardinality(decoded) =
        Len(pending) + Len(putting) + Len(queue.items) + Len(seen)
          + queue.dropped + refused
  <2> DEFINE e == Len(emitted)
             p == Len(putting)
             q == Len(pending)
  <2>1. Cardinality(decoded) = e + q
    BY DEF JoinerInv, FramesKept
  <2>2. e = p + (m + queue.dropped) + n + refused
    BY DEF Delivered, m, n
  <2>3. p \in Nat /\ q \in Nat
    BY <1>1, LenProperties DEF JoinerInv, TypeOK
  <2> DEFINE x == queue.dropped
             c == Cardinality(decoded)
  <2>4. /\ c = e + q /\ e = p + (m + x) + n + refused
        /\ p \in Nat /\ q \in Nat /\ m \in Nat /\ n \in Nat /\ x \in Nat /\ refused \in Nat
    BY <1>1, <1>2, <2>1, <2>2, <2>3
  <2> HIDE DEF c, e, p, q, x
  <2>5. c = q + p + m + n + x + refused
    BY <2>4
  <2> QED  BY <2>5 DEF c, p, q, m, n, x
<1> QED  BY <1>8, <1>9 DEF BridgeConserved, w, queued

(* Whatever the interleaving of producers, consumer, end and release, each *)
(* decoded frame is accounted for in one place, and none is taken twice    *)
(* (LatestFrameQueue, FieldIngestService._enqueue_captured).               *)
THEOREM FramesAreConserved == BridgeSpec => []BridgeConserved
<1>1. BridgeInit => JoinerInv /\ Delivered
  BY JoinerInit, DeliveredInit DEF BridgeInit
<1>2. JoinerInv /\ Delivered /\ [BridgeNext]_bridgeVars => Delivered'
  BY DeliveredStep
<1> QED  BY <1>1, <1>2, DeliveredAll, BridgeJoins, PTL DEF BridgeSpec

-----------------------------------------------------------------------------
(* Where the frames are among those emitted: at the end those about to be  *)
(* put, before them those that were refused, and up to Accepted those the  *)
(* queue has accepted, of which it holds the last; what was taken lies     *)
(* before.                                                                 *)
Placed ==
  LET m == Len(queue.items)
  IN /\ Accepted \in Nat /\ m <= Accepted
     /\ ~queue.closed => refused = 0
     /\ \A i \in 1 .. Len(putting) :
          putting[i] = emitted[(Len(emitted) - Len(putting)) + i]
     /\ \A i \in 1 .. m : queue.items[i] = emitted[(Accepted - m) + i]
     /\ \A i \in DOMAIN seen :
          \E j \in 1 .. (Accepted - m) : seen[i] = emitted[j].frame

(* A call of the joiner appends what it returns.                           *)
LEMMA CallAppends ==
  ASSUME JoinerInv, [Next]_vars
  PROVE  \E new \in Seq(Captured) :
           /\ emitted' = emitted \o new
           /\ emitted' \in Seq(Captured)
           /\ Len(emitted') = Len(emitted) + Len(new)
           /\ \A i \in 1 .. Len(emitted') :
                emitted'[i] = IF i <= Len(emitted) THEN emitted[i] ELSE new[i - Len(emitted)]
<1>1. PICK k, extra, kept : StoredKept' /\ Fits' /\ Call(k, extra, kept)
  BY StepCall
<1>2. PICK T, new : FramesMove(new, T)
  BY <1>1 DEF Call
<1>3. new \in Seq(Captured) /\ emitted' = emitted \o new
  BY <1>2 DEF FramesMove, Splits
<1>4. emitted \in Seq(Captured)
  BY DEF JoinerInv, TypeOK
<1>5. /\ emitted' \in Seq(Captured) /\ Len(emitted') = Len(emitted) + Len(new)
      /\ \A i \in 1 .. (Len(emitted) + Len(new)) :
           emitted'[i] = IF i <= Len(emitted) THEN emitted[i] ELSE new[i - Len(emitted)]
  BY <1>3, <1>4, ConcatProperties
<1> QED  BY <1>3, <1>5

(* At first there is no frame to be anywhere.                              *)
LEMMA PlacedInit == BridgeInit => Placed
<1> SUFFICES ASSUME BridgeInit PROVE Placed
  OBVIOUS
<1>1. /\ putting = <<>> /\ queue = [items |-> <<>>, closed |-> FALSE, dropped |-> 0]
      /\ refused = 0 /\ seen = <<>> /\ emitted = <<>>
  BY DEF BridgeInit, NewSource, EmptyQueue, Init
<1>2. queue.items = <<>>
  BY <1>1
<1>3. Len(putting) = 0 /\ Len(queue.items) = 0 /\ DOMAIN seen = {} /\ Len(emitted) = 0
  BY <1>1, <1>2
<1>4. Accepted = 0
  BY <1>1, <1>3 DEF Accepted
<1> QED  BY <1>1, <1>3, <1>4 DEF Placed

(* What a call returns comes last, and is about to be put.                 *)
LEMMA CallPlaces ==
  ASSUME JoinerInv, Delivered, Placed, [Next]_vars, putting = <<>>,
         putting' = SubSeq(emitted', Len(emitted) + 1, Len(emitted')),
         UNCHANGED <<queue, refused, seen>>
  PROVE  Placed' /\ Accepted' = Accepted
<1>1. PICK new \in Seq(Captured) :
        /\ emitted' = emitted \o new
        /\ Len(emitted') = Len(emitted) + Len(new)
        /\ \A i \in 1 .. Len(emitted') :
             emitted'[i] = IF i <= Len(emitted) THEN emitted[i] ELSE new[i - Len(emitted)]
  BY CallAppends
<1>2. emitted \in Seq(Captured)
  BY DEF JoinerInv, TypeOK
<1>3. putting' = new
  <2>1. putting' = SubSeq(emitted \o new, Len(emitted) + 1, Len(emitted \o new))
    BY <1>1
  <2> QED  BY <1>2, <2>1, SuffixIs
<1> DEFINE a == Accepted
           b == Len(new)
           c == Len(emitted')
           e == Len(emitted)
           m == Len(queue.items)
<1>4. /\ b \in Nat /\ e \in Nat /\ m \in Nat /\ refused \in Nat
      /\ c = e + b /\ Len(putting) = 0 /\ Len(putting') = b
  BY <1>1, <1>2, <1>3, LenProperties DEF Delivered, Queues
<1>5. a = (e - 0) - refused /\ a \in Nat /\ m <= a
  BY <1>4 DEF Accepted, Placed
<1>6. Accepted' = (c - b) - refused
  BY <1>4 DEF Accepted
<1>7. /\ queue' = queue /\ refused' = refused /\ seen' = seen
      /\ \A i \in 1 .. m : queue.items[i] = emitted[(a - m) + i]
      /\ \A i \in DOMAIN seen : \E j \in 1 .. (a - m) : seen[i] = emitted[j].frame
      /\ ~queue.closed => refused = 0
  BY DEF Placed
<1>8. \A i \in 1 .. c : emitted'[i] = IF i <= e THEN emitted[i] ELSE new[i - e]
  BY <1>1
<1> HIDE DEF a, b, c, e, m
<1>9. Accepted' = a
  BY <1>4, <1>5, <1>6
<1>10. a <= e
  BY <1>4, <1>5
<1>11. \A i \in 1 .. b : new[i] = emitted'[(c - b) + i]
  <2> SUFFICES ASSUME NEW i \in 1 .. b PROVE new[i] = emitted'[(c - b) + i]
    OBVIOUS
  <2>1. (c - b) + i = e + i /\ e + i \in 1 .. c /\ ~(e + i <= e) /\ (e + i) - e = i
    BY <1>4
  <2> QED  BY <1>8, <2>1
<1>12. \A i \in 1 .. m : queue.items[i] = emitted'[(a - m) + i]
  <2> SUFFICES ASSUME NEW i \in 1 .. m PROVE queue.items[i] = emitted'[(a - m) + i]
    OBVIOUS
  <2>1. (a - m) + i \in 1 .. c /\ (a - m) + i <= e
    BY <1>4, <1>5, <1>10
  <2> QED  BY <1>7, <1>8, <2>1
<1>13. \A j \in 1 .. (a - m) : emitted'[j] = emitted[j]
  <2> SUFFICES ASSUME NEW j \in 1 .. (a - m) PROVE emitted'[j] = emitted[j]
    OBVIOUS
  <2>1. j \in 1 .. c /\ j <= e
    BY <1>4, <1>5, <1>10
  <2> QED  BY <1>8, <2>1
<1>14. Placed'
  <2>1. /\ Len(emitted') = c /\ Len(putting') = b /\ Len(queue'.items) = m
        /\ Accepted' \in Nat /\ m <= Accepted'
    BY <1>4, <1>5, <1>7, <1>9 DEF c, m
  <2>2. \A i \in DOMAIN seen' : \E j \in 1 .. (a - m) : seen'[i] = emitted'[j].frame
    BY <1>7, <1>13
  <2> QED  BY <1>3, <1>7, <1>9, <1>11, <1>12, <2>1, <2>2 DEF Placed
<1> QED  BY <1>9, <1>14 DEF a

(* The first of those to be put follows the last that was accepted, unless *)
(* the queue is closed and refuses it.                                     *)
LEMMA PutPlaces ==
  ASSUME JoinerInv, Delivered, Placed, PutFrame
  PROVE  Placed' /\ Accepted' = IF queue.closed THEN Accepted ELSE Accepted + 1
<1>1. /\ putting \in Seq(Captured) /\ putting # <<>> /\ refused \in Nat
      /\ queue \in Queues(Captured) /\ queue.items \in Seq(Captured)
      /\ queue.closed \in BOOLEAN
      /\ queue = [items |-> queue.items, closed |-> queue.closed, dropped |-> queue.dropped]
  BY DEF Delivered, PutFrame, Queues
<1> DEFINE d == Head(putting)
           t == Tail(putting)
           a == Accepted
           e == Len(emitted)
           p == Len(putting)
           r == Len(t)
           m == Len(queue.items)
           full == m >= MaxSize
           kept == IF full THEN Tail(queue.items) ELSE queue.items
           n == Len(kept)
<1>2. /\ t \in Seq(Captured) /\ d \in Captured /\ r = p - 1 /\ d = putting[1]
      /\ \A i \in 1 .. r : t[i] = putting[i + 1]
  BY <1>1, HeadTailProperties
<1>3. /\ putting' = t /\ queue' = Put(queue, d)
      /\ refused' = (IF queue.closed THEN refused + 1 ELSE refused)
      /\ emitted' = emitted /\ seen' = seen
  BY DEF PutFrame, vars, joiner, reading
<1>4. e \in Nat /\ p \in Nat \ {0} /\ r \in Nat /\ m \in Nat /\ MaxSize \in Nat \ {0}
  BY <1>1, <1>2, LenProperties, EmptySeq, MaxSizeAssumption DEF JoinerInv, TypeOK
<1>5. a = (e - p) - refused /\ Accepted' = (e - r) - refused'
  BY <1>3 DEF Accepted
<1>6. /\ a \in Nat /\ m <= a /\ (~queue.closed => refused = 0)
      /\ \A i \in 1 .. p : putting[i] = emitted[(e - p) + i]
      /\ \A i \in 1 .. m : queue.items[i] = emitted[(a - m) + i]
      /\ \A i \in DOMAIN seen : \E j \in 1 .. (a - m) : seen[i] = emitted[j].frame
  BY DEF Placed
<1>7. /\ kept \in Seq(Captured) /\ n \in Nat /\ n <= m
      /\ \A i \in 1 .. n : kept[i] = queue.items[(m - n) + i]
  <2>1. CASE full
    <3>1. m # 0 /\ queue.items # <<>>
      BY <1>1, <1>4, <2>1, EmptySeq
    <3>2. kept = Tail(queue.items)
      BY <2>1
    <3>3. /\ kept \in Seq(Captured) /\ n = m - 1
          /\ \A i \in 1 .. n : kept[i] = queue.items[i + 1]
      BY <1>1, <3>1, <3>2, HeadTailProperties
    <3> HIDE DEF kept, n, m
    <3>4. (m - n) = 1 /\ n \in Nat /\ n <= m
      BY <1>4, <3>1, <3>3
    <3>5. \A i \in 1 .. n : (m - n) + i = i + 1
      BY <3>4
    <3> QED  BY <3>3, <3>4, <3>5
  <2>2. CASE ~full
    <3>1. kept = queue.items /\ n = m
      BY <2>2
    <3> HIDE DEF kept, n, m
    <3>2. \A i \in 1 .. n : (m - n) + i = i
      BY <1>4, <3>1
    <3> QED  BY <1>1, <1>4, <3>1, <3>2
  <2> QED  BY <2>1, <2>2
<1>8. queue.closed => queue' = queue
  BY <1>3 DEF Put
<1>9. ~queue.closed => queue'.items = Append(kept, d) /\ queue'.closed = queue.closed
  <2> SUFFICES ASSUME ~queue.closed
               PROVE  queue'.items = Append(kept, d) /\ queue'.closed = queue.closed
    OBVIOUS
  <2> DEFINE more == IF full THEN queue.dropped + 1 ELSE queue.dropped
  <2>1. queue' = [queue EXCEPT !.items = Append(kept, d), !.dropped = more]
    BY <1>3 DEF Put
  <2> HIDE DEF kept, d, more
  <2> QED  BY <1>1, <2>1
<1> HIDE DEF a, d, t, e, p, r, m, full, kept, n
<1>10. \A i \in 1 .. r : t[i] = emitted[(e - r) + i]
  <2> SUFFICES ASSUME NEW i \in 1 .. r PROVE t[i] = emitted[(e - r) + i]
    OBVIOUS
  <2>1. i + 1 \in 1 .. p /\ (e - p) + (i + 1) = (e - r) + i
    BY <1>2, <1>4
  <2> QED  BY <1>2, <1>6, <2>1
<1>11. CASE queue.closed
  <2>1. Accepted' = a
    BY <1>1, <1>2, <1>3, <1>4, <1>5, <1>11
  <2>2. queue' = queue
    BY <1>8, <1>11
  <2>3. /\ Len(emitted') = e /\ Len(putting') = r /\ Len(queue'.items) = m
        /\ queue'.closed
    BY <1>3, <1>11, <2>2 DEF e, r, m
  <2>4. Placed'
    BY <1>3, <1>6, <1>10, <2>1, <2>2, <2>3 DEF Placed
  <2> QED  BY <1>11, <2>1, <2>4 DEF a
<1>12. CASE ~queue.closed
  <2>1. refused = 0 /\ refused' = 0
    BY <1>3, <1>6, <1>12
  <2>2. Accepted' = a + 1 /\ a = e - p
    BY <1>2, <1>4, <1>5, <2>1
  <2>3. d = emitted[a + 1]
    <3>1. 1 \in 1 .. p /\ (e - p) + 1 = a + 1
      BY <1>4, <2>2
    <3> QED  BY <1>2, <1>6, <3>1
  <2> DEFINE items == Append(kept, d)
  <2>4. /\ Len(items) = n + 1 /\ items[n + 1] = d
        /\ \A i \in 1 .. n : items[i] = kept[i]
    BY <1>2, <1>7, AppendProperties DEF n
  <2> HIDE DEF items
  <2>5. ASSUME NEW i \in 1 .. (n + 1)
        PROVE  items[i] = emitted[((a + 1) - (n + 1)) + i]
    <3>1. CASE i = n + 1
      <4>1. ((a + 1) - (n + 1)) + i = a + 1
        BY <1>6, <1>7, <3>1
      <4> QED  BY <2>3, <2>4, <3>1, <4>1
    <3>2. CASE i # n + 1
      <4>1. a \in Nat /\ m \in Nat /\ n \in Nat /\ n <= m /\ i \in 1 .. n
        BY <1>4, <1>6, <1>7, <3>2
      <4>2. (m - n) + i \in 1 .. m
        BY <4>1
      <4>3. (a - m) + ((m - n) + i) = ((a + 1) - (n + 1)) + i
        BY <4>1
      <4> QED  BY <1>6, <1>7, <2>4, <4>1, <4>2, <4>3
    <3> QED  BY <3>1, <3>2
  <2>6. 1 .. (a - m) \subseteq 1 .. ((a + 1) - (n + 1))
    BY <1>4, <1>6, <1>7
  <2>7. queue'.items = items /\ ~queue'.closed
    BY <1>9, <1>12 DEF items
  <2>8. /\ Len(emitted') = e /\ Len(putting') = r /\ Len(queue'.items) = n + 1
        /\ Accepted' \in Nat /\ n + 1 <= Accepted'
    BY <1>3, <1>4, <1>6, <1>7, <2>2, <2>4, <2>7 DEF e, r
  <2>9. \A i \in DOMAIN seen' : \E j \in 1 .. ((a + 1) - (n + 1)) : seen'[i] = emitted'[j].frame
    BY <1>3, <1>6, <2>6
  <2>10. \A i \in 1 .. (n + 1) : queue'.items[i] = emitted'[((a + 1) - (n + 1)) + i]
    BY <1>3, <2>5, <2>7
  <2>11. Placed'
    BY <1>3, <1>10, <2>1, <2>2, <2>7, <2>8, <2>9, <2>10 DEF Placed
  <2> QED  BY <1>12, <2>2, <2>11 DEF a
<1> QED  BY <1>1, <1>11, <1>12

(* The loop takes the last accepted frame, which it has not seen.          *)
LEMMA TakePlaces ==
  ASSUME JoinerInv, Delivered, Placed, TakeFrame
  PROVE  /\ Placed' /\ Accepted' = Accepted /\ Accepted > 0
         /\ Accepted \in DOMAIN emitted
         /\ seen' = Append(seen, emitted[Accepted].frame)
         /\ emitted[Accepted].frame \notin Range(seen)
<1>1. /\ queue \in Queues(Captured) /\ queue.items \in Seq(Captured) /\ queue.items # <<>>
      /\ queue = [items |-> queue.items, closed |-> queue.closed, dropped |-> queue.dropped]
      /\ seen \in Seq(Frame) /\ emitted \in Seq(Captured) /\ putting \in Seq(Captured)
      /\ refused \in Nat
  BY DEF Delivered, TakeFrame, Queues, JoinerInv, TypeOK
<1> DEFINE a == Accepted
           e == Len(emitted)
           m == Len(queue.items)
           n == Len(seen)
           p == Len(putting)
           f == emitted[a].frame
<1>2. /\ m \in Nat \ {0} /\ n \in Nat /\ e \in Nat /\ p \in Nat
      /\ DOMAIN seen = 1 .. n /\ DOMAIN emitted = 1 .. e
  BY <1>1, LenProperties, EmptySeq
<1>3. /\ a \in Nat /\ m <= a /\ a = (e - p) - refused
      /\ \A i \in 1 .. m : queue.items[i] = emitted[(a - m) + i]
      /\ \A i \in DOMAIN seen : \E j \in 1 .. (a - m) : seen[i] = emitted[j].frame
      /\ \A i \in 1 .. p : putting[i] = emitted[(e - p) + i]
      /\ (~queue.closed => refused = 0)
  BY DEF Placed, Accepted
<1>4. /\ queue'.items = <<>> /\ queue'.closed = queue.closed
      /\ seen' = Append(seen, queue.items[m].frame)
      /\ putting' = putting /\ refused' = refused /\ emitted' = emitted
  BY <1>1 DEF TakeFrame, Newest, Taken, vars, joiner
<1>5. Accepted' = Accepted
  BY <1>4 DEF Accepted
<1> HIDE DEF a, e, m, n, p
<1>6. a > 0 /\ a \in 1 .. e /\ a \in 1 .. a /\ m \in 1 .. m /\ (a - m) + m = a
  BY <1>1, <1>2, <1>3
<1>7. queue.items[m].frame = f
  BY <1>3, <1>6
<1>8. f \notin Range(seen)
  <2> SUFFICES ASSUME NEW i \in DOMAIN seen, seen[i] = f PROVE FALSE
    BY DEF Range
  <2>1. PICK j \in 1 .. (a - m) : seen[i] = emitted[j].frame
    BY <1>3
  <2>2. j \in DOMAIN emitted /\ a \in DOMAIN emitted /\ j # a
    BY <1>2, <1>3, <1>6
  <2> QED  BY <2>1, <2>2 DEF JoinerInv, FramesKept, OnceEach
<1>9. f \in Frame
  <2>1. emitted[a] \in Captured
    BY <1>1, <1>2, <1>6, ElementOfSeq
  <2> QED  BY <2>1 DEF Captured
<1>10. \A i \in DOMAIN seen' : \E j \in 1 .. a : seen'[i] = emitted[j].frame
  <2>1. /\ Len(seen') = n + 1 /\ seen'[n + 1] = f /\ seen' \in Seq(Frame)
        /\ \A i \in 1 .. n : seen'[i] = seen[i]
    BY <1>1, <1>4, <1>7, <1>9, AppendProperties DEF n
  <2>2. DOMAIN seen' = 1 .. (n + 1)
    BY <2>1, LenProperties
  <2> SUFFICES ASSUME NEW i \in DOMAIN seen' PROVE \E j \in 1 .. a : seen'[i] = emitted[j].frame
    OBVIOUS
  <2>3. CASE i = n + 1
    BY <1>6, <2>1, <2>3
  <2>4. CASE i # n + 1
    <3>1. i \in 1 .. n
      BY <1>2, <2>2, <2>4
    <3>2. PICK j \in 1 .. (a - m) : seen[i] = emitted[j].frame
      BY <1>2, <1>3, <3>1
    <3>3. j \in 1 .. a
      BY <1>2, <1>3
    <3> QED  BY <2>1, <3>1, <3>2, <3>3
  <2> QED  BY <2>3, <2>4
<1>11. Placed'
  <2>1. Len(queue'.items) = 0 /\ Accepted' = a /\ a - 0 = a
    BY <1>3, <1>4, <1>5 DEF a
  <2>2. 0 <= a
    BY <1>3
  <2>3. \A i \in 1 .. 0 : queue'.items[i] = emitted'[(a - 0) + i]
    OBVIOUS
  <2>4. /\ Len(emitted') = e /\ Len(putting') = p
        /\ \A i \in 1 .. p : putting'[i] = emitted'[(e - p) + i]
    BY <1>3, <1>4 DEF e, p
  <2>5. \A i \in DOMAIN seen' : \E j \in 1 .. (a - 0) : seen'[i] = emitted'[j].frame
    BY <1>4, <1>10, <2>1
  <2> QED  BY <1>3, <1>4, <2>1, <2>2, <2>3, <2>4, <2>5 DEF Placed
<1> QED  BY <1>2, <1>4, <1>5, <1>6, <1>7, <1>8, <1>11 DEF a

(* Every step of the bridge keeps the places.                              *)
LEMMA PlacedStep ==
  ASSUME JoinerInv, Delivered, Placed, [BridgeNext]_bridgeVars
  PROVE  Placed'
<1>1. CASE RecordTelemetry \/ RecordDecodedFrame \/ RecordReceiverEnd
  BY <1>1, BridgeIsJoiner, CallPlaces
     DEF RecordTelemetry, RecordDecodedFrame, RecordReceiverEnd, EnqueueCaptured, reading
<1>2. CASE PutFrame
  BY <1>2, PutPlaces
<1>3. CASE TakeFrame
  BY <1>3, TakePlaces
<1>4. CASE CloseQueue
  <2>1. /\ queue' = [queue EXCEPT !.closed = TRUE] /\ putting' = putting
        /\ refused' = refused /\ seen' = seen /\ emitted' = emitted
    BY <1>4 DEF CloseQueue, Close, vars, joiner, reading
  <2>2. queue'.items = queue.items /\ queue'.closed
    BY <2>1 DEF Delivered, Queues
  <2>3. Accepted' = Accepted
    BY <2>1 DEF Accepted
  <2> QED  BY <2>1, <2>2, <2>3 DEF Placed
<1>5. CASE \/ Elapse \/ ReleaseSource \/ ReadPacket \/ GetWaits \/ GetNothing
           \/ AskOpened \/ ProcessFrame \/ UNCHANGED bridgeVars
  <2>1. /\ queue' = queue /\ putting' = putting
        /\ refused' = refused /\ seen' = seen /\ emitted' = emitted
    BY <1>5 DEF Elapse, Tick, ReleaseSource, ReadPacket, GetWaits, GetNothing, AskOpened,
                ProcessFrame, Consumer, bridgeVars, vars, joiner, delivery, reading
  <2> QED  BY <2>1 DEF Placed, Accepted
<1> QED  BY <1>1, <1>2, <1>3, <1>4, <1>5 DEF BridgeNext, Putting, Consume

-----------------------------------------------------------------------------
(* A call that returns frames sends them, each for the first time.         *)
LEMMA CallSends ==
  ASSUME JoinerInv, [Next]_vars
  PROVE  Sent = SubSeq(Sent', 1, Len(Sent)) /\ IsInjective(Sent')
<1>1. PICK new \in Seq(Captured) :
        /\ emitted' = emitted \o new /\ emitted' \in Seq(Captured)
        /\ Len(emitted') = Len(emitted) + Len(new)
        /\ \A i \in 1 .. Len(emitted') :
             emitted'[i] = IF i <= Len(emitted) THEN emitted[i] ELSE new[i - Len(emitted)]
  BY CallAppends
<1>2. emitted \in Seq(Captured)
  BY DEF JoinerInv, TypeOK
<1> DEFINE e == Len(emitted)
           c == Len(emitted')
           b == Len(new)
<1>3. /\ e \in Nat /\ c \in Nat /\ b \in Nat /\ c = e + b
      /\ DOMAIN emitted = 1 .. e /\ DOMAIN emitted' = 1 .. c
      /\ \A i \in 1 .. c : emitted'[i] \in Captured
      /\ \A i \in 1 .. c : i <= e => emitted'[i] = emitted[i]
  BY <1>1, <1>2, LenProperties, ElementOfSeq
<1> HIDE DEF e, c, b
<1> DEFINE s == [i \in 1 .. e |-> emitted[i].frame]
           u == [i \in 1 .. c |-> emitted'[i].frame]
<1>4. Sent = s /\ Sent' = u
  BY <1>3 DEF Sent
<1>5. \A i \in 1 .. c : emitted'[i].frame \in Frame
  BY <1>3 DEF Captured
<1>6. 1 .. e \subseteq 1 .. c
  BY <1>3
<1>7. s \in [1 .. e -> Frame] /\ \A i \in 1 .. e : s[i] = u[i]
  BY <1>3, <1>5, <1>6
<1>8. u \in [1 .. c -> Frame]
  BY <1>5
<1> HIDE DEF s, u
<1>9. s \in Seq(Frame) /\ Len(s) = e /\ u \in Seq(Frame) /\ Len(u) = c
  <2>1. e \in Nat /\ c \in Nat
    BY <1>3
  <2>2. s \in Seq(Frame) /\ Len(s) = e
    BY <1>7, <2>1
  <2>3. u \in Seq(Frame) /\ Len(u) = c
    BY <1>8, <2>1
  <2> QED  BY <2>2, <2>3
<1> DEFINE x == SubSeq(u, 1, e)
<1>10. \A i \in 1 .. e : u[i] \in Frame
  BY <1>6, <1>8
<1>11. /\ x \in Seq(Frame) /\ Len(x) = IF 1 <= e THEN e - 1 + 1 ELSE 0
       /\ \A i \in 1 .. (e - 1 + 1) : x[i] = u[1 + i - 1]
  BY <1>3, <1>10, SubSeqProperties
<1> HIDE DEF x
<1>12. Len(x) = e /\ \A i \in 1 .. e : x[i] = u[i]
  <2>1. e - 1 + 1 = e /\ (~(1 <= e) => e = 0)
    BY <1>3
  <2>2. \A i \in 1 .. e : 1 + i - 1 = i
    OBVIOUS
  <2> QED  BY <1>11, <2>1, <2>2
<1>13. x \in [1 .. e -> Frame]
  BY <1>11, <1>12, LenProperties
<1>14. x = s
  <2>1. x = [i \in 1 .. e |-> x[i]] /\ s = [i \in 1 .. e |-> s[i]]
    BY <1>7, <1>13
  <2>2. [i \in 1 .. e |-> x[i]] = [i \in 1 .. e |-> s[i]]
    BY <1>7, <1>12
  <2> QED  BY <2>1, <2>2
<1>15. Sent = SubSeq(Sent', 1, Len(Sent))
  BY <1>4, <1>9, <1>14 DEF x
<1>16. IsInjective(Sent')
  <2>1. JoinerInv'
    BY JoinerStep
  <2>2. \A i, j \in 1 .. c : emitted'[i].frame = emitted'[j].frame => i = j
    BY <1>3, <2>1 DEF JoinerInv, FramesKept, OnceEach
  <2>3. \A i, j \in 1 .. c : u[i] = u[j] => i = j
    BY <2>2 DEF u
  <2>4. DOMAIN u = 1 .. c
    BY <1>8
  <2> QED  BY <1>4, <2>3, <2>4 DEF IsInjective
<1> QED  BY <1>15, <1>16

(* The frames sent, one for each emitted.                                  *)
LEMMA SentIs ==
  ASSUME JoinerInv
  PROVE  /\ Len(Sent) = Len(emitted) /\ Len(emitted) \in Nat
         /\ DOMAIN emitted = 1 .. Len(emitted)
         /\ \A i \in 1 .. Len(emitted) : Sent[i] = emitted[i].frame
<1>1. emitted \in Seq(Captured)
  BY DEF JoinerInv, TypeOK
<1>2. Len(emitted) \in Nat /\ DOMAIN emitted = 1 .. Len(emitted)
  BY <1>1, LenProperties
<1>3. DOMAIN Sent = 1 .. Len(emitted)
  BY <1>2 DEF Sent
<1>4. Len(Sent) = Len(emitted)
  <2> DEFINE e == Len(emitted)
             s == Sent
  <2>1. e \in Nat /\ s = [i \in 1 .. e |-> s[i]]
    BY <1>2 DEF Sent
  <2> HIDE DEF e, s
  <2>2. Len(s) = e
    BY <2>1
  <2> QED  BY <2>2 DEF e, s
<1> QED  BY <1>2, <1>4 DEF Sent

(* What each step of the bridge is to the mailbox.                         *)
LEMMA MailboxStep ==
  ASSUME JoinerInv, Delivered, Placed, [BridgeNext]_bridgeVars
  PROVE  [Mailbox!Next]_(Mailbox!mailbox)
<1>1. CASE RecordTelemetry \/ RecordDecodedFrame \/ RecordReceiverEnd
  <2>1. UNCHANGED <<queue, refused, seen>> /\ Accepted' = Accepted
    BY <1>1, BridgeIsJoiner, CallPlaces
       DEF RecordTelemetry, RecordDecodedFrame, RecordReceiverEnd, EnqueueCaptured, reading
  <2>2. Sent = SubSeq(Sent', 1, Len(Sent)) /\ IsInjective(Sent')
    BY BridgeIsJoiner, CallSends
  <2> QED  BY <2>1, <2>2 DEF Mailbox!Next, Mailbox!Send, Mailbox!IsInjective, IsInjective
<1>2. CASE PutFrame
  <2>1. /\ emitted' = emitted /\ seen' = seen /\ queue' = Put(queue, Head(putting))
        /\ putting # <<>>
    BY <1>2 DEF PutFrame, vars, joiner, reading
  <2>2. Sent' = Sent
    BY <2>1 DEF Sent
  <2>3. Accepted' = IF queue.closed THEN Accepted ELSE Accepted + 1
    BY <1>2, PutPlaces
  <2>4. queue'.closed = queue.closed
    BY <2>1 DEF Put, Delivered, Queues
  <2>5. CASE queue.closed
    BY <2>1, <2>2, <2>3, <2>4, <2>5 DEF Mailbox!mailbox
  <2>6. CASE ~queue.closed
    <3>1. Accepted < Len(Sent)
      <4> DEFINE e == Len(emitted)
                 p == Len(putting)
      <4>1. p \in Nat \ {0} /\ e \in Nat /\ refused \in Nat
        BY <2>1, LenProperties, EmptySeq DEF Delivered, JoinerInv, TypeOK
      <4>2. Accepted = (e - p) - refused /\ Len(Sent) = e
        BY SentIs DEF Accepted
      <4> HIDE DEF e, p
      <4> QED  BY <4>1, <4>2
    <3> QED  BY <2>1, <2>2, <2>3, <2>4, <2>6, <3>1 DEF Mailbox!Next, Mailbox!Accept
  <2> QED  BY <2>5, <2>6
<1>3. CASE TakeFrame
  <2>1. /\ Accepted' = Accepted /\ Accepted > 0 /\ Accepted \in DOMAIN emitted
        /\ seen' = Append(seen, emitted[Accepted].frame)
        /\ emitted[Accepted].frame \notin Range(seen)
    BY <1>3, TakePlaces
  <2>2. Sent[Accepted] = emitted[Accepted].frame
    BY <2>1, SentIs
  <2>3. emitted' = emitted /\ queue' = Taken(queue)
    BY <1>3 DEF TakeFrame, vars, joiner
  <2>4. Sent' = Sent /\ queue'.closed = queue.closed
    BY <2>3 DEF Sent, Taken, Delivered, Queues
  <2> QED  BY <2>1, <2>2, <2>4 DEF Mailbox!Next, Mailbox!Take, Mailbox!Range, Range
<1>4. CASE CloseQueue
  <2>1. /\ queue' = [queue EXCEPT !.closed = TRUE] /\ putting' = putting
        /\ refused' = refused /\ seen' = seen /\ emitted' = emitted
    BY <1>4 DEF CloseQueue, Close, vars, joiner, reading
  <2>2. queue'.closed = TRUE /\ Accepted' = Accepted /\ Sent' = Sent
    BY <2>1 DEF Delivered, Queues, Accepted, Sent
  <2> QED  BY <2>1, <2>2 DEF Mailbox!Next, Mailbox!Close
<1>5. CASE \/ Elapse \/ ReleaseSource \/ ReadPacket \/ GetWaits \/ GetNothing
           \/ AskOpened \/ ProcessFrame \/ UNCHANGED bridgeVars
  <2>1. /\ queue' = queue /\ putting' = putting
        /\ refused' = refused /\ seen' = seen /\ emitted' = emitted
    BY <1>5 DEF Elapse, Tick, ReleaseSource, ReadPacket, GetWaits, GetNothing, AskOpened,
                ProcessFrame, Consumer, bridgeVars, vars, joiner, delivery, reading
  <2> QED  BY <2>1 DEF Mailbox!mailbox, Accepted, Sent
<1> QED  BY <1>1, <1>2, <1>3, <1>4, <1>5 DEF BridgeNext, Putting, Consume

(* The bridge is a mailbox for the newest frame, whatever the joiner, the  *)
(* queue's size and the stream (LatestFrameQueue, _enqueue_captured).      *)
THEOREM MailboxImplemented == BridgeSpec => ImplementsMailbox
<1>1. BridgeInit => JoinerInv /\ Delivered /\ Placed
  BY JoinerInit, DeliveredInit, PlacedInit DEF BridgeInit
<1>2. JoinerInv /\ Delivered /\ Placed /\ [BridgeNext]_bridgeVars
        => (JoinerInv /\ Delivered /\ Placed)'
  BY BridgeIsJoiner, JoinerStep, DeliveredStep, PlacedStep
<1>3. BridgeInit => Mailbox!Init
  <2> SUFFICES ASSUME BridgeInit PROVE Mailbox!Init
    OBVIOUS
  <2>1. /\ putting = <<>> /\ queue.closed = FALSE
        /\ refused = 0 /\ seen = <<>> /\ emitted = <<>>
    BY DEF BridgeInit, NewSource, EmptyQueue, Init
  <2>2. Sent = <<>>
    BY <2>1 DEF Sent
  <2>3. Accepted = 0
    BY <2>1 DEF Accepted
  <2> QED  BY <2>1, <2>2, <2>3 DEF Mailbox!Init
<1>4. JoinerInv /\ Delivered /\ Placed /\ [BridgeNext]_bridgeVars
        => [Mailbox!Next]_(Mailbox!mailbox)
  BY MailboxStep
<1> QED  BY <1>1, <1>2, <1>3, <1>4, PTL DEF BridgeSpec, ImplementsMailbox, Mailbox!Spec

-----------------------------------------------------------------------------
(* The loop takes frames in the order the joiner emitted them.             *)
TakenInTurn ==
  \A i, j \in DOMAIN seen, k, l \in DOMAIN emitted :
    i < j /\ emitted[k].frame = seen[i] /\ emitted[l].frame = seen[j] => k < l

(* The frames the loop gets back to after a later one are never more than  *)
(* the joiner lets wait.                                                   *)
SeenNearlyInOrder ==
  \A i \in DOMAIN seen :
    Cardinality({j \in DOMAIN seen : j > i /\ seen[j] < seen[i]}) <= MaxPending

(* What was taken has been emitted.                                        *)
LEMMA SeenEmitted ==
  ASSUME JoinerInv, Delivered, Placed, NEW i \in DOMAIN seen
  PROVE  \E k \in DOMAIN emitted :
           k <= Accepted - Len(queue.items) /\ seen[i] = emitted[k].frame
<1>1. PICK k \in 1 .. (Accepted - Len(queue.items)) : seen[i] = emitted[k].frame
  BY DEF Placed
<1> DEFINE a == Accepted
           m == Len(queue.items)
           e == Len(emitted)
           p == Len(putting)
<1>2. /\ m \in Nat /\ e \in Nat /\ p \in Nat /\ refused \in Nat
      /\ DOMAIN emitted = 1 .. e
  BY LenProperties DEF Delivered, Queues, JoinerInv, TypeOK
<1>3. a = (e - p) - refused
  BY DEF Accepted
<1>4. k \in 1 .. (a - m)
  BY <1>1
<1> HIDE DEF a, m, e, p
<1>5. k \in 1 .. e /\ k <= a - m
  BY <1>2, <1>3, <1>4
<1> QED  BY <1>1, <1>2, <1>5 DEF a, m

(* A call of the joiner moves nothing it has emitted.                      *)
LEMMA CallKeepsTurn ==
  ASSUME JoinerInv, Delivered, Placed, TakenInTurn, [Next]_vars, UNCHANGED seen
  PROVE  TakenInTurn'
<1> SUFFICES ASSUME NEW i \in DOMAIN seen, NEW j \in DOMAIN seen,
                    NEW k \in DOMAIN emitted', NEW l \in DOMAIN emitted',
                    i < j, emitted'[k].frame = seen[i], emitted'[l].frame = seen[j]
             PROVE  k < l
  BY DEF TakenInTurn
<1>1. PICK k0 \in DOMAIN emitted : seen[i] = emitted[k0].frame
  BY SeenEmitted
<1>2. PICK l0 \in DOMAIN emitted : seen[j] = emitted[l0].frame
  BY SeenEmitted
<1>3. k0 < l0
  BY <1>1, <1>2 DEF TakenInTurn
<1>4. \A x \in DOMAIN emitted : x \in DOMAIN emitted' /\ emitted'[x] = emitted[x]
  <2>1. PICK new \in Seq(Captured) :
          /\ emitted' \in Seq(Captured) /\ Len(emitted') = Len(emitted) + Len(new)
          /\ \A x \in 1 .. Len(emitted') :
               emitted'[x] = IF x <= Len(emitted) THEN emitted[x] ELSE new[x - Len(emitted)]
    BY CallAppends
  <2> DEFINE e == Len(emitted)
             c == Len(emitted')
             b == Len(new)
  <2>2. /\ e \in Nat /\ c \in Nat /\ b \in Nat
        /\ DOMAIN emitted = 1 .. e /\ DOMAIN emitted' = 1 .. c
    BY <2>1, LenProperties DEF JoinerInv, TypeOK
  <2>3. /\ c = e + b
        /\ \A x \in 1 .. c : x <= e => emitted'[x] = emitted[x]
    BY <2>1
  <2> HIDE DEF e, c, b
  <2> QED  BY <2>2, <2>3
<1>5. OnceEach(emitted)'
  BY JoinerStep DEF JoinerInv, FramesKept
<1>6. k = k0 /\ l = l0
  BY <1>1, <1>2, <1>4, <1>5 DEF OnceEach
<1> QED  BY <1>3, <1>6

(* The frame the loop takes was emitted after all it has seen.             *)
LEMMA TakeKeepsTurn ==
  ASSUME JoinerInv, Delivered, Placed, TakenInTurn, TakeFrame
  PROVE  TakenInTurn'
<1> DEFINE a == Accepted
           m == Len(queue.items)
           n == Len(seen)
<1>1. /\ a \in DOMAIN emitted /\ seen' = Append(seen, emitted[a].frame)
  BY TakePlaces
<1>2. emitted' = emitted /\ OnceEach(emitted)
  BY DEF TakeFrame, vars, joiner, JoinerInv, FramesKept
<1>3. m \in Nat \ {0} /\ n \in Nat /\ DOMAIN seen = 1 .. n /\ a \in Nat
  BY LenProperties, EmptySeq DEF TakeFrame, Delivered, Queues, Placed
<1>4. emitted[a].frame \in Frame
  <2>1. emitted \in Seq(Captured)
    BY DEF JoinerInv, TypeOK
  <2> HIDE DEF a
  <2>2. a \in 1 .. Len(emitted)
    BY <1>1, <2>1, LenProperties
  <2>3. emitted[a] \in Captured
    BY <2>1, <2>2, ElementOfSeq
  <2> QED  BY <2>3 DEF Captured
<1>5. /\ DOMAIN seen' = 1 .. (n + 1) /\ seen'[n + 1] = emitted[a].frame
      /\ \A i \in 1 .. n : seen'[i] = seen[i]
  <2>1. seen \in Seq(Frame)
    BY DEF Delivered
  <2>2. /\ seen' \in Seq(Frame) /\ Len(seen') = n + 1 /\ seen'[n + 1] = emitted[a].frame
        /\ \A i \in 1 .. n : seen'[i] = seen[i]
    BY <1>1, <1>4, <2>1, AppendProperties
  <2> QED  BY <2>2, LenProperties
<1>6. \A i \in DOMAIN seen : \E k \in DOMAIN emitted :
        k <= a - m /\ seen[i] = emitted[k].frame
  BY SeenEmitted
<1>7. DOMAIN emitted \subseteq Nat
  BY LenProperties DEF JoinerInv, TypeOK
<1> HIDE DEF a, m, n
<1> SUFFICES ASSUME NEW i \in 1 .. (n + 1), NEW j \in 1 .. (n + 1),
                    NEW k \in DOMAIN emitted, NEW l \in DOMAIN emitted,
                    i < j, emitted[k].frame = seen'[i], emitted[l].frame = seen'[j]
             PROVE  k < l
  BY <1>2, <1>5 DEF TakenInTurn
<1>8. i \in 1 .. n
  BY <1>3
<1>9. CASE j = n + 1
  <2>1. l = a
    BY <1>1, <1>2, <1>5, <1>9 DEF OnceEach
  <2>2. PICK k0 \in DOMAIN emitted : k0 <= a - m /\ seen[i] = emitted[k0].frame
    BY <1>3, <1>6, <1>8
  <2>3. k = k0
    BY <1>2, <1>5, <1>8, <2>2 DEF OnceEach
  <2> QED  BY <1>3, <1>7, <2>1, <2>2, <2>3
<1>10. CASE j # n + 1
  <2>1. j \in 1 .. n
    BY <1>3, <1>10
  <2> QED  BY <1>3, <1>5, <1>8, <2>1 DEF TakenInTurn
<1> QED  BY <1>9, <1>10

(* Every step of the bridge keeps the turn.                                *)
LEMMA TurnStep ==
  ASSUME JoinerInv, Delivered, Placed, TakenInTurn, [BridgeNext]_bridgeVars
  PROVE  TakenInTurn'
<1>1. CASE TakeFrame
  BY <1>1, TakeKeepsTurn
<1>2. CASE ~TakeFrame
  <2>1. UNCHANGED seen
    BY <1>2 DEF BridgeNext, RecordTelemetry, RecordDecodedFrame, RecordReceiverEnd,
                EnqueueCaptured, Putting, PutFrame, CloseQueue, Elapse, ReleaseSource,
                Consume, ReadPacket, GetWaits, GetNothing, AskOpened, ProcessFrame,
                Consumer, bridgeVars, reading
  <2> QED  BY <2>1, BridgeIsJoiner, CallKeepsTurn
<1> QED  BY <1>1, <1>2

(* The older frames that are taken after one were emitted after it.        *)
LEMMA SeenBound ==
  ASSUME JoinerInv, Delivered, Placed, TakenInTurn
  PROVE  SeenNearlyInOrder
<1> SUFFICES ASSUME NEW i \in DOMAIN seen
             PROVE  Cardinality({j \in DOMAIN seen : j > i /\ seen[j] < seen[i]})
                      <= MaxPending
  BY DEF SeenNearlyInOrder
<1>1. PICK k \in DOMAIN emitted : seen[i] = emitted[k].frame
  BY SeenEmitted
<1> DEFINE back == {j \in DOMAIN seen : j > i /\ seen[j] < seen[i]}
           later == {l \in DOMAIN emitted : l > k /\ emitted[l].frame < emitted[k].frame}
           at(j) == CHOOSE l \in DOMAIN emitted : seen[j] = emitted[l].frame
           place == [j \in back |-> at(j)]
<1>2. ASSUME NEW j \in back
      PROVE  at(j) \in later /\ seen[j] = emitted[at(j)].frame
  <2>1. \E l \in DOMAIN emitted : seen[j] = emitted[l].frame
    BY SeenEmitted
  <2>2. at(j) \in DOMAIN emitted /\ seen[j] = emitted[at(j)].frame
    BY <2>1
  <2> HIDE DEF at
  <2>3. i < j
    BY LenProperties DEF Delivered
  <2>4. k < at(j)
    BY <1>1, <2>2, <2>3 DEF TakenInTurn
  <2>5. DOMAIN emitted \subseteq Nat
    BY LenProperties DEF JoinerInv, TypeOK
  <2> QED  BY <1>1, <2>2, <2>4, <2>5
<1>3. \A x, y \in back : seen[x] = seen[y] => x = y
  BY DEF Delivered, IsInjective
<1> HIDE DEF at
<1>4. place \in Injection(back, later)
  <2>1. place \in [back -> later]
    BY <1>2
  <2>2. \A x, y \in back : place[x] = place[y] => x = y
    BY <1>2, <1>3
  <2> QED  BY <2>1, <2>2 DEF Injection, IsInjective
<1>5. IsFiniteSet(later) /\ Cardinality(later) <= MaxPending
  <2>1. DOMAIN emitted = 1 .. Len(emitted) /\ Len(emitted) \in Nat
    BY LenProperties DEF JoinerInv, TypeOK
  <2>2. IsFiniteSet(DOMAIN emitted)
    BY <2>1, FS_Interval
  <2>3. later \subseteq DOMAIN emitted
    OBVIOUS
  <2>4. Cardinality(later) <= MaxPending
    <3>1. BoundedReordering
      BY OvertakenBound
    <3> QED  BY <3>1 DEF BoundedReordering
  <2> HIDE DEF later
  <2> QED  BY <2>2, <2>3, <2>4, FS_Subset
<1> HIDE DEF back, later, place
<1>6. IsFiniteSet(back) /\ Cardinality(back) <= Cardinality(later)
  BY <1>4, <1>5, FS_Injection
<1>7. Cardinality(back) \in Nat /\ Cardinality(later) \in Nat /\ MaxPending \in Nat
  BY <1>5, <1>6, FS_CardinalityType, JoinerAssumption
<1>8. Cardinality(back) <= MaxPending
  BY <1>5, <1>6, <1>7
<1> QED  BY <1>8 DEF back

(* End to end, from the decoder to _run_loop: however frames wait for      *)
(* metadata, are dropped by the queue or refused, the loop gets back to at *)
(* most max_pending frames older than one it has taken                     *)
(* (FrameJoiner.ingest_decoded, LatestFrameQueue.get).                     *)
THEOREM LoopGoesBackLittle == BridgeSpec => []SeenNearlyInOrder
<1>1. BridgeInit => JoinerInv /\ Delivered /\ Placed /\ TakenInTurn
  <2>1. BridgeInit => seen = <<>>
    BY DEF BridgeInit, NewSource
  <2>2. BridgeInit => TakenInTurn
    BY <2>1 DEF TakenInTurn
  <2> QED  BY <2>2, JoinerInit, DeliveredInit, PlacedInit DEF BridgeInit
<1>2. JoinerInv /\ Delivered /\ Placed /\ TakenInTurn /\ [BridgeNext]_bridgeVars
        => (JoinerInv /\ Delivered /\ Placed /\ TakenInTurn)'
  BY BridgeIsJoiner, JoinerStep, DeliveredStep, PlacedStep, TurnStep
<1>3. JoinerInv /\ Delivered /\ Placed /\ TakenInTurn => SeenNearlyInOrder
  BY SeenBound
<1> QED  BY <1>1, <1>2, <1>3, PTL DEF BridgeSpec
=============================================================================
