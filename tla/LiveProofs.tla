------------------------------ MODULE LiveProofs ------------------------------
(***************************************************************************)
(* Proofs about Live for every number of pipelines and every size of its   *)
(* queues, ring and window: type correctness, that audio is never          *)
(* reordered or repeated, that the tap's queue is the stream's unbroken    *)
(* end, and that a stopped supervisor leaves no worker.                    *)
(***************************************************************************)
EXTENDS Live, SequenceTheorems, TLAPS

----------------------------------------------------------------------------
(* Sequences of frames.                                                    *)

LEMMA RangeOfFrames ==
  /\ Range(<<>>) = {}
  /\ \A s \in Seq(Nat) : /\ Range(s) = {s[i] : i \in 1..Len(s)}
                         /\ Range(s) \subseteq Nat
BY RangeEquality, RangeOfSeq, EmptySeq DEF Range

\* An append adds its item to the range, and keeps the order of items that are
\* behind it.
LEMMA AppendFrame ==
  ASSUME NEW s \in Seq(Nat), NEW x \in Nat
  PROVE  /\ Append(s, x) \in Seq(Nat)
         /\ Range(Append(s, x)) = Range(s) \union {x}
         /\ Increasing(s) /\ Below(Range(s), {x}) => Increasing(Append(s, x))
<1>1. /\ Append(s, x) \in Seq(Nat) /\ Len(Append(s, x)) = Len(s) + 1 /\ Len(s) \in Nat
      /\ \A i \in 1..Len(s) : Append(s, x)[i] = s[i]
      /\ Append(s, x)[Len(s) + 1] = x
  BY AppendProperties, LenProperties
<1>2. Range(Append(s, x)) = Range(s) \union {x}
  <2>1. /\ Range(Append(s, x)) = {Append(s, x)[i] : i \in 1..Len(s) + 1}
        /\ Range(s) = {s[i] : i \in 1..Len(s)}
    BY <1>1, RangeOfFrames
  <2>2. 1..Len(s) + 1 = 1..Len(s) \union {Len(s) + 1}
    BY <1>1
  <2> QED BY <1>1, <2>1, <2>2
<1>3. ASSUME Increasing(s), Below(Range(s), {x}) PROVE Increasing(Append(s, x))
  <2> SUFFICES ASSUME NEW j \in 1..Len(s) + 1, NEW i \in 1..j - 1
               PROVE  Below({Append(s, x)[i]}, {Append(s, x)[j]})
    BY <1>1 DEF Increasing
  <2>1. i \in 1..Len(s) /\ Append(s, x)[i] = s[i] /\ s[i] \in Range(s)
    BY <1>1, RangeOfFrames
  <2>2. CASE j \in 1..Len(s)
    BY <1>1, <1>3, <2>1, <2>2 DEF Increasing
  <2>3. CASE j = Len(s) + 1
    BY <1>1, <1>3, <2>1, <2>3 DEF Below
  <2>4. Len(s) \in Nat => (j \in 1..Len(s) \/ j = Len(s) + 1)
    OBVIOUS
  <2> QED BY <1>1, <2>2, <2>3, <2>4
<1> QED BY <1>1, <1>2, <1>3

\* The head of an ordered sequence is behind its tail, which is ordered.
LEMMA TailFrames ==
  ASSUME NEW s \in Seq(Nat), s # <<>>
  PROVE  /\ Head(s) \in Nat /\ Tail(s) \in Seq(Nat)
         /\ Range(s) = {Head(s)} \union Range(Tail(s))
         /\ Increasing(s) => Increasing(Tail(s)) /\ Below({Head(s)}, Range(Tail(s)))
<1>1. /\ Head(s) \in Nat /\ Tail(s) \in Seq(Nat) /\ Len(Tail(s)) = Len(s) - 1
      /\ \A i \in 1..Len(Tail(s)) : Tail(s)[i] = s[i + 1]
      /\ Len(s) \in Nat \ {0} /\ Head(s) = s[1]
  BY HeadTailProperties, EmptySeq
<1>2. /\ Range(s) = {s[i] : i \in 1..Len(s)}
      /\ Range(Tail(s)) = {Tail(s)[i] : i \in 1..Len(s) - 1}
  BY <1>1, RangeOfFrames
<1>3. Range(s) = {Head(s)} \union Range(Tail(s))
  <2>1. ASSUME NEW i \in 1..Len(s) PROVE s[i] \in {Head(s)} \union Range(Tail(s))
    <3>1. CASE i = 1
      BY <1>1, <3>1
    <3>2. CASE i # 1
      <4>1. i - 1 \in 1..Len(s) - 1 /\ s[i] = Tail(s)[i - 1]
        BY <1>1, <3>2
      <4> QED BY <1>2, <4>1
    <3> QED BY <3>1, <3>2
  <2>2. ASSUME NEW i \in 1..Len(s) - 1 PROVE Tail(s)[i] \in Range(s)
    <3>1. i + 1 \in 1..Len(s) /\ Tail(s)[i] = s[i + 1]
      BY <1>1
    <3> QED BY <1>2, <3>1
  <2>3. Head(s) \in Range(s)
    BY <1>1, <1>2
  <2> QED BY <1>2, <2>1, <2>2, <2>3
<1>4. ASSUME Increasing(s) PROVE Increasing(Tail(s))
  <2> SUFFICES ASSUME NEW j \in 1..Len(s) - 1, NEW i \in 1..j - 1
               PROVE  Below({Tail(s)[i]}, {Tail(s)[j]})
    BY <1>1 DEF Increasing
  <2>1. /\ j + 1 \in 1..Len(s) /\ i + 1 \in 1..(j + 1) - 1
        /\ Tail(s)[i] = s[i + 1] /\ Tail(s)[j] = s[j + 1]
    BY <1>1
  <2> QED BY <1>4, <2>1 DEF Increasing
<1>5. ASSUME Increasing(s) PROVE Below({Head(s)}, Range(Tail(s)))
  <2>1. ASSUME NEW i \in 1..Len(s) - 1 PROVE Below({s[1]}, {Tail(s)[i]})
    <3>1. i + 1 \in 1..Len(s) /\ 1 \in 1..(i + 1) - 1 /\ Tail(s)[i] = s[i + 1]
      BY <1>1
    <3> QED BY <1>5, <3>1 DEF Increasing
  <2> QED BY <1>1, <1>2, <2>1 DEF Below
<1> QED BY <1>1, <1>3, <1>4, <1>5

\* A concatenation is ordered when its parts are and the first is behind the
\* second.
LEMMA ConcatFrames ==
  ASSUME NEW s \in Seq(Nat), NEW t \in Seq(Nat)
  PROVE  /\ s \o t \in Seq(Nat)
         /\ Range(s \o t) = Range(s) \union Range(t)
         /\ Increasing(s \o t) <=> /\ Increasing(s) /\ Increasing(t)
                                   /\ Below(Range(s), Range(t))
<1>1. /\ s \o t \in Seq(Nat) /\ Len(s \o t) = Len(s) + Len(t)
      /\ Len(s) \in Nat /\ Len(t) \in Nat
      /\ \A i \in 1..Len(s) + Len(t) :
            (s \o t)[i] = IF i <= Len(s) THEN s[i] ELSE t[i - Len(s)]
  BY ConcatProperties, LenProperties
<1>2. /\ \A i \in 1..Len(s) : i \in 1..Len(s) + Len(t) /\ (s \o t)[i] = s[i]
      /\ \A i \in 1..Len(t) : /\ Len(s) + i \in 1..Len(s) + Len(t)
                              /\ (s \o t)[Len(s) + i] = t[i]
  BY <1>1
<1>3. /\ Range(s) = {s[i] : i \in 1..Len(s)} /\ Range(t) = {t[i] : i \in 1..Len(t)}
  BY RangeOfFrames
<1>4. ASSUME Increasing(s \o t)
      PROVE  Increasing(s) /\ Increasing(t) /\ Below(Range(s), Range(t))
  <2>1. Increasing(s)
    <3> SUFFICES ASSUME NEW j \in 1..Len(s), NEW i \in 1..j - 1 PROVE Below({s[i]}, {s[j]})
      BY DEF Increasing
    <3>1. /\ j \in 1..Len(s \o t) /\ i \in 1..Len(s)
          /\ (s \o t)[j] = s[j] /\ (s \o t)[i] = s[i]
      BY <1>1, <1>2
    <3> QED BY <1>4, <3>1 DEF Increasing
  <2>2. Increasing(t)
    <3> SUFFICES ASSUME NEW j \in 1..Len(t), NEW i \in 1..j - 1 PROVE Below({t[i]}, {t[j]})
      BY DEF Increasing
    <3>1. /\ Len(s) + j \in 1..Len(s \o t) /\ Len(s) + i \in 1..(Len(s) + j) - 1
          /\ (s \o t)[Len(s) + j] = t[j] /\ (s \o t)[Len(s) + i] = t[i]
      BY <1>1, <1>2
    <3> QED BY <1>4, <3>1 DEF Increasing
  <2>3. ASSUME NEW i \in 1..Len(s), NEW j \in 1..Len(t) PROVE Below({s[i]}, {t[j]})
    <3>1. /\ Len(s) + j \in 1..Len(s \o t) /\ i \in 1..(Len(s) + j) - 1
          /\ (s \o t)[Len(s) + j] = t[j] /\ (s \o t)[i] = s[i]
      BY <1>1, <1>2
    <3> QED BY <1>4, <3>1 DEF Increasing
  <2> QED BY <1>3, <2>1, <2>2, <2>3 DEF Below
<1>5. ASSUME Increasing(s), Increasing(t), Below(Range(s), Range(t))
      PROVE  Increasing(s \o t)
  <2> SUFFICES ASSUME NEW j \in 1..Len(s) + Len(t), NEW i \in 1..j - 1
               PROVE  Below({(s \o t)[i]}, {(s \o t)[j]})
    BY <1>1 DEF Increasing
  <2>1. CASE j <= Len(s)
    <3>1. /\ j \in 1..Len(s) /\ (s \o t)[j] = s[j] /\ (s \o t)[i] = s[i]
      BY <1>1, <2>1
    <3> QED BY <1>5, <3>1 DEF Increasing
  <2>2. CASE j > Len(s) /\ i <= Len(s)
    <3>1. /\ j - Len(s) \in 1..Len(t) /\ (s \o t)[j] = t[j - Len(s)]
          /\ i \in 1..Len(s) /\ (s \o t)[i] = s[i]
      BY <1>1, <2>2
    <3> QED BY <1>3, <1>5, <3>1 DEF Below
  <2>3. CASE i > Len(s)
    <3>1. /\ j - Len(s) \in 1..Len(t) /\ (s \o t)[j] = t[j - Len(s)]
          /\ i - Len(s) \in 1..(j - Len(s)) - 1 /\ (s \o t)[i] = t[i - Len(s)]
      BY <1>1, <2>3
    <3> QED BY <1>5, <3>1 DEF Increasing
  <2>4. Len(s) \in Nat => (j <= Len(s) \/ j > Len(s)) /\ (i <= Len(s) \/ i > Len(s))
    OBVIOUS
  <2> QED BY <1>1, <2>1, <2>2, <2>3, <2>4
<1>6. Range(s \o t) = Range(s) \union Range(t)
  BY RangeConcatenation
<1> QED BY <1>1, <1>4, <1>5, <1>6

\* Order is about frames only, and smaller sets are in order as larger ones.
LEMMA BelowIsMonotonic ==
  /\ \A S, T, A, B : A \subseteq S /\ B \subseteq T /\ Below(S, T) => Below(A, B)
  /\ \A S, A, B : Below(S, A) /\ Below(S, B) => Below(S, A \union B)
  /\ \A S, A, B : Below(A, S) /\ Below(B, S) => Below(A \union B, S)
  /\ \A S : Below(S, {0}) /\ Below({}, S)
BY DEF Below

\* A queue that drops its oldest item to make room.
LEMMA PushFrame ==
  ASSUME NEW q \in Seq(Nat), NEW x \in Nat, NEW limit \in Nat \ {0}
  PROVE  /\ Push(q, x, limit) \in Seq(Nat)
         /\ Range(Push(q, x, limit)) \subseteq Range(q) \union {x}
         /\ Increasing(q) /\ Below(Range(q), {x}) => Increasing(Push(q, x, limit))
<1>1. CASE Len(q) < limit
  BY <1>1, AppendFrame DEF Push
<1>2. CASE ~(Len(q) < limit)
  <2>1. q # <<>>
    BY <1>2, EmptySeq
  <2>2. Push(q, x, limit) = Append(Tail(q), x)
    BY <1>2 DEF Push
  <2>3. /\ Tail(q) \in Seq(Nat) /\ Range(Tail(q)) \subseteq Range(q)
        /\ Increasing(q) => Increasing(Tail(q))
    BY <2>1, TailFrames
  <2>4. Below(Range(q), {x}) => Below(Range(Tail(q)), {x})
    BY <2>3, BelowIsMonotonic
  <2>5. /\ Append(Tail(q), x) \in Seq(Nat)
        /\ Range(Append(Tail(q), x)) = Range(Tail(q)) \union {x}
        /\ Increasing(Tail(q)) /\ Below(Range(Tail(q)), {x}) => Increasing(Append(Tail(q), x))
    BY <2>3, AppendFrame
  <2> QED BY <2>2, <2>3, <2>4, <2>5
<1> QED BY <1>1, <1>2

\* What Latest stands for: an empty feed holds the latest of nothing, and to
\* push the next frame of the ring is to hold the latest of the longer ring.
LEMMA LatestIsPushed ==
  /\ Latest(<<>>) = <<>>
  /\ \A ring \in Seq(Nat), f \in Nat : FeedPush(Latest(ring), f) = Latest(Append(ring, f))
<1>1. Latest(<<>>) = <<>>
  BY LiveAssumption, SubSeqEmpty, EmptySeq DEF Latest
<1>2. ASSUME NEW ring \in Seq(Nat), NEW f \in Nat
      PROVE  FeedPush(Latest(ring), f) = Latest(Append(ring, f))
  <2> DEFINE n == Len(ring)
             longer == Append(ring, f)
  <2>1. /\ n \in Nat /\ longer \in Seq(Nat) /\ Len(longer) = n + 1
        /\ \A i \in 1..n : longer[i] = ring[i] /\ ring[i] \in Nat
        /\ longer[n + 1] = f /\ FeedQueue \in Nat \ {0} /\ Len(ring) = n
    BY AppendProperties, LenProperties, ElementOfSeq, LiveAssumption
  <2> HIDE DEF n, longer
  <2>2. CASE n < FeedQueue
    <3>1. Latest(ring) = ring /\ Latest(longer) = longer
      BY <2>1, <2>2 DEF Latest
    <3> QED BY <2>1, <2>2, <3>1 DEF FeedPush, Push, longer
  <2>3. CASE n >= FeedQueue
    <3> DEFINE m == n - FeedQueue + 1
               old == SubSeq(ring, m, n)
    <3>1. m \in 1..n /\ n \in m..n /\ m + 1 \in 1..n + 1 /\ n + 1 \in (m + 1)..(n + 1)
          /\ n + 1 \in 1..n + 1
      BY <2>1, <2>3
    <3>2. Latest(ring) = old
      <4>1. CASE n = FeedQueue
        BY <2>1, <4>1, SubSeqFull DEF Latest
      <4>2. CASE n # FeedQueue
        BY <2>1, <2>3, <4>2 DEF Latest
      <4> QED BY <4>1, <4>2
    <3>3. Latest(longer) = SubSeq(longer, m + 1, n + 1)
      <4>1. ~(n + 1 <= FeedQueue) /\ n + 1 - FeedQueue + 1 = m + 1
        BY <2>1, <2>3
      <4> QED BY <2>1, <4>1 DEF Latest
    <3>4. Len(old) = FeedQueue /\ Tail(old) = SubSeq(ring, m + 1, n) /\ old \in Seq(Nat)
      <4>1. \A i \in m..n : ring[i] \in Nat
        BY <2>1, <3>1
      <4>2. Len(old) = n - m + 1 /\ old \in Seq(Nat)
        BY <2>1, <3>1, <4>1, SubSeqProperties
      <4>3. Tail(old) = SubSeq(ring, m + 1, n)
        BY <3>1, HeadTailOfSubSeq DEF n
      <4> QED BY <2>1, <4>2, <4>3
    <3>5. FeedPush(Latest(ring), f) = Append(SubSeq(ring, m + 1, n), f)
      <4>1. ~(Len(old) < FeedQueue)
        BY <2>1, <3>4
      <4> QED BY <3>2, <3>4, <4>1 DEF FeedPush, Push
    <3>6. SubSeq(longer, m + 1, n + 1) = Append(SubSeq(longer, m + 1, n), f)
      <4>0. \A i \in (m + 1)..n : longer[i] \in Nat
        BY <2>1, <3>1
      <4>1. SubSeq(longer, m + 1, n) \in Seq(Nat)
        BY <2>1, <3>1, <4>0, SubSeqProperties
      <4>2. SubSeq(longer, m + 1, n + 1) = SubSeq(longer, m + 1, (n + 1) - 1) \o <<longer[n + 1]>>
        BY <2>1, <3>1, SubSeqRecursiveSecond
      <4>3. (n + 1) - 1 = n /\ longer[n + 1] = f
        BY <2>1
      <4>4. Append(SubSeq(longer, m + 1, n), f) = SubSeq(longer, m + 1, n) \o <<f>>
        BY <4>1, AppendIsConcat
      <4> QED BY <4>2, <4>3, <4>4
    <3>7. SubSeq(longer, m + 1, n) = SubSeq(ring, m + 1, n)
      <4>0. (m + 1)..n \subseteq 1..n
        BY <2>1, <3>1
      <4>1. \A i \in (m + 1)..n : longer[i] = ring[i] /\ ring[i] \in Nat
        BY <2>1, <4>0
      <4> DEFINE a == SubSeq(longer, m + 1, n)
                 b == SubSeq(ring, m + 1, n)
      <4>2. /\ a \in Seq(Nat) /\ Len(a) = IF m + 1 <= n THEN n - (m + 1) + 1 ELSE 0
            /\ \A i \in 1..n - (m + 1) + 1 : a[i] = longer[m + 1 + i - 1]
        BY <2>1, <3>1, <4>1, SubSeqProperties
      <4>3. /\ b \in Seq(Nat) /\ Len(b) = IF m + 1 <= n THEN n - (m + 1) + 1 ELSE 0
            /\ \A i \in 1..n - (m + 1) + 1 : b[i] = ring[m + 1 + i - 1]
        BY <2>1, <3>1, <4>1, SubSeqProperties
      <4>4. \A i \in 1..Len(a) : a[i] = b[i]
        <5> HIDE DEF a, b
        <5> SUFFICES ASSUME NEW i \in 1..Len(a) PROVE a[i] = b[i]
          OBVIOUS
        <5>1. i \in 1..n - (m + 1) + 1 /\ m + 1 + i - 1 \in (m + 1)..n
          BY <2>1, <3>1, <4>2
        <5> QED BY <4>1, <4>2, <4>3, <5>1
      <4> HIDE DEF a, b
      <4>5. a = b
        BY <4>2, <4>3, <4>4, SeqEqual
      <4> QED BY <4>5 DEF a, b
    <3>8. FeedPush(Latest(ring), f) = Latest(longer)
      BY <3>3, <3>5, <3>6, <3>7
    <3> QED BY <3>8 DEF longer
  <2> QED BY <2>1, <2>2, <2>3 DEF longer
<1> QED BY <1>1, <1>2

\* The latest of a ring are frames of the ring, in its order.
LEMMA LatestFrames ==
  ASSUME NEW ring \in Seq(Nat)
  PROVE  /\ Latest(ring) \in Seq(Nat)
         /\ Range(Latest(ring)) \subseteq Range(ring)
         /\ Increasing(ring) => Increasing(Latest(ring))
<1> DEFINE n == Len(ring)
<1>1. PICK m \in 1..n + 1 : Latest(ring) = SubSeq(ring, m, n)
  <2>1. n \in Nat /\ FeedQueue \in Nat \ {0}
    BY LenProperties, LiveAssumption
  <2>2. CASE n <= FeedQueue
    <3>1. Latest(ring) = SubSeq(ring, 1, n) /\ 1 \in 1..n + 1
      BY <2>1, <2>2, SubSeqFull DEF Latest
    <3> QED BY <3>1
  <2>3. CASE ~(n <= FeedQueue)
    <3>1. Latest(ring) = SubSeq(ring, n - FeedQueue + 1, n) /\ n - FeedQueue + 1 \in 1..n + 1
      BY <2>1, <2>3 DEF Latest
    <3> QED BY <3>1
  <2> QED BY <2>2, <2>3
<1>2. n \in Nat /\ \A i \in 1..n : ring[i] \in Nat
  BY LenProperties, ElementOfSeq
<1>3. \A i \in m..n : ring[i] \in Nat
  BY <1>1, <1>2
<1> DEFINE late == SubSeq(ring, m, n)
<1>4. /\ late \in Seq(Nat) /\ Len(late) = IF m <= n THEN n - m + 1 ELSE 0
      /\ \A i \in 1..n - m + 1 : late[i] = ring[m + i - 1]
  BY <1>1, <1>2, <1>3, SubSeqProperties
<1> HIDE DEF late
<1>5. \A i \in 1..Len(late) : late[i] = ring[m + i - 1] /\ m + i - 1 \in 1..n
  BY <1>1, <1>2, <1>4
<1>6. Range(late) \subseteq Range(ring)
  <2>1. Range(late) = {late[i] : i \in 1..Len(late)} /\ Range(ring) = {ring[i] : i \in 1..n}
    BY <1>4, RangeOfFrames
  <2> QED BY <1>5, <2>1
<1>7. ASSUME Increasing(ring) PROVE Increasing(late)
  <2> SUFFICES ASSUME NEW j \in 1..Len(late), NEW i \in 1..j - 1
               PROVE  Below({late[i]}, {late[j]})
    BY DEF Increasing
  <2>1. /\ late[j] = ring[m + j - 1] /\ m + j - 1 \in 1..n
        /\ late[i] = ring[m + i - 1] /\ m + i - 1 \in 1..(m + j - 1) - 1
    BY <1>1, <1>2, <1>4, <1>5
  <2> QED BY <1>7, <2>1 DEF Increasing
<1> QED BY <1>1, <1>4, <1>6, <1>7 DEF late

----------------------------------------------------------------------------
(* Types.                                                                  *)

LEMMA InitType == Init => TypeOK
<1> SUFFICES ASSUME Init PROVE TypeOK
  OBVIOUS
<1>1. <<>> \in Seq(Nat) /\ [p \in Pipelines |-> <<>>] \in [Pipelines -> Seq(Nat)]
  BY EmptySeq
<1> QED BY <1>1, LiveAssumption DEF Init, TypeOK

LEMMA FeedPushType ==
  \A q \in Seq(Nat), x \in Nat : FeedPush(q, x) \in Seq(Nat)
BY PushFrame, LiveAssumption DEF FeedPush

LEMMA RememberType ==
  ASSUME TypeOK, NEW f \in Nat
  PROVE  /\ Remember(f) \in Seq(Nat)
         /\ Range(Remember(f)) \subseteq Range(preroll) \union {f}
         /\ Increasing(preroll) /\ Below(Range(preroll), {f}) => Increasing(Remember(f))
<1> DEFINE ring == Append(preroll, f)
<1>1. /\ ring \in Seq(Nat) /\ Range(ring) = Range(preroll) \union {f} /\ ring # <<>>
      /\ Increasing(preroll) /\ Below(Range(preroll), {f}) => Increasing(ring)
  <2>1. preroll \in Seq(Nat)
    BY DEF TypeOK
  <2>2. ring # <<>>
    BY <2>1, AppendProperties
  <2>3. /\ ring \in Seq(Nat) /\ Range(ring) = Range(preroll) \union {f}
        /\ Increasing(preroll) /\ Below(Range(preroll), {f}) => Increasing(ring)
    BY <2>1, AppendFrame
  <2> QED BY <2>2, <2>3
<1>2. Remember(f) = ring \/ Remember(f) = Tail(ring)
  BY DEF Remember
<1> HIDE DEF ring
<1>3. /\ Tail(ring) \in Seq(Nat) /\ Range(ring) = {Head(ring)} \union Range(Tail(ring))
      /\ Increasing(ring) => Increasing(Tail(ring))
  BY <1>1, TailFrames
<1> QED BY <1>1, <1>2, <1>3

\* What a closing window leaves in the feeds.
LEMMA CloseType ==
  ASSUME NEW feeds \in [Pipelines -> Seq(Nat)], CloseWindow(feeds)
  PROVE  active' \in BOOLEAN /\ feed' \in [Pipelines -> Seq(Nat)] /\ UNCHANGED <<task, seen>>
BY FeedPushType DEF CloseWindow, End

LEMMA GoneType ==
  WorkerGone /\ TypeOK =>
      /\ worker' = "down" /\ handler' = "none" /\ broken' = TRUE /\ wire' \in Seq(Nat)
      /\ preroll' \in Seq(Nat) /\ active' = FALSE /\ windowed' = 0
      /\ feed' \in [Pipelines -> Seq(Nat)] /\ seen' \in [Pipelines -> Seq(Nat)]
      /\ task' \in [Pipelines -> {"off", "running", "done"}]
      /\ UNCHANGED <<sent, queue, tap, eof>>
BY EmptySeq DEF WorkerGone, tapVars

\* Every step keeps the types: one case per action.
LEMMA StepType == TypeOK /\ [Next]_vars => TypeOK'
<1> SUFFICES ASSUME TypeOK, [Next]_vars PROVE TypeOK'
  OBVIOUS
<1> USE DEF tapVars, socket, gate
<1>1. CASE SendFrame
  <2>1. sent + 1 \in Nat /\ queue \in Seq(Nat) /\ TapQueue \in Nat \ {0}
    BY LiveAssumption DEF TypeOK
  <2>2. Push(queue, sent + 1, TapQueue) \in Seq(Nat)
    BY <2>1, PushFrame
  <2>3. queue' \in Seq(Nat)
    BY <1>1, <2>2 DEF SendFrame
  <2> QED BY <1>1, <2>1, <2>3 DEF SendFrame, TypeOK
<1>2. CASE Connect
  <2>1. <<Hello>> \in Seq(Nat)
    BY DEF Hello
  <2> QED BY <1>2, <2>1 DEF Connect, TypeOK
<1>3. CASE Write
  <2>1. queue' \in Seq(Nat) /\ wire' \in Seq(Nat)
    BY <1>3, TailFrames, AppendFrame DEF Write, TypeOK
  <2> QED BY <1>3, <2>1 DEF Write, TypeOK
<1>4. CASE DrainEnds
  BY <1>4 DEF DrainEnds, TypeOK
<1>5. CASE Lose
  <2>1. queue' \in Seq(Nat)
    BY <1>5, TailFrames DEF Lose, TypeOK
  <2> QED BY <1>5, <2>1 DEF Lose, TypeOK
<1>6. CASE Detach
  BY <1>6, EmptySeq DEF Detach, TypeOK
<1>7. CASE Greet
  <2>1. /\ wire' \in Seq(Nat) /\ preroll' \in Seq(Nat)
        /\ feed' \in [Pipelines -> Seq(Nat)] /\ seen' \in [Pipelines -> Seq(Nat)]
    BY <1>7, TailFrames, EmptySeq DEF Greet, TypeOK
  <2> QED BY <1>7, <2>1 DEF Greet, TypeOK
<1>8. CASE ReadAudio
  <2>1. wire' \in Seq(Nat) /\ Head(wire) \in Nat /\ FeedGate(Head(wire))
    BY <1>8, TailFrames DEF ReadAudio, TypeOK
  <2>2. /\ preroll' \in Seq(Nat) /\ active' \in BOOLEAN /\ windowed' \in Nat
        /\ feed' \in [Pipelines -> Seq(Nat)] /\ seen' \in [Pipelines -> Seq(Nat)]
        /\ task' \in [Pipelines -> {"off", "running", "done"}]
        /\ handler' \in {handler, "closing"}
    <3>1. preroll' \in Seq(Nat)
      BY <2>1, RememberType DEF FeedGate
    <3>2. CASE active
      <4> DEFINE feeds == [p \in Pipelines |-> FeedPush(feed[p], Head(wire))]
      <4>1. feeds \in [Pipelines -> Seq(Nat)]
        BY <2>1, FeedPushType DEF TypeOK
      <4>2. /\ windowed' = windowed + 1
            /\ IF windowed' >= GateWindow
               THEN CloseWindow(feeds) /\ handler' = "closing"
               ELSE feed' = feeds /\ UNCHANGED <<active, task, seen, handler>>
        BY <2>1, <3>2 DEF FeedGate
      <4> HIDE DEF feeds
      <4>3. CASE CloseWindow(feeds) /\ handler' = "closing"
        BY <3>1, <4>1, <4>2, <4>3, CloseType DEF TypeOK
      <4>4. CASE feed' = feeds /\ UNCHANGED <<active, task, seen, handler>>
        BY <3>1, <4>1, <4>2, <4>4 DEF TypeOK
      <4> QED BY <4>2, <4>3, <4>4
    <3>3. CASE ~active
      <4>1. CASE OpenWindow(preroll')
        BY <2>1, <3>1, <3>3, <4>1, LatestFrames, EmptySeq DEF FeedGate, OpenWindow, TypeOK
      <4> QED BY <2>1, <3>1, <3>3, <4>1 DEF FeedGate, TypeOK
    <3> QED BY <3>2, <3>3
  <2> QED BY <1>8, <2>1, <2>2 DEF ReadAudio, TypeOK
<1>9. CASE WindowClosed
  BY <1>9 DEF WindowClosed, TypeOK
<1>10. ASSUME Finish
       PROVE  /\ handler' = "ending" /\ active' \in BOOLEAN /\ feed' \in [Pipelines -> Seq(Nat)]
              /\ UNCHANGED <<preroll, windowed, task, seen>>
  BY <1>10, CloseType DEF Finish, TypeOK
<1>11. CASE ReadEof
  BY <1>10, <1>11 DEF ReadEof, TypeOK
<1>12. CASE HandlerFails
  <2>1. wire' \in Seq(Nat) /\ deaths' \in Nat
    BY <1>12, TailFrames DEF HandlerFails, TypeOK
  <2> QED BY <1>10, <1>12, <2>1 DEF HandlerFails, TypeOK
<1>13. CASE Ended
  BY <1>13, EmptySeq DEF Ended, TypeOK
<1>14. ASSUME NEW p \in Pipelines, Consume(p) PROVE TypeOK'
  <2>1. Tail(feed[p]) \in Seq(Nat) /\ Append(seen[p], Head(feed[p])) \in Seq(Nat)
    BY <1>14, TailFrames, AppendFrame DEF Consume, TypeOK
  <2> QED BY <1>14, <2>1 DEF Consume, TypeOK
<1>15. ASSUME NEW p \in Pipelines, Return(p) PROVE TypeOK'
  BY <1>15 DEF Return, TypeOK
<1>20. ASSUME WorkerGone
       PROVE  /\ worker' = "down" /\ handler' = "none" /\ broken' = TRUE /\ wire' \in Seq(Nat)
              /\ preroll' \in Seq(Nat) /\ active' = FALSE /\ windowed' = 0
              /\ feed' \in [Pipelines -> Seq(Nat)] /\ seen' \in [Pipelines -> Seq(Nat)]
              /\ task' \in [Pipelines -> {"off", "running", "done"}]
              /\ UNCHANGED <<sent, queue, tap, eof>>
  BY <1>20, GoneType
<1>16. CASE WorkerDies
  <2>1. deaths' \in Nat
    BY <1>16 DEF WorkerDies, TypeOK
  <2>2. WorkerGone /\ watch' = watch
    BY <1>16 DEF WorkerDies
  <2> QED BY <2>1, <2>2, <1>20 DEF TypeOK
<1>17. CASE Notice \/ Respawn \/ Stop
  BY <1>17 DEF Notice, Respawn, Stop, TypeOK
<1>18. CASE WorkerStops
  <2>1. WorkerGone /\ watch' = "stopped" /\ deaths' = deaths
    BY <1>18 DEF WorkerStops
  <2> QED BY <2>1, <1>20 DEF TypeOK
<1>19. CASE UNCHANGED vars
  BY <1>19 DEF vars, TypeOK
<1> QED
  BY <1>1, <1>2, <1>3, <1>4, <1>5, <1>6, <1>7, <1>8, <1>9, <1>11, <1>12, <1>13, <1>14, <1>15,
     <1>16, <1>17, <1>18, <1>19 DEF Next, TapStep, HandlerStep, Supervise

\* Every variable keeps its type.
THEOREM TypeCorrect == Spec => []TypeOK
<1>1. QED BY InitType, StepType, PTL DEF Spec

\* A stopped supervisor leaves no worker.
THEOREM WorkerStaysGone == Spec => []NoWorkerIsLeft
<1>1. Init => NoWorkerIsLeft
  BY DEF Init, NoWorkerIsLeft
<1>2. TypeOK /\ NoWorkerIsLeft /\ [Next]_vars => NoWorkerIsLeft'
  <2> SUFFICES ASSUME TypeOK, NoWorkerIsLeft, [Next]_vars PROVE NoWorkerIsLeft'
    OBVIOUS
  <2>1. CASE Notice \/ Respawn \/ WorkerStops \/ WorkerDies \/ Stop
    BY <2>1 DEF Notice, Respawn, WorkerStops, WorkerDies, WorkerGone, Stop, NoWorkerIsLeft, TypeOK
  <2>2. CASE UNCHANGED <<watch, worker>>
    BY <2>2 DEF NoWorkerIsLeft
  <2>3. ASSUME NEW p \in Pipelines, Consume(p) \/ Return(p) PROVE UNCHANGED <<watch, worker>>
    BY <2>3 DEF Consume, Return
  <2>4. SendFrame \/ Detach \/ TapStep \/ HandlerStep \/ HandlerFails \/ UNCHANGED vars
            => UNCHANGED <<watch, worker>>
    BY DEF SendFrame, Detach, TapStep, HandlerStep, HandlerFails, Connect, Write, DrainEnds, Lose,
           Greet, ReadAudio, WindowClosed, ReadEof, Ended, vars
  <2> QED BY <2>1, <2>2, <2>3, <2>4 DEF Next, Supervise
<1> QED BY <1>1, <1>2, TypeCorrect, PTL DEF Spec

----------------------------------------------------------------------------
(* Order.                                                                  *)

\* A narrower front behind a narrower rest, give or take what is no frame.
LEMMA BelowNarrows ==
  \A S, T, A, B :
      Below(S, T) /\ A \subseteq S \union {0} /\ B \subseteq T \union {0} => Below(A, B)
BY DEF Below

\* What is pushed into a feed is behind what was there, and after what its
\* pipeline has heard.
LEMMA FeedKeepsOrder ==
  ASSUME NEW s \in Seq(Nat), NEW q \in Seq(Nat), NEW x \in Nat,
         Increasing(s \o q), Below(Range(s \o q), {x})
  PROVE  /\ Increasing(s \o FeedPush(q, x))
         /\ Range(s \o FeedPush(q, x)) \subseteq Range(s \o q) \union {x}
<1> DEFINE r == FeedPush(q, x)
<1>1. /\ Increasing(s) /\ Increasing(q) /\ Below(Range(s), Range(q))
      /\ Range(s \o q) = Range(s) \union Range(q)
  BY ConcatFrames
<1>2. Below(Range(s), {x}) /\ Below(Range(q), {x})
  BY <1>1, BelowIsMonotonic
<1>3. r \in Seq(Nat) /\ Range(r) \subseteq Range(q) \union {x} /\ Increasing(r)
  BY <1>1, <1>2, PushFrame, LiveAssumption DEF FeedPush
<1>4. Below(Range(s), Range(r))
  <2>1. Below(Range(s), Range(q) \union {x})
    BY <1>1, <1>2, BelowIsMonotonic
  <2> QED BY <1>3, <2>1, BelowIsMonotonic
<1> HIDE DEF r
<1>5. Increasing(s \o r) /\ Range(s \o r) = Range(s) \union Range(r)
  BY <1>1, <1>3, <1>4, ConcatFrames
<1>6. Range(s \o r) \subseteq Range(s \o q) \union {x}
  BY <1>1, <1>3, <1>5
<1> QED BY <1>5, <1>6 DEF r

Fronts(p) == seen[p] \o feed[p]

LEMMA FrontType ==
  TypeOK => \A p \in Pipelines : /\ seen[p] \in Seq(Nat) /\ feed[p] \in Seq(Nat)
                                 /\ Fronts(p) \in Seq(Nat) /\ Range(Fronts(p)) \subseteq Nat
<1> SUFFICES ASSUME TypeOK, NEW p \in Pipelines
             PROVE  /\ seen[p] \in Seq(Nat) /\ feed[p] \in Seq(Nat)
                    /\ Fronts(p) \in Seq(Nat) /\ Range(Fronts(p)) \subseteq Nat
  OBVIOUS
<1>1. seen[p] \in Seq(Nat) /\ feed[p] \in Seq(Nat)
  BY DEF TypeOK
<1> QED BY <1>1, ConcatFrames, RangeOfFrames DEF Fronts

FlowParts ==
    LET rest == Range(wire) \union Range(queue) \union {sent + 1}
    IN  /\ Increasing(wire) /\ Below(Range(wire), Range(queue) \union {sent + 1})
        /\ Increasing(queue) /\ Below(Range(queue), {sent + 1})
        /\ Increasing(preroll) /\ Below(Range(preroll), rest)
        /\ \A p \in Pipelines : Increasing(Fronts(p)) /\ Below(Range(Fronts(p)), rest)

LEMMA PartsOfFlow == FlowInv <=> FlowParts
BY DEF FlowInv, FlowParts, Behind, Fronts

\* A step that brings no new frame anywhere keeps the order.
LEMMA NothingNew ==
  ASSUME FlowParts, sent' = sent,
         Increasing(wire)', Range(wire)' \subseteq Range(wire) \union {0},
         Increasing(queue)', Range(queue)' \subseteq Range(queue) \union {0},
         Increasing(preroll)', Range(preroll)' \subseteq Range(preroll) \union {0},
         \A p \in Pipelines : /\ Increasing(Fronts(p))'
                              /\ Range(Fronts(p))' \subseteq Range(Fronts(p)) \union {0}
  PROVE  FlowParts'
<1> DEFINE rest == Range(wire) \union Range(queue) \union {sent + 1}
<1>1. rest' \subseteq rest \union {0}
  OBVIOUS
<1>2. (Range(queue) \union {sent + 1})' \subseteq (Range(queue) \union {sent + 1}) \union {0}
  OBVIOUS
<1>3. Below(Range(wire), Range(queue) \union {sent + 1})'
  BY <1>2, BelowNarrows DEF FlowParts
<1>4. Below(Range(queue), {sent + 1})'
  BY BelowNarrows DEF FlowParts
<1>5. Below(Range(preroll), rest)'
  BY <1>1, BelowNarrows DEF FlowParts
<1>6. \A p \in Pipelines : Below(Range(Fronts(p)), rest)'
  BY <1>1, BelowNarrows DEF FlowParts
<1> QED BY <1>3, <1>4, <1>5, <1>6 DEF FlowParts

LEMMA EmptyFrames ==
  /\ Increasing(<<>>) /\ Range(<<>>) = {} /\ Increasing(<<0>>) /\ Range(<<0>>) = {0}
  /\ <<>> \o <<>> = <<>>
BY RangeOfFrames, ConcatEmptySeq, EmptySeq DEF Increasing, Range

\* A pipeline's feed and what it has heard, reset.
LEMMA FrontsReset ==
  ASSUME seen' = [p \in Pipelines |-> <<>>], feed' = [p \in Pipelines |-> <<>>]
  PROVE  \A p \in Pipelines : Increasing(Fronts(p))' /\ Range(Fronts(p))' = {}
<1>1. \A p \in Pipelines : Fronts(p)' = <<>>
  BY EmptyFrames DEF Fronts
<1> QED BY <1>1, EmptyFrames

\* A sentinel changes nothing about the frames.
LEMMA SentinelKeepsOrder ==
  ASSUME TypeOK, FlowParts, seen' = seen,
         feed' = [p \in Pipelines |-> FeedPush(feed[p], End)]
  PROVE  \A p \in Pipelines : /\ Increasing(Fronts(p))'
                              /\ Range(Fronts(p))' \subseteq Range(Fronts(p)) \union {0}
<1> SUFFICES ASSUME NEW p \in Pipelines
             PROVE  /\ Increasing(Fronts(p))'
                    /\ Range(Fronts(p))' \subseteq Range(Fronts(p)) \union {0}
  OBVIOUS
<1>1. seen[p] \in Seq(Nat) /\ feed[p] \in Seq(Nat) /\ Increasing(seen[p] \o feed[p])
  BY FrontType DEF FlowParts, Fronts
<1>2. Below(Range(seen[p] \o feed[p]), {0})
  BY BelowIsMonotonic
<1>3. /\ Increasing(seen[p] \o FeedPush(feed[p], 0))
      /\ Range(seen[p] \o FeedPush(feed[p], 0)) \subseteq Range(seen[p] \o feed[p]) \union {0}
  BY <1>1, <1>2, FeedKeepsOrder
<1>4. Fronts(p)' = seen[p] \o FeedPush(feed[p], 0)
  BY DEF Fronts, End
<1> QED BY <1>3, <1>4 DEF Fronts

\* A new frame is forwarded: it is ahead of everything.
LEMMA FrameIsAhead == TypeOK /\ FlowParts /\ SendFrame => FlowParts'
<1> SUFFICES ASSUME TypeOK, FlowParts, SendFrame PROVE FlowParts'
  OBVIOUS
<1>1. /\ sent \in Nat /\ sent' = sent + 1 /\ queue \in Seq(Nat) /\ wire \in Seq(Nat)
      /\ preroll \in Seq(Nat) /\ queue' = Push(queue, sent + 1, TapQueue)
      /\ wire' = wire /\ preroll' = preroll /\ seen' = seen /\ feed' = feed
      /\ TapQueue \in Nat \ {0} /\ sent + 1 \in Nat
  BY LiveAssumption DEF SendFrame, TypeOK, socket, gate
<1>2. Increasing(queue)' /\ Range(queue)' \subseteq Range(queue) \union {sent + 1}
  BY <1>1, PushFrame DEF FlowParts
<1>3. \A S \in SUBSET Nat : Below(S, {sent + 1}) => Below(S, {sent + 1} \union {sent + 2})
  BY <1>1 DEF Below
<1>4. /\ Range(wire) \subseteq Nat /\ Range(queue) \subseteq Nat /\ Range(preroll) \subseteq Nat
      /\ \A p \in Pipelines : Range(Fronts(p)) \subseteq Nat
  BY <1>1, RangeOfFrames, FrontType
\* Whatever was behind the rest is behind the rest and the frame to come.
<1>5. ASSUME NEW S \in SUBSET Nat, NEW T, Below(S, T \union {sent + 1})
      PROVE  Below(S, T \union {sent + 1} \union {sent + 2})
  BY <1>3, <1>5 DEF Below
<1>6. (Range(wire) \union Range(queue) \union {sent + 1})'
          \subseteq (Range(wire) \union Range(queue)) \union {sent + 1} \union {sent + 2}
  BY <1>1, <1>2
<1>7. Below(Range(wire), Range(queue) \union {sent + 1})'
  <2>1. Below(Range(wire), Range(queue) \union {sent + 1} \union {sent + 2})
    BY <1>4, <1>5 DEF FlowParts
  <2>2. (Range(queue) \union {sent + 1})' \subseteq Range(queue) \union {sent + 1} \union {sent + 2}
    BY <1>1, <1>2
  <2> QED BY <1>1, <2>1, <2>2, BelowIsMonotonic
<1>8. Below(Range(queue), {sent + 1})'
  <2>1. Below(Range(queue), {sent + 2}) /\ Below({sent + 1}, {sent + 2})
    BY <1>1, <1>3, <1>4, BelowIsMonotonic DEF FlowParts, Below
  <2>2. Below(Range(queue) \union {sent + 1}, {sent + 2})
    BY <2>1, BelowIsMonotonic
  <2>3. Below(Range(queue)', {sent + 2})
    BY <1>2, <2>2, BelowIsMonotonic
  <2>4. sent' + 1 = sent + 2
    BY <1>1
  <2> QED BY <2>3, <2>4
<1>9. Below(Range(preroll), Range(wire) \union Range(queue) \union {sent + 1})'
  <2>1. Below(Range(preroll), (Range(wire) \union Range(queue)) \union {sent + 1} \union {sent + 2})
    BY <1>4, <1>5 DEF FlowParts
  <2> QED BY <1>1, <1>6, <2>1, BelowIsMonotonic
<1>10. ASSUME NEW p \in Pipelines
       PROVE  /\ Increasing(Fronts(p))'
              /\ Below(Range(Fronts(p)), Range(wire) \union Range(queue) \union {sent + 1})'
  <2>1. Fronts(p)' = Fronts(p)
    BY <1>1 DEF Fronts
  <2>2. Below(Range(Fronts(p)), (Range(wire) \union Range(queue)) \union {sent + 1} \union {sent + 2})
    BY <1>4, <1>5 DEF FlowParts
  <2> QED BY <1>6, <2>1, <2>2, BelowIsMonotonic DEF FlowParts
<1> QED BY <1>1, <1>2, <1>7, <1>8, <1>9, <1>10 DEF FlowParts

\* A frame goes from the queue onto the wire.
LEMMA WriteKeepsOrder == TypeOK /\ FlowParts /\ Write => FlowParts'
<1> SUFFICES ASSUME TypeOK, FlowParts, Write PROVE FlowParts'
  OBVIOUS
<1> DEFINE f == Head(queue)
           rest == Range(wire) \union Range(queue) \union {sent + 1}
<1>1. /\ sent' = sent /\ queue \in Seq(Nat) /\ queue # <<>> /\ wire \in Seq(Nat)
      /\ queue' = Tail(queue) /\ wire' = Append(wire, f)
      /\ preroll' = preroll /\ seen' = seen /\ feed' = feed
  BY DEF Write, TypeOK, gate
<1>2. /\ f \in Nat /\ Tail(queue) \in Seq(Nat) /\ Range(queue) = {f} \union Range(Tail(queue))
      /\ Increasing(Tail(queue)) /\ Below({f}, Range(Tail(queue)))
  BY <1>1, TailFrames DEF FlowParts
<1>3. Below(Range(wire), {f}) /\ Below(Range(wire), Range(Tail(queue)) \union {sent + 1})
  BY <1>2, BelowIsMonotonic DEF FlowParts
<1>4. Range(wire)' = Range(wire) \union {f} /\ Increasing(wire)'
  BY <1>1, <1>2, <1>3, AppendFrame DEF FlowParts
<1>5. Below({f}, {sent + 1}) /\ Below(Range(Tail(queue)), {sent + 1})
  BY <1>2, BelowIsMonotonic DEF FlowParts
<1>6. Below(Range(wire) \union {f}, Range(Tail(queue)) \union {sent + 1})
  <2>1. Below({f}, Range(Tail(queue)) \union {sent + 1})
    BY <1>2, <1>5, BelowIsMonotonic
  <2> HIDE DEF f
  <2> QED BY <1>3, <2>1, BelowIsMonotonic
<1>7. rest' = rest
  BY <1>1, <1>2, <1>4
<1>8. \A p \in Pipelines : Fronts(p)' = Fronts(p)
  BY <1>1 DEF Fronts
<1> QED BY <1>1, <1>2, <1>4, <1>5, <1>6, <1>7, <1>8 DEF FlowParts

\* A frame goes from the wire into the gate: into its ring, and into the feeds
\* of an open window, or the ring into fresh ones.
LEMMA ReadKeepsOrder == TypeOK /\ FlowParts /\ ReadAudio => FlowParts'
<1> SUFFICES ASSUME TypeOK, FlowParts, ReadAudio PROVE FlowParts'
  OBVIOUS
<1> DEFINE f == Head(wire)
           left == Range(Tail(wire)) \union Range(queue) \union {sent + 1}
<1>1. /\ sent' = sent /\ queue' = queue /\ wire \in Seq(Nat) /\ wire # <<>> /\ wire' = Tail(wire)
      /\ FeedGate(f)
  BY DEF ReadAudio, TypeOK, tapVars
<1>2. /\ f \in Nat /\ Range(wire) = {f} \union Range(Tail(wire))
      /\ Increasing(Tail(wire)) /\ Below({f}, Range(Tail(wire)))
  BY <1>1, TailFrames DEF FlowParts
<1>3. /\ Below({f}, Range(queue) \union {sent + 1})
      /\ Below(Range(Tail(wire)), Range(queue) \union {sent + 1})
  BY <1>2, BelowIsMonotonic DEF FlowParts
<1>4. Below({f}, left)
  <2>1. Below({f}, Range(Tail(wire)) \union (Range(queue) \union {sent + 1}))
    BY <1>2, <1>3, BelowIsMonotonic
  <2> QED BY <2>1, BelowIsMonotonic
<1>5. Range(wire) \union Range(queue) \union {sent + 1} = {f} \union left
  BY <1>2
\* What was behind the wire is behind its head, and behind what is left of it.
<1>6. ASSUME NEW S, Below(S, Range(wire) \union Range(queue) \union {sent + 1})
      PROVE  /\ Below(S, {f}) /\ Below(S, left) /\ Below(S \union {f}, left)
             /\ Below(S \union {f} \union {0}, left)
  <2>1. Below(S, {f}) /\ Below(S, left)
    BY <1>5, <1>6, BelowIsMonotonic
  <2>2. Below(S \union {f}, left)
    BY <1>4, <2>1, BelowIsMonotonic
  <2>3. Below(S \union {f} \union {0}, left)
    BY <2>2, BelowNarrows
  <2> QED BY <2>1, <2>2, <2>3
<1> HIDE DEF f
<1>7. /\ Increasing(preroll)' /\ Below(Range(preroll)', left)
      /\ preroll' \in Seq(Nat)
  <2>1. preroll' = Remember(f)
    BY <1>1 DEF FeedGate
  <2>2. Below(Range(preroll), {f}) /\ Below(Range(preroll) \union {f}, left)
    BY <1>6 DEF FlowParts
  <2>3. /\ Remember(f) \in Seq(Nat) /\ Range(Remember(f)) \subseteq Range(preroll) \union {f}
        /\ Increasing(Remember(f))
    BY <1>2, <2>2, RememberType DEF FlowParts
  <2> QED BY <2>1, <2>2, <2>3, BelowIsMonotonic
<1>8. ASSUME NEW p \in Pipelines
      PROVE  Increasing(Fronts(p))' /\ Below(Range(Fronts(p))', left)
  <2>1. /\ seen[p] \in Seq(Nat) /\ feed[p] \in Seq(Nat) /\ Increasing(seen[p] \o feed[p])
        /\ Fronts(p) = seen[p] \o feed[p]
        /\ Below(Range(Fronts(p)), Range(wire) \union Range(queue) \union {sent + 1})
    BY FrontType DEF FlowParts, Fronts
  <2>2. /\ Below(Range(Fronts(p)), {f}) /\ Below(Range(Fronts(p)), left)
        /\ Below(Range(Fronts(p)) \union {f}, left)
        /\ Below(Range(Fronts(p)) \union {f} \union {0}, left)
    BY <1>6, <2>1
  <2>3. CASE feed' = feed /\ seen' = seen
    BY <2>1, <2>2, <2>3 DEF Fronts
  <2>4. CASE OpenWindow(preroll')
    <3>1. Fronts(p)' = <<>> \o Latest(preroll')
      BY <2>4 DEF OpenWindow, Fronts
    <3>2. /\ Latest(preroll') \in Seq(Nat) /\ Range(Latest(preroll')) \subseteq Range(preroll')
          /\ Increasing(Latest(preroll'))
      BY <1>7, LatestFrames
    <3>3. Fronts(p)' = Latest(preroll')
      BY <3>1, <3>2, ConcatEmptySeq
    <3> QED BY <1>7, <3>2, <3>3, BelowIsMonotonic
  <2>5. CASE active /\ ~(feed' = feed /\ seen' = seen)
    <3> DEFINE q == FeedPush(feed[p], f)
    <3>1. /\ Increasing(seen[p] \o q)
          /\ Range(seen[p] \o q) \subseteq Range(Fronts(p)) \union {f}
      BY <1>2, <2>1, <2>2, FeedKeepsOrder
    <3>2. q \in Seq(Nat)
      BY <1>2, <2>1, FeedPushType
    <3>3. seen'[p] = seen[p] /\ (feed'[p] = q \/ feed'[p] = FeedPush(q, 0))
      BY <1>1, <2>5 DEF FeedGate, CloseWindow, End
    <3> HIDE DEF q
    <3>4. Below(Range(seen[p] \o q), {0})
      BY BelowIsMonotonic
    <3>5. /\ Increasing(seen[p] \o FeedPush(q, 0))
          /\ Range(seen[p] \o FeedPush(q, 0)) \subseteq Range(seen[p] \o q) \union {0}
      BY <2>1, <3>1, <3>2, <3>4, FeedKeepsOrder
    <3>6. CASE feed'[p] = q
      BY <2>2, <3>1, <3>3, <3>6, BelowIsMonotonic DEF Fronts
    <3>7. CASE feed'[p] = FeedPush(q, 0)
      <4>1. Range(seen[p] \o FeedPush(q, 0)) \subseteq Range(Fronts(p)) \union {f} \union {0}
        BY <3>1, <3>5
      <4> QED BY <2>2, <3>3, <3>5, <3>7, <4>1, BelowIsMonotonic DEF Fronts
    <3> QED BY <3>3, <3>6, <3>7
  <2> QED BY <1>1, <2>3, <2>4, <2>5 DEF FeedGate
<1>9. Increasing(wire)' /\ Below(Range(wire), Range(queue) \union {sent + 1})'
  BY <1>1, <1>2, <1>3
<1>10. (Range(wire) \union Range(queue) \union {sent + 1})' = left
  BY <1>1
<1>11. Increasing(queue)' /\ Below(Range(queue), {sent + 1})'
  BY <1>1 DEF FlowParts
<1> HIDE DEF left
<1> QED BY <1>7, <1>8, <1>9, <1>10, <1>11 DEF FlowParts

\* Every step keeps the order: one case per action.
LEMMA FlowStep == TypeOK /\ FlowInv /\ [Next]_vars => FlowInv'
<1> SUFFICES ASSUME TypeOK, FlowParts, [Next]_vars PROVE FlowParts'
  BY PartsOfFlow, PTL
<1>a. /\ wire \in Seq(Nat) /\ queue \in Seq(Nat)
      /\ Increasing(wire) /\ Increasing(queue) /\ Increasing(preroll)
      /\ \A p \in Pipelines : Increasing(Fronts(p))
  BY DEF TypeOK, FlowParts
\* A message read off the wire, or the oldest frame dropped.
<1>b. /\ wire # <<>> => /\ Increasing(Tail(wire)) /\ Range(Tail(wire)) \subseteq Range(wire)
      /\ queue # <<>> => /\ Increasing(Tail(queue)) /\ Range(Tail(queue)) \subseteq Range(queue)
  BY <1>a, TailFrames
<1>c. ASSUME seen' = seen, feed' = feed
      PROVE  \A p \in Pipelines : /\ Increasing(Fronts(p))'
                                  /\ Range(Fronts(p))' \subseteq Range(Fronts(p)) \union {0}
  BY <1>a, <1>c DEF Fronts
<1>1. CASE SendFrame
  BY <1>1, FrameIsAhead
<1>2. CASE Write
  BY <1>2, WriteKeepsOrder
<1>3. CASE ReadAudio
  BY <1>3, ReadKeepsOrder
<1>4. CASE Connect
  <2>1. /\ wire' = <<0>> /\ sent' = sent /\ queue' = queue /\ preroll' = preroll
        /\ seen' = seen /\ feed' = feed
    BY <1>4 DEF Connect, Hello, gate
  <2> QED BY <1>a, <1>c, <2>1, EmptyFrames, NothingNew
<1>5. CASE Lose \/ Detach
  <2>1. /\ queue' \in {queue, <<>>} \/ (queue # <<>> /\ queue' = Tail(queue))
        /\ sent' = sent /\ wire' = wire /\ preroll' = preroll /\ seen' = seen /\ feed' = feed
    BY <1>5 DEF Lose, Detach, gate
  <2>2. Increasing(queue)' /\ Range(queue)' \subseteq Range(queue) \union {0}
    BY <1>a, <1>b, <2>1, EmptyFrames
  <2> QED BY <1>a, <1>c, <2>1, <2>2, NothingNew
<1>6. CASE Greet
  <2>1. /\ wire # <<>> /\ wire' = Tail(wire) /\ sent' = sent /\ queue' = queue
        /\ preroll' = <<>> /\ feed' = [p \in Pipelines |-> <<>>]
        /\ seen' = [p \in Pipelines |-> <<>>]
    BY <1>6 DEF Greet, tapVars
  <2>2. \A p \in Pipelines : Increasing(Fronts(p))' /\ Range(Fronts(p))' = {}
    BY <2>1, FrontsReset
  <2> QED BY <1>a, <1>b, <2>1, <2>2, EmptyFrames, NothingNew
<1>7. CASE WorkerGone
  <2>1. /\ wire' = <<>> /\ sent' = sent /\ queue' = queue
        /\ preroll' = <<>> /\ feed' = [p \in Pipelines |-> <<>>]
        /\ seen' = [p \in Pipelines |-> <<>>]
    BY <1>7 DEF WorkerGone, tapVars
  <2>2. \A p \in Pipelines : Increasing(Fronts(p))' /\ Range(Fronts(p))' = {}
    BY <2>1, FrontsReset
  <2> QED BY <1>a, <2>1, <2>2, EmptyFrames, NothingNew
<1>8. CASE ReadEof \/ HandlerFails
  <2>1. /\ Finish /\ sent' = sent /\ queue' = queue
        /\ wire' = wire \/ (wire # <<>> /\ wire' = Tail(wire))
    BY <1>8 DEF ReadEof, HandlerFails, tapVars, socket
  <2>2. /\ preroll' = preroll /\ seen' = seen
        /\ feed' = feed \/ feed' = [p \in Pipelines |-> FeedPush(feed[p], End)]
    BY <2>1 DEF Finish, CloseWindow, gate
  <2>3. Increasing(wire)' /\ Range(wire)' \subseteq Range(wire) \union {0}
    BY <1>a, <1>b, <2>1
  <2>4. \A p \in Pipelines : /\ Increasing(Fronts(p))'
                             /\ Range(Fronts(p))' \subseteq Range(Fronts(p)) \union {0}
    BY <1>c, <2>2, SentinelKeepsOrder
  <2> QED BY <1>a, <2>1, <2>2, <2>3, <2>4, NothingNew
<1>9. ASSUME NEW p \in Pipelines, Consume(p) PROVE FlowParts'
  <2>1. /\ feed[p] # <<>> /\ feed' = [feed EXCEPT ![p] = Tail(@)]
        /\ \/ Head(feed[p]) = 0 /\ seen' = seen
           \/ seen' = [seen EXCEPT ![p] = Append(@, Head(feed[p]))]
        /\ wire' = wire /\ sent' = sent /\ queue' = queue /\ preroll' = preroll
    BY <1>9 DEF Consume, End, tapVars, socket
  <2>2. ASSUME NEW q \in Pipelines
        PROVE  /\ Increasing(Fronts(q))'
               /\ Range(Fronts(q))' \subseteq Range(Fronts(q)) \union {0}
    <3>1. CASE q # p
      <4>1. Fronts(q)' = Fronts(q)
        BY <2>1, <3>1 DEF Fronts, TypeOK
      <4> QED BY <1>a, <4>1
    <3>2. CASE q = p
      <4> DEFINE s == seen[p]
                 h == Head(feed[p])
                 t == Tail(feed[p])
      <4>1. s \in Seq(Nat) /\ feed[p] \in Seq(Nat) /\ Increasing(s \o feed[p])
        BY <1>a, FrontType DEF Fronts
      <4>2. /\ Increasing(s) /\ Increasing(feed[p]) /\ Below(Range(s), Range(feed[p]))
            /\ Range(Fronts(p)) = Range(s) \union Range(feed[p])
        BY <4>1, ConcatFrames DEF Fronts
      <4>3. /\ h \in Nat /\ t \in Seq(Nat) /\ Range(feed[p]) = {h} \union Range(t)
            /\ Increasing(t) /\ Below({h}, Range(t))
        BY <2>1, <4>1, <4>2, TailFrames
      <4>4. Below(Range(s), {h}) /\ Below(Range(s), Range(t))
        BY <4>2, <4>3, BelowIsMonotonic
      <4>5. feed'[p] = t /\ (seen'[p] = s \/ seen'[p] = Append(s, h))
        BY <2>1 DEF TypeOK
      <4> HIDE DEF s, h, t
      <4>6. CASE seen'[p] = s
        <5>1. Increasing(s \o t) /\ Range(s \o t) = Range(s) \union Range(t)
          BY <4>1, <4>2, <4>3, <4>4, ConcatFrames
        <5> QED BY <3>2, <4>2, <4>3, <4>5, <4>6, <5>1 DEF Fronts
      <4>7. CASE seen'[p] = Append(s, h)
        <5>1. /\ Append(s, h) \in Seq(Nat) /\ Range(Append(s, h)) = Range(s) \union {h}
              /\ Increasing(Append(s, h))
          BY <4>1, <4>2, <4>3, <4>4, AppendFrame
        <5>2. Below(Range(Append(s, h)), Range(t))
          BY <4>3, <4>4, <5>1, BelowIsMonotonic
        <5>3. /\ Increasing(Append(s, h) \o t)
              /\ Range(Append(s, h) \o t) = Range(s) \union {h} \union Range(t)
          BY <4>3, <5>1, <5>2, ConcatFrames
        <5> QED BY <3>2, <4>2, <4>3, <4>5, <4>7, <5>3 DEF Fronts
      <4> QED BY <4>5, <4>6, <4>7
    <3> QED BY <3>1, <3>2
  <2> QED BY <1>a, <2>1, <2>2, NothingNew
<1>10. CASE Ended
  <2>1. /\ wire' = <<>> /\ sent' = sent /\ queue' = queue /\ preroll' = preroll
        /\ seen' = seen /\ feed' = feed
    BY <1>10 DEF Ended, tapVars, gate
  <2> QED BY <1>a, <1>c, <2>1, EmptyFrames, NothingNew
<1>11. CASE UNCHANGED <<sent, queue, wire, preroll, seen, feed>>
  BY <1>a, <1>c, <1>11, NothingNew
<1>12. ASSUME NEW p \in Pipelines, Return(p)
       PROVE  UNCHANGED <<sent, queue, wire, preroll, seen, feed>>
  BY <1>12 DEF Return, tapVars, socket
<1>13. DrainEnds \/ WindowClosed \/ Notice \/ Respawn \/ Stop \/ UNCHANGED vars
           => UNCHANGED <<sent, queue, wire, preroll, seen, feed>>
  BY DEF DrainEnds, WindowClosed, Notice, Respawn, Stop, vars, tapVars, socket, gate
<1>14. WorkerDies \/ WorkerStops => WorkerGone
  BY DEF WorkerDies, WorkerStops
<1> QED
  BY <1>1, <1>2, <1>3, <1>4, <1>5, <1>6, <1>7, <1>8, <1>9, <1>10, <1>11, <1>12, <1>13, <1>14
     DEF Next, TapStep, HandlerStep, Supervise

LEMMA FlowInit == Init => FlowInv
<1> SUFFICES ASSUME Init PROVE FlowParts
  BY PartsOfFlow
<1>1. \A p \in Pipelines : Fronts(p) = <<>>
  BY EmptyFrames DEF Init, Fronts
<1>2. wire = <<>> /\ queue = <<>> /\ preroll = <<>>
  BY DEF Init
<1> QED BY <1>1, <1>2, EmptyFrames, BelowIsMonotonic DEF FlowParts

----------------------------------------------------------------------------
(* The queue.                                                              *)

LEMMA QueueStep == TypeOK /\ QueueInv /\ [Next]_vars => QueueInv'
<1> SUFFICES ASSUME TypeOK, QueueInv, [Next]_vars PROVE QueueInv'
  OBVIOUS
<1> DEFINE n == Len(queue)
<1>a. /\ sent \in Nat /\ queue \in Seq(Nat) /\ n \in Nat /\ TapQueue \in Nat \ {0}
      /\ n <= TapQueue /\ n <= sent /\ \A i \in 1..n : queue[i] = sent - n + i
  BY LenProperties, LiveAssumption DEF TypeOK, QueueInv
<1>b. queue # <<>> => /\ Tail(queue) \in Seq(Nat) /\ Len(Tail(queue)) = n - 1 /\ n >= 1
                      /\ \A i \in 1..n - 1 : Tail(queue)[i] = queue[i + 1]
  BY <1>a, HeadTailProperties, EmptySeq
<1>c. Len(<<>>) = 0
  BY EmptySeq
\* The oldest frames go first, and what is left is still the stream's end.
<1>1. ASSUME queue # <<>>, queue' = Tail(queue), sent' = sent, tap' # "closed" PROVE QueueInv'
  <2>1. Len(queue') = n - 1 /\ \A i \in 1..n - 1 : queue'[i] = sent - (n - 1) + i
    BY <1>a, <1>b, <1>1
  <2> QED BY <1>a, <1>b, <1>1, <2>1 DEF QueueInv
<1>2. CASE SendFrame
  <2>1. /\ tap # "closed" /\ tap' = tap /\ sent' = sent + 1
        /\ queue' = Push(queue, sent + 1, TapQueue)
    BY <1>2 DEF SendFrame
  <2> DEFINE kept == IF n < TapQueue THEN queue ELSE Tail(queue)
             m == Len(kept)
  <2>2. /\ kept \in Seq(Nat) /\ m \in Nat /\ m < TapQueue /\ m <= sent
        /\ \A i \in 1..m : kept[i] = sent - m + i
    <3>1. CASE n < TapQueue
      BY <1>a, <3>1
    <3>2. CASE ~(n < TapQueue)
      <4>1. queue # <<>> /\ kept = Tail(queue)
        BY <1>a, <1>c, <3>2
      <4> QED BY <1>a, <1>b, <3>2, <4>1
    <3> QED BY <3>1, <3>2
  <2>3. queue' = Append(kept, sent + 1)
    BY <2>1 DEF Push
  <2> HIDE DEF kept
  <2>4. /\ Len(queue') = m + 1 /\ \A i \in 1..m : queue'[i] = kept[i]
        /\ queue'[m + 1] = sent + 1
    BY <1>a, <2>2, <2>3, AppendProperties
  <2> HIDE DEF m
  <2>5. ASSUME NEW i \in 1..m + 1 PROVE queue'[i] = (sent + 1) - (m + 1) + i
    <3>1. CASE i = m + 1
      BY <1>a, <2>2, <2>4, <3>1
    <3>2. CASE i # m + 1
      <4>1. i \in 1..m
        BY <2>2, <3>2
      <4> QED BY <1>a, <2>2, <2>4, <4>1
    <3> QED BY <3>1, <3>2
  <2>6. Len(queue)' <= TapQueue /\ Len(queue)' <= sent'
    BY <1>a, <2>1, <2>2, <2>4
  <2>7. \A i \in 1..Len(queue)' : queue'[i] = sent' - Len(queue)' + i
    BY <2>1, <2>4, <2>5
  <2> QED BY <2>1, <2>6, <2>7 DEF QueueInv
<1>3. CASE Write
  <2>1. queue # <<>> /\ queue' = Tail(queue) /\ sent' = sent /\ tap' # "closed"
    BY <1>3 DEF Write
  <2> QED BY <1>1, <2>1
<1>4. CASE Lose
  <2>1. /\ sent' = sent /\ tap' = "away"
        /\ queue' = queue \/ (queue # <<>> /\ queue' = Tail(queue))
    BY <1>4 DEF Lose
  <2>2. CASE queue' = queue
    BY <1>a, <2>1, <2>2 DEF QueueInv
  <2> QED BY <1>1, <2>1, <2>2
<1>5. CASE Detach
  BY <1>a, <1>c, <1>5 DEF Detach, QueueInv
<1>6. CASE UNCHANGED <<sent, queue, tap>>
  BY <1>6 DEF QueueInv
<1>7. CASE Connect \/ DrainEnds
  BY <1>7 DEF Connect, DrainEnds, QueueInv
<1>8. HandlerStep \/ HandlerFails \/ WorkerDies \/ Supervise \/ Stop \/ UNCHANGED vars
          => UNCHANGED <<sent, queue, tap>>
  BY DEF HandlerStep, Greet, ReadAudio, WindowClosed, ReadEof, Ended, HandlerFails, WorkerDies,
         WorkerGone, Supervise, Notice, Respawn, WorkerStops, Stop, vars, tapVars
<1>9. ASSUME NEW p \in Pipelines, Consume(p) \/ Return(p) PROVE UNCHANGED <<sent, queue, tap>>
  BY <1>9 DEF Consume, Return, tapVars
<1> QED
  BY <1>2, <1>3, <1>4, <1>5, <1>6, <1>7, <1>8, <1>9 DEF Next, TapStep

\* From what a pipeline has heard to the frame to come, audio is in order and
\* nothing is repeated (FlowInv); what waits in the tap is the stream's end
\* without a gap (QueueInv).
THEOREM AudioKeepsItsOrder == Spec => []AudioFlows
<1>1. Init => FlowInv /\ QueueInv
  <2>1. Init => QueueInv
    BY LiveAssumption, EmptySeq DEF Init, QueueInv
  <2> QED BY <2>1, FlowInit
<1>2. TypeOK /\ FlowInv /\ QueueInv /\ [Next]_vars => (FlowInv /\ QueueInv)'
  BY FlowStep, QueueStep
<1>3. TypeOK /\ FlowInv /\ QueueInv => AudioFlows
  <2> SUFFICES ASSUME TypeOK, FlowParts, QueueInv PROVE AudioFlows
    BY PartsOfFlow
  <2>1. ASSUME NEW p \in Pipelines
        PROVE  Increasing(seen[p] \o feed[p] \o wire \o queue)
    <3> DEFINE rest == Range(wire) \union Range(queue) \union {sent + 1}
    <3>1. /\ Fronts(p) \in Seq(Nat) /\ wire \in Seq(Nat) /\ queue \in Seq(Nat)
          /\ Increasing(Fronts(p)) /\ Increasing(wire) /\ Increasing(queue)
          /\ Below(Range(Fronts(p)), rest)
          /\ Below(Range(wire), Range(queue) \union {sent + 1})
      BY FrontType DEF TypeOK, FlowParts
    <3>2. /\ Below(Range(Fronts(p)), Range(wire)) /\ Below(Range(Fronts(p)), Range(queue))
          /\ Below(Range(wire), Range(queue))
      BY <3>1, BelowIsMonotonic
    <3>3. /\ Fronts(p) \o wire \in Seq(Nat) /\ Increasing(Fronts(p) \o wire)
          /\ Range(Fronts(p) \o wire) = Range(Fronts(p)) \union Range(wire)
      BY <3>1, <3>2, ConcatFrames
    <3>4. Below(Range(Fronts(p) \o wire), Range(queue))
      BY <3>2, <3>3, BelowIsMonotonic
    <3>5. Increasing((Fronts(p) \o wire) \o queue)
      BY <3>1, <3>3, <3>4, ConcatFrames
    <3> QED BY <3>5 DEF Fronts
  <2> QED BY <2>1 DEF AudioFlows, QueueInv
<1> QED BY <1>1, <1>2, <1>3, TypeCorrect, PTL DEF Spec
=============================================================================
