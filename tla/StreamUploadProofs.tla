------------------------- MODULE StreamUploadProofs -------------------------
(***************************************************************************)
(* Proofs about StreamUpload for every number of connections, frames,      *)
(* slots, retries and faults: types and the memory bound; and, for         *)
(* connections that follow one another, that no frame is stored twice,     *)
(* that none is dropped in silence, and that acks above the resume point   *)
(* are durable.                                                            *)
(***************************************************************************)
EXTENDS StreamUpload, FiniteSetTheorems, SequenceTheorems, WellFoundedInduction, TLAPS

(* Sequence numbers have a bound, so that sets of them have a maximum.     *)

LEMMA MaxOfFrames ==
  ASSUME NEW S \in SUBSET (Frames \union {-1}), S # {}
  PROVE  /\ Max(S) \in S /\ Max(S) \in Int
         /\ \A m \in S : m <= Max(S)
<1>1. PICK n \in Nat : Frames \subseteq 0..n
  BY StreamUploadAssumption
<1>2. \A m \in S : m \in Int /\ m <= n
  BY <1>1
<1> DEFINE T == {n - m : m \in S}
<1>3. T \subseteq Nat /\ T # {}
  BY <1>2
<1>4. PICK x \in T : \A y \in T : ~(<<y, x>> \in OpToRel(<, Nat))
  BY <1>3, NatLessThanWellFounded, WFMin
<1>5. ASSUME NEW y \in T PROVE x <= y
  <2>1. x \in Nat /\ y \in Nat
    BY <1>3
  <2>2. ASSUME y < x PROVE FALSE
    <3>1. <<y, x>> \in Nat \X Nat /\ <<y, x>>[1] < <<y, x>>[2]
      BY <2>1, <2>2
    <3>2. <<y, x>> \in OpToRel(<, Nat)
      BY <3>1, Zenon DEF OpToRel
    <3> QED BY <1>4, <3>2
  <2> QED BY <2>1, <2>2
<1>6. PICK k \in S : x = n - k
  BY <1>4
<1>7. ASSUME NEW m \in S PROVE k >= m
  <2>1. x <= n - m
    BY <1>5
  <2> QED BY <1>2, <1>6, <2>1
<1> QED BY <1>2, <1>6, <1>7 DEF Max

\* _advance: everything the watermark has passed was known.
LEMMA ContiguousIsKnown ==
  ASSUME NEW b \in Frames \union {-1}, NEW S \in SUBSET Frames
  PROVE  /\ Contiguous(b, S) \in Frames \union {-1}
         /\ 0..Contiguous(b, S) \subseteq 0..b \union S
<1> DEFINE R == {n \in S : (b + 1)..n \subseteq S}
<1>1. /\ Contiguous(b, S) \in {b} \union R
      /\ Contiguous(b, S) \in Int
  BY MaxOfFrames DEF Contiguous
<1>2. b \in Int
  BY StreamUploadAssumption
<1>3. CASE Contiguous(b, S) = b
  BY <1>3
<1>4. CASE Contiguous(b, S) \in R
  <2>1. ASSUME NEW m \in 0..Contiguous(b, S), m \notin 0..b PROVE m \in S
    <3>1. m \in (b + 1)..Contiguous(b, S)
      BY <1>1, <1>2, <2>1
    <3> QED BY <1>4, <3>1
  <2> QED BY <1>4, <2>1
<1> QED BY <1>1, <1>3, <1>4

(* The pool.                                                               *)

WaiterType == [flight : FlightType, inline : BOOLEAN]

LEMMA AppendToSet ==
  ASSUME NEW s \in Seq(WaiterType), NEW e \in WaiterType
  PROVE  Append(s, e) \in Seq(WaiterType) /\ ToSet(Append(s, e)) = ToSet(s) \union {e}
BY AppendProperties DEF ToSet

LEMMA TailToSet ==
  ASSUME NEW s \in Seq(WaiterType), s # <<>>
  PROVE  /\ Head(s) \in WaiterType /\ Tail(s) \in Seq(WaiterType)
         /\ ToSet(s) = {Head(s)} \union ToSet(Tail(s))
<1>1. /\ Head(s) = s[1] /\ Head(s) \in WaiterType /\ Tail(s) \in Seq(WaiterType)
      /\ Len(Tail(s)) = Len(s) - 1
      /\ \A i \in 1..Len(Tail(s)) : Tail(s)[i] = s[i + 1]
  BY HeadTailProperties
<1>2. Len(s) \in Nat /\ Len(s) > 0 /\ DOMAIN s = 1..Len(s)
  BY EmptySeq
<1>3. DOMAIN Tail(s) = 1..(Len(s) - 1)
  BY <1>1
<1>4. ASSUME NEW i \in 1..Len(s) PROVE s[i] \in {Head(s)} \union ToSet(Tail(s))
  <2>1. CASE i = 1
    BY <1>1, <2>1
  <2>2. CASE i # 1
    <3>1. i - 1 \in 1..(Len(s) - 1) /\ Tail(s)[i - 1] = s[i]
      BY <1>1, <1>2, <2>2
    <3> QED BY <1>3, <3>1 DEF ToSet
  <2> QED BY <2>1, <2>2
<1>5. ASSUME NEW i \in 1..(Len(s) - 1) PROVE Tail(s)[i] \in ToSet(s)
  <2>1. i + 1 \in 1..Len(s) /\ Tail(s)[i] = s[i + 1]
    BY <1>1, <1>2
  <2> QED BY <1>2, <2>1 DEF ToSet
<1>6. Head(s) \in ToSet(s)
  BY <1>1, <1>2 DEF ToSet
<1> QED BY <1>1, <1>2, <1>3, <1>4, <1>5, <1>6 DEF ToSet

PoolType ==
    /\ flights \in [Connections -> SUBSET FlightType]
    /\ waiting \in [Connections -> Seq(WaiterType)]

LEMMA PoolTyped == TypeOK => PoolType
BY DEF TypeOK, PoolType, WaiterType

LEMMA InFlightType ==
  ASSUME TypeOK, NEW c \in Connections
  PROVE  InFlight(c) \in SUBSET FlightType
<1>1. /\ flights[c] \in SUBSET FlightType
      /\ waiting[c] \in Seq(WaiterType)
  BY PoolTyped DEF PoolType
<1>2. ASSUME NEW w \in ToSet(waiting[c]) PROVE w.flight \in FlightType
  <2>1. PICK i \in DOMAIN waiting[c] : w = waiting[c][i]
    BY DEF ToSet
  <2>2. w \in WaiterType
    BY <1>1, <2>1
  <2> QED BY <2>2 DEF WaiterType
<1> QED BY <1>1, <1>2 DEF InFlight

\* A submit adds its flight, to the pool or to its queue.
LEMMA SubmitEffect ==
  ASSUME TypeOK, NEW c \in Connections, NEW f \in FlightType, NEW inline \in BOOLEAN,
         Submit(c, f, inline)
  PROVE  /\ PoolType'
         /\ InFlight(c)' = InFlight(c) \union {f}
         /\ \A d \in Connections \ {c} : InFlight(d)' = InFlight(d)
<1>1. /\ flights \in [Connections -> SUBSET FlightType]
      /\ waiting \in [Connections -> Seq(WaiterType)]
  BY PoolTyped DEF PoolType
<1> DEFINE e == [flight |-> f, inline |-> inline]
<1>2. e \in WaiterType /\ e.flight = f
  BY DEF WaiterType
<1>3. CASE flights' = [flights EXCEPT ![c] = @ \union {f}] /\ waiting' = waiting
  BY <1>1, <1>3 DEF InFlight, PoolType
<1>4. CASE waiting' = [waiting EXCEPT ![c] = Append(@, e)] /\ flights' = flights
  <2>1. /\ Append(waiting[c], e) \in Seq(WaiterType)
        /\ ToSet(Append(waiting[c], e)) = ToSet(waiting[c]) \union {e}
    BY <1>1, <1>2, AppendToSet
  <2> HIDE DEF e
  <2>2. /\ waiting' \in [Connections -> Seq(WaiterType)]
        /\ ToSet(waiting'[c]) = ToSet(waiting[c]) \union {e}
        /\ \A d \in Connections \ {c} : waiting'[d] = waiting[d]
    BY <1>1, <1>4, <2>1
  <2>3. InFlight(c)' = flights[c] \union {w.flight : w \in ToSet(waiting[c]) \union {e}}
    BY <1>4, <2>2 DEF InFlight
  <2>4. {w.flight : w \in ToSet(waiting[c]) \union {e}}
          = {w.flight : w \in ToSet(waiting[c])} \union {f}
    BY <1>2
  <2> QED BY <1>1, <1>4, <2>2, <2>3, <2>4 DEF InFlight, PoolType
<1> QED BY <1>3, <1>4 DEF Submit

\* A store that ends takes its flight out, unless the same waits once more.
LEMMA LandEffect ==
  ASSUME TypeOK, NEW c \in Connections, NEW f \in flights[c], Land(c, f)
  PROVE  /\ PoolType'
         /\ InFlight(c)' \subseteq InFlight(c)
         /\ InFlight(c) \ {f} \subseteq InFlight(c)'
         /\ \A d \in Connections \ {c} : InFlight(d)' = InFlight(d)
<1>1. /\ flights \in [Connections -> SUBSET FlightType]
      /\ waiting \in [Connections -> Seq(WaiterType)]
  BY PoolTyped DEF PoolType
<1>2. CASE waiting[c] = <<>>
  BY <1>1, <1>2 DEF Land, InFlight, PoolType
<1>3. CASE waiting[c] # <<>>
  <2> DEFINE h == Head(waiting[c])
             t == Tail(waiting[c])
  <2>1. /\ h \in WaiterType /\ t \in Seq(WaiterType)
        /\ ToSet(waiting[c]) = {h} \union ToSet(t)
    BY <1>1, <1>3, TailToSet
  <2>2. /\ flights' = [flights EXCEPT ![c] = (@ \ {f}) \union {h.flight}]
        /\ waiting' = [waiting EXCEPT ![c] = t]
    BY <1>3 DEF Land
  <2> HIDE DEF h, t
  <2>3. /\ flights'[c] = (flights[c] \ {f}) \union {h.flight} /\ waiting'[c] = t
        /\ \A d \in Connections \ {c} : flights'[d] = flights[d] /\ waiting'[d] = waiting[d]
    BY <1>1, <2>2
  <2>4. h.flight \in FlightType
    BY <2>1 DEF WaiterType
  <2>5. PoolType'
    BY <1>1, <2>1, <2>2, <2>4 DEF PoolType
  <2>6. /\ InFlight(c)' = (flights[c] \ {f}) \union {h.flight} \union {w.flight : w \in ToSet(t)}
        /\ InFlight(c) = flights[c] \union {h.flight} \union {w.flight : w \in ToSet(t)}
    BY <2>1, <2>3 DEF InFlight
  <2> QED BY <2>3, <2>5, <2>6 DEF InFlight
<1> QED BY <1>2, <1>3

LEMMA RetryEffect ==
  ASSUME TypeOK, NEW c \in Connections, NEW f \in flights[c], NEW g \in FlightType,
         flights' = [flights EXCEPT ![c] = (@ \ {f}) \union {g}], waiting' = waiting
  PROVE  /\ PoolType'
         /\ InFlight(c)' \subseteq InFlight(c) \union {g}
         /\ (InFlight(c) \ {f}) \union {g} \subseteq InFlight(c)'
         /\ \A d \in Connections \ {c} : InFlight(d)' = InFlight(d)
<1>1. /\ flights \in [Connections -> SUBSET FlightType]
      /\ waiting \in [Connections -> Seq(WaiterType)]
  BY PoolTyped DEF PoolType
<1> QED BY <1>1 DEF InFlight, PoolType

\* What the tracker tells the client grows by no more than what it is told.
LEMMA NoteEffect ==
  ASSUME TypeOK, NEW c \in Connections, NEW S \in SUBSET Frames, Note(c, S)
  PROVE  /\ through' \in [Connections -> Frames \union {-1}]
         /\ above' \in [Connections -> SUBSET Frames] /\ base' = base
         /\ (0..through'[c]) \union above'[c] \subseteq (0..through[c]) \union above[c] \union S
         /\ \A d \in Connections \ {c} : through'[d] = through[d] /\ above'[d] = above[d]
<1> DEFINE known == above[c] \union S
           mark == Contiguous(through[c], known)
<1>1. /\ through[c] \in Frames \union {-1} /\ known \in SUBSET Frames
      /\ through \in [Connections -> Frames \union {-1}]
      /\ above \in [Connections -> SUBSET Frames]
  BY DEF TypeOK
<1>2. mark \in Frames \union {-1} /\ 0..mark \subseteq 0..through[c] \union known
  BY <1>1, ContiguousIsKnown
<1>3. /\ through' = [through EXCEPT ![c] = mark]
      /\ above' = [above EXCEPT ![c] = known \ ((through[c] + 1)..mark)]
      /\ base' = base
  BY DEF Note
<1> HIDE DEF mark
<1>4. /\ through'[c] = mark /\ above'[c] \subseteq known
      /\ \A d \in Connections \ {c} : through'[d] = through[d] /\ above'[d] = above[d]
      /\ through' \in [Connections -> Frames \union {-1}]
      /\ above' \in [Connections -> SUBSET Frames]
  BY <1>1, <1>2, <1>3
<1> QED BY <1>2, <1>3, <1>4

----------------------------------------------------------------------------
(* Types.                                                                  *)

RowType == [sequence : Frames, frames : SUBSET Frames, intact : BOOLEAN]

LEMMA InitType == Init => TypeOK
<1> SUFFICES ASSUME Init PROVE TypeOK
  OBVIOUS
<1>1. waiting \in [Connections -> Seq([flight : FlightType, inline : BOOLEAN])]
  BY EmptySeq DEF Init
<1>2. budget \in [send : Nat, bad : Nat, fault : Nat, lost : Nat, crash : Nat]
  BY StreamUploadAssumption DEF Init
<1> QED BY <1>1, <1>2 DEF Init, TypeOK, Attached, Causes

LEMMA ResumeType ==
  ASSUME TypeOK
  PROVE  Resume \in Frames \union {-1} /\ Resume \in Int
         /\ \A x \in rows : x.sequence <= Resume
<1>1. {-1} \union {x.sequence : x \in rows} \in SUBSET (Frames \union {-1})
  BY DEF TypeOK
<1> QED BY <1>1, MaxOfFrames DEF Resume

\* A flight's sequence is the last of its frames.
LEMMA SequenceType ==
  ASSUME NEW f \in FlightType
  PROVE  /\ Sequence(f) \in f.frames /\ Sequence(f) \in Frames
         /\ f.frames \in SUBSET Frames /\ f.frames # {}
         /\ \A n \in f.frames : n <= Sequence(f)
<1>1. f.frames \in SUBSET (Frames \union {-1}) /\ f.frames # {}
      /\ f.frames \in SUBSET Frames
  BY DEF FlightType
<1> QED BY <1>1, MaxOfFrames DEF Sequence

LEMMA NewFlightType ==
  ASSUME NEW S \in SUBSET Frames, S # {}, NEW pooled \in BOOLEAN, NEW again \in BOOLEAN
  PROVE  Flight(S, pooled, again) \in FlightType
<1>1. (IF pooled THEN FlushRetries ELSE 0) \in 0..FlushRetries
  BY StreamUploadAssumption
<1>2. S \in (SUBSET Frames) \ {{}}
  OBVIOUS
<1> QED BY <1>1, <1>2 DEF Flight, FlightType

LEMMA RefuseType ==
  ASSUME TypeOK, NEW c \in Connections, NEW S \in SUBSET Frames, NEW code \in Codes,
         Refuse(c, S, code)
  PROVE  /\ refused' \in [Connections -> SUBSET (Frames \X Codes)]
         /\ refused'[c] = refused[c] \union (S \X {code})
         /\ \A d \in Connections \ {c} : refused'[d] = refused[d]
BY DEF TypeOK, Refuse

\* A flush sends the buffer on its way.
LEMMA FlushEffect ==
  ASSUME TypeOK, NEW c \in Connections, NEW inline \in BOOLEAN, Flush(c, inline)
  PROVE  /\ PoolType'
         /\ buffer' \in [Connections -> SUBSET Frames] /\ buffer'[c] = {}
         /\ \A d \in Connections \ {c} : buffer'[d] = buffer[d]
         /\ \/ buffer[c] = {} /\ InFlight(c)' = InFlight(c)
            \/ buffer[c] # {} /\ InFlight(c)' = InFlight(c) \union {Flight(buffer[c], TRUE, FALSE)}
         /\ \A d \in Connections \ {c} : InFlight(d)' = InFlight(d)
<1>1. buffer[c] \in SUBSET Frames /\ buffer \in [Connections -> SUBSET Frames] /\ PoolType
  BY PoolTyped DEF TypeOK
<1>2. CASE buffer[c] = {}
  BY <1>1, <1>2 DEF Flush, InFlight, PoolType
<1>3. CASE buffer[c] # {}
  <2> DEFINE f == Flight(buffer[c], TRUE, FALSE)
  <2>1. Submit(c, f, inline) /\ buffer' = [buffer EXCEPT ![c] = {}]
    BY <1>3 DEF Flush
  <2>2. f \in FlightType
    BY <1>1, <1>3, NewFlightType
  <2> HIDE DEF f
  <2>3. /\ PoolType' /\ InFlight(c)' = InFlight(c) \union {f}
        /\ \A d \in Connections \ {c} : InFlight(d)' = InFlight(d)
    BY <2>1, <2>2, SubmitEffect
  <2>4. /\ buffer' \in [Connections -> SUBSET Frames] /\ buffer'[c] = {}
        /\ \A d \in Connections \ {c} : buffer'[d] = buffer[d]
    BY <1>1, <2>1
  <2> QED BY <1>3, <2>3, <2>4 DEF f
<1> QED BY <1>2, <1>3

Retried(f) == [f EXCEPT !.left = @ - 1]

\* An attempt that raises is made again, reported, or fatal.
LEMMA AttemptedEffect ==
  ASSUME TypeOK, NEW c \in Connections, NEW f \in flights[c], Attempted(c, f)
  PROVE  /\ PoolType'
         /\ refused' \in [Connections -> SUBSET (Frames \X Codes)]
         /\ failed' \in [Connections -> BOOLEAN]
         /\ \A d \in Connections \ {c} : /\ InFlight(d)' = InFlight(d)
                                         /\ refused'[d] = refused[d] /\ failed'[d] = failed[d]
         /\ InFlight(c) \ {f} \subseteq InFlight(c)'
         /\ \/ /\ UNCHANGED <<failed, refused>> /\ Retried(f) \in FlightType
               /\ InFlight(c)' \subseteq InFlight(c) \union {Retried(f)}
               /\ Retried(f) \in InFlight(c)'
            \/ failed'[c] /\ UNCHANGED refused /\ InFlight(c)' \subseteq InFlight(c)
            \/ /\ refused'[c] = refused[c] \union (f.frames \X {"storage_failure"})
               /\ UNCHANGED failed /\ InFlight(c)' \subseteq InFlight(c)
<1>1. /\ f \in FlightType /\ flights \in [Connections -> SUBSET FlightType]
      /\ refused \in [Connections -> SUBSET (Frames \X Codes)]
      /\ failed \in [Connections -> BOOLEAN]
  BY DEF TypeOK
<1>2. CASE f.left > 0
  <2>1. Retried(f) \in FlightType
    BY <1>1, <1>2, StreamUploadAssumption DEF FlightType, Retried
  <2>2. /\ flights' = [flights EXCEPT ![c] = (@ \ {f}) \union {Retried(f)}]
        /\ UNCHANGED <<waiting, refused, failed>>
    BY <1>2 DEF Attempted, Retried
  <2>3. /\ PoolType'
        /\ InFlight(c)' \subseteq InFlight(c) \union {Retried(f)}
        /\ (InFlight(c) \ {f}) \union {Retried(f)} \subseteq InFlight(c)'
        /\ \A d \in Connections \ {c} : InFlight(d)' = InFlight(d)
    BY <2>1, <2>2, RetryEffect
  <2> QED BY <1>1, <2>1, <2>2, <2>3
<1>3. CASE ~(f.left > 0) /\ f.pooled
  <2>1. Land(c, f) /\ failed' = [failed EXCEPT ![c] = TRUE] /\ refused' = refused
    BY <1>3 DEF Attempted
  <2>2. /\ failed' \in [Connections -> BOOLEAN] /\ failed'[c]
        /\ \A d \in Connections \ {c} : failed'[d] = failed[d]
    BY <1>1, <2>1
  <2> QED BY <1>1, <2>1, <2>2, LandEffect
<1>4. CASE ~(f.left > 0) /\ ~f.pooled
  <2>1. Land(c, f) /\ Refuse(c, f.frames, "storage_failure") /\ failed' = failed
    BY <1>4 DEF Attempted
  <2>2. f.frames \in SUBSET Frames /\ "storage_failure" \in Codes
    BY <1>1 DEF FlightType, Codes
  <2>3. /\ refused' \in [Connections -> SUBSET (Frames \X Codes)]
        /\ refused'[c] = refused[c] \union (f.frames \X {"storage_failure"})
        /\ \A d \in Connections \ {c} : refused'[d] = refused[d]
    BY <2>1, <2>2, RefuseType
  <2> QED BY <1>1, <2>1, <2>3, LandEffect
<1> QED BY <1>2, <1>3, <1>4


BudgetType == [send : Nat, bad : Nat, fault : Nat, lost : Nat, crash : Nat]

\* A message received is off the budget, and the loop is back at its top.
LEMMA ReceiveType ==
  ASSUME TypeOK, NEW c \in Connections, Receive(c)
  PROVE  /\ pump' \in [Connections -> Attached \union {"away", "closed"}]
         /\ budget' = [budget EXCEPT !.send = @ - 1] => budget' \in BudgetType
         /\ budget.bad > 0 /\ budget' = [budget EXCEPT !.send = @ - 1, !.bad = @ - 1]
              => budget' \in BudgetType
<1>1. /\ pump \in [Connections -> Attached \union {"away", "closed"}]
      /\ budget \in BudgetType
  BY DEF TypeOK, BudgetType
<1>2. pump' = [pump EXCEPT ![c] = "top"] /\ budget.send > 0
  BY DEF Receive
<1>3. pump' \in [Connections -> Attached \union {"away", "closed"}]
  BY <1>1, <1>2 DEF Attached
<1>4. budget.send \in Nat /\ budget.bad \in Nat /\ budget.send - 1 \in Nat
  BY <1>1, <1>2 DEF BudgetType
<1>5. [budget EXCEPT !.send = @ - 1] \in BudgetType
  BY <1>1, <1>4 DEF BudgetType
<1>6. ASSUME budget.bad > 0
      PROVE  [budget EXCEPT !.send = @ - 1, !.bad = @ - 1] \in BudgetType
  <2>1. budget.bad - 1 \in Nat
    BY <1>4, <1>6
  <2> QED BY <1>1, <1>4, <2>1 DEF BudgetType
<1> QED BY <1>3, <1>5, <1>6

LEMMA StepType == TypeOK /\ [Next]_vars => TypeOK'
<1> SUFFICES ASSUME TypeOK, [Next]_vars PROVE TypeOK'
  OBVIOUS
<1>t. /\ session \in {"open", "ended"}
      /\ rows \subseteq [sequence : Frames, frames : SUBSET Frames, intact : BOOLEAN]
      /\ pump \in [Connections -> Attached \union {"away", "closed"}]
      /\ cause \in [Connections -> Causes]
      /\ base \in [Connections -> Frames \union {-1}]
      /\ through \in [Connections -> Frames \union {-1}]
      /\ above \in [Connections -> SUBSET Frames]
      /\ dups \in [Connections -> SUBSET Frames]
      /\ refused \in [Connections -> SUBSET (Frames \X Codes)]
      /\ highest \in [Connections -> Frames \union {-1}]
      /\ buffer \in [Connections -> SUBSET Frames]
      /\ fatal \in [Connections -> BOOLEAN]
      /\ failed \in [Connections -> BOOLEAN]
      /\ taken \in [Connections -> SUBSET Frames]
      /\ budget \in [send : Nat, bad : Nat, fault : Nat, lost : Nat, crash : Nat]
      /\ PoolType
  BY PoolTyped DEF TypeOK
<1>p. PoolType' <=>
        /\ flights' \in [Connections -> SUBSET FlightType]
        /\ waiting' \in [Connections -> Seq([flight : FlightType, inline : BOOLEAN])]
  BY DEF PoolType, WaiterType
<1>1. ASSUME NEW c \in Connections, Attach(c) PROVE TypeOK'
  <2>1. Resume \in Frames \union {-1}
    BY ResumeType
  <2> QED BY <1>1, <1>t, <1>p, <2>1 DEF Attach, TypeOK, Attached, pool, PoolType
<1>2. ASSUME NEW c \in Connections, Top(c) PROVE TypeOK'
  BY <1>2, <1>t, <1>p DEF Top, TypeOK, Attached, Causes, tracker, pooler, pool, PoolType
<1>3. ASSUME NEW c \in Connections, NEW n \in Frames, ReceiveChunk(c, n) PROVE TypeOK'
  <2>1. PICK again \in BOOLEAN : Submit(c, Flight({n}, FALSE, again), TRUE)
    BY <1>3 DEF ReceiveChunk
  <2>2. Flight({n}, FALSE, again) \in FlightType
    BY NewFlightType
  <2>3. PoolType'
    BY <2>1, <2>2, SubmitEffect
  <2>4. /\ pump' \in [Connections -> Attached \union {"away", "closed"}]
        /\ budget' \in BudgetType
    BY <1>3, ReceiveType DEF ReceiveChunk, ReceiveSound
  <2>5. taken' \in [Connections -> SUBSET Frames]
    BY <1>3, <1>t DEF ReceiveChunk
  <2> QED BY <1>3, <1>t, <1>p, <2>3, <2>4, <2>5
       DEF ReceiveChunk, ReceiveSound, Receive, TypeOK, tracker, BudgetType
<1>4. ASSUME NEW c \in Connections, NEW n \in Frames, ReceiveBad(c, n) PROVE TypeOK'
  <2>1. refused' \in [Connections -> SUBSET (Frames \X Codes)]
    BY <1>4, RefuseType DEF ReceiveBad, Codes
  <2>2. /\ pump' \in [Connections -> Attached \union {"away", "closed"}]
        /\ budget' \in BudgetType
    BY <1>4, ReceiveType DEF ReceiveBad
  <2> QED BY <1>4, <1>t, <1>p, <2>1, <2>2
       DEF ReceiveBad, Receive, TypeOK, tracker, PoolType, BudgetType
<1>5. ASSUME NEW c \in Connections, NEW n \in Frames, ReceiveStale(c, n) PROVE TypeOK'
  <2>0. /\ pump' \in [Connections -> Attached \union {"away", "closed"}]
        /\ budget' \in BudgetType
    BY <1>5, ReceiveType DEF ReceiveStale, ReceiveSound
  <2>1. CASE NoteDuplicate(c, {n}) /\ refused' = refused
    <3>1. /\ through' \in [Connections -> Frames \union {-1}]
          /\ above' \in [Connections -> SUBSET Frames] /\ base' = base
      BY <2>1, NoteEffect DEF NoteDuplicate
    <3>2. dups' \in [Connections -> SUBSET Frames]
      BY <1>t, <2>1 DEF NoteDuplicate
    <3> QED BY <1>5, <1>t, <1>p, <2>0, <2>1, <3>1, <3>2
         DEF ReceiveStale, ReceiveSound, Receive, TypeOK, PoolType, BudgetType
  <2>2. CASE Refuse(c, {n}, "bad_sequence") /\ UNCHANGED tracker
    <3>1. refused' \in [Connections -> SUBSET (Frames \X Codes)]
      BY <2>2, RefuseType DEF Codes
    <3> QED BY <1>5, <1>t, <1>p, <2>0, <2>2, <3>1
         DEF ReceiveStale, ReceiveSound, Receive, TypeOK, PoolType, tracker, BudgetType
  <2> QED BY <1>5, <2>1, <2>2 DEF ReceiveStale
<1>6. ASSUME NEW c \in Connections, NEW n \in Frames, ReceiveFrame(c, n) PROVE TypeOK'
  <2>1. buffer[c] \union {n} \in SUBSET Frames /\ buffer[c] \union {n} # {}
    BY <1>t
  <2>2. PoolType' /\ buffer' \in [Connections -> SUBSET Frames]
    <3>1. CASE /\ Submit(c, Flight(buffer[c] \union {n}, TRUE, FALSE), TRUE)
               /\ buffer' = [buffer EXCEPT ![c] = {}]
      BY <1>t, <2>1, <3>1, NewFlightType, SubmitEffect
    <3>2. CASE /\ buffer' = [buffer EXCEPT ![c] = buffer[c] \union {n}]
               /\ UNCHANGED <<flights, waiting>>
      BY <1>t, <2>1, <3>2 DEF PoolType
    <3> QED BY <1>6, <3>1, <3>2 DEF ReceiveFrame
  <2>3. /\ pump' \in [Connections -> Attached \union {"away", "closed"}]
        /\ budget' \in BudgetType
    BY <1>6, ReceiveType DEF ReceiveFrame, ReceiveSound
  <2>4. /\ highest' \in [Connections -> Frames \union {-1}]
        /\ taken' \in [Connections -> SUBSET Frames]
    BY <1>6, <1>t DEF ReceiveFrame
  <2> QED BY <1>6, <1>t, <1>p, <2>2, <2>3, <2>4
       DEF ReceiveFrame, ReceiveSound, Receive, TypeOK, tracker, BudgetType
<1>7. ASSUME NEW c \in Connections, TimerFires(c) PROVE TypeOK'
  <2>1. PoolType' /\ buffer' \in [Connections -> SUBSET Frames]
    BY <1>7, FlushEffect DEF TimerFires
  <2> QED BY <1>7, <1>t, <1>p, <2>1 DEF TimerFires, TypeOK, tracker
<1>8. ASSUME NEW c \in Connections, Leave(c) PROVE TypeOK'
  <2>1. PoolType' /\ buffer' \in [Connections -> SUBSET Frames]
    BY <1>8, <1>t, FlushEffect DEF Leave, PoolType
  <2>2. /\ pump' \in [Connections -> Attached \union {"away", "closed"}]
        /\ cause' \in [Connections -> Causes]
    BY <1>8, <1>t DEF Leave, Attached, Causes
  <2> QED BY <1>8, <1>t, <1>p, <2>1, <2>2 DEF Leave, TypeOK, tracker
<1>9. ASSUME NEW c \in Connections, QuietSlice(c) PROVE TypeOK'
  <2>1. PoolType' /\ buffer' \in [Connections -> SUBSET Frames]
    BY <1>9, <1>t, FlushEffect DEF QuietSlice, PoolType
  <2> QED BY <1>9, <1>t, <1>p, <2>1 DEF QuietSlice, TypeOK, Attached, Causes, tracker
<1>10. ASSUME NEW c \in Connections, Close(c) PROVE TypeOK'
  <2>1. Verdict(c) \in Causes
    BY <1>t DEF Verdict, Causes
  <2>2. /\ session' \in {"open", "ended"} /\ cause' \in [Connections -> Causes]
        /\ budget' \in [send : Nat, bad : Nat, fault : Nat, lost : Nat, crash : Nat]
    <3>1. CASE /\ cause' = [cause EXCEPT ![c] = Verdict(c)]
               /\ session' = IF Verdict(c) = "finish" THEN "ended" ELSE session
               /\ budget' = budget
      BY <1>t, <2>1, <3>1
    <3>2. CASE /\ budget.fault > 0 /\ cause' = [cause EXCEPT ![c] = "internal"]
               /\ session' = session /\ budget' = [budget EXCEPT !.fault = @ - 1]
      BY <1>t, <3>2 DEF Causes
    <3> QED BY <1>10, <3>1, <3>2 DEF Close
  <2>3. PoolType'
    BY <1>10, <1>t DEF Close, pool, PoolType
  <2> QED BY <1>10, <1>t, <1>p, <2>2, <2>3 DEF Close, TypeOK, tracker, pool
<1>11. ASSUME NEW c \in Connections, NEW f \in flights[c], StoreLands(c, f) PROVE TypeOK'
  <2>0. f \in FlightType
    BY <1>t DEF PoolType
  <2>1. Sequence(f) \in Frames /\ f.frames \in SUBSET Frames
    BY <2>0, SequenceType
  <2>2. PoolType'
    BY <1>11, LandEffect DEF StoreLands
  <2>3. /\ through' \in [Connections -> Frames \union {-1}]
        /\ above' \in [Connections -> SUBSET Frames] /\ base' = base /\ dups' = dups
    BY <1>11, <2>1, NoteEffect DEF StoreLands, NoteStored
  <2>4. rows' \subseteq [sequence : Frames, frames : SUBSET Frames, intact : BOOLEAN]
    <3>1. [sequence |-> Sequence(f), frames |-> f.frames, intact |-> TRUE] \in RowType
      BY <2>1 DEF RowType
    <3> QED BY <1>11, <1>t, <3>1 DEF StoreLands, RowType
  <2> QED BY <1>11, <1>t, <1>p, <2>2, <2>3, <2>4 DEF StoreLands, TypeOK, pooler
<1>12. ASSUME NEW c \in Connections, NEW f \in flights[c], StoreIsDuplicate(c, f) PROVE TypeOK'
  <2>0. f \in FlightType
    BY <1>t DEF PoolType
  <2>1. f.frames \in SUBSET Frames
    BY <2>0, SequenceType
  <2>2. PoolType'
    BY <1>12, LandEffect DEF StoreIsDuplicate
  <2>3. /\ through' \in [Connections -> Frames \union {-1}]
        /\ above' \in [Connections -> SUBSET Frames] /\ base' = base
    BY <1>12, <2>1, NoteEffect DEF StoreIsDuplicate, NoteDuplicate
  <2>4. dups' \in [Connections -> SUBSET Frames]
    BY <1>12, <1>t, <2>1 DEF StoreIsDuplicate, NoteDuplicate
  <2> QED BY <1>12, <1>t, <1>p, <2>2, <2>3, <2>4 DEF StoreIsDuplicate, TypeOK, pooler
<1>13. ASSUME NEW c \in Connections, NEW f \in flights[c], StoreIsLate(c, f) PROVE TypeOK'
  <2>1. PoolType'
    BY <1>13, LandEffect DEF StoreIsLate
  <2> QED BY <1>13, <1>t, <1>p, <2>1 DEF StoreIsLate, TypeOK, tracker, pooler
<1>14. ASSUME NEW c \in Connections, NEW f \in flights[c], StoreFails(c, f) PROVE TypeOK'
  <2>0. f \in FlightType
    BY <1>t DEF PoolType
  <2>1. Sequence(f) \in Frames /\ f.frames \in SUBSET Frames
    BY <2>0, SequenceType
  <2>2. /\ PoolType' /\ refused' \in [Connections -> SUBSET (Frames \X Codes)]
        /\ failed' \in [Connections -> BOOLEAN]
    BY <1>14, AttemptedEffect DEF StoreFails
  <2>3. /\ rows' \subseteq [sequence : Frames, frames : SUBSET Frames, intact : BOOLEAN]
        /\ budget' \in [send : Nat, bad : Nat, fault : Nat, lost : Nat, crash : Nat]
    <3>1. [sequence |-> Sequence(f), frames |-> f.frames, intact |-> FALSE] \in RowType
      BY <2>1 DEF RowType
    <3>2. CASE /\ budget.fault > 0 /\ budget' = [budget EXCEPT !.fault = @ - 1]
               /\ rows' = rows
      BY <1>t, <3>2
    <3>3. CASE /\ budget.lost > 0 /\ budget' = [budget EXCEPT !.lost = @ - 1]
               /\ rows' = rows \union {[sequence |-> Sequence(f), frames |-> f.frames,
                                        intact |-> FALSE]}
      <4>1. budget.lost - 1 \in Nat
        BY <1>t, <3>3
      <4>2. budget' \in [send : Nat, bad : Nat, fault : Nat, lost : Nat, crash : Nat]
        BY <1>t, <3>3, <4>1
      <4>3. rows' \subseteq RowType
        BY <1>t, <3>1, <3>3 DEF RowType
      <4> QED BY <4>2, <4>3 DEF RowType
    <3> QED BY <1>14, <3>2, <3>3 DEF StoreFails
  <2> QED BY <1>14, <1>t, <1>p, <2>2, <2>3 DEF StoreFails, TypeOK, tracker
<1>15. ASSUME NEW c \in Connections, Crash(c) PROVE TypeOK'
  <2>1. PoolType'
    BY <1>15, <1>t, EmptySeq DEF Crash, PoolType
  <2>2. /\ pump' \in [Connections -> Attached \union {"away", "closed"}]
        /\ cause' \in [Connections -> Causes]
        /\ buffer' \in [Connections -> SUBSET Frames]
    BY <1>15, <1>t DEF Crash, Causes
  <2>3. budget' \in BudgetType
    BY <1>15, <1>t DEF Crash, BudgetType
  <2> QED BY <1>15, <1>t, <1>p, <2>1, <2>2, <2>3 DEF Crash, TypeOK, tracker, BudgetType
<1>16. CASE EndSession
  BY <1>16, <1>t, <1>p DEF EndSession, TypeOK, tracker, pooler, pool, PoolType
<1>17. CASE UNCHANGED vars
  BY <1>17, <1>t, <1>p DEF vars, TypeOK, PoolType
<1> QED BY <1>1, <1>2, <1>3, <1>4, <1>5, <1>6, <1>7, <1>8, <1>9, <1>10, <1>11, <1>12,
           <1>13, <1>14, <1>15, <1>16, <1>17 DEF Next, Message, Store, Over

\* The types hold for every number of connections, frames, slots and faults.
THEOREM TypeCorrect == Spec => []TypeOK
<1> QED BY InitType, StepType, PTL DEF Spec

----------------------------------------------------------------------------
(* The parts of a connection's pool: the pooled sets of frames under way,  *)
(* and the chunks that travel on their own.                                *)

PooledSets(c) == {f.frames : f \in {g \in InFlight(c) : g.pooled}}
SingleSets(c) == {f.frames : f \in {g \in InFlight(c) : ~g.pooled}}
Flying(c) == UNION {f.frames : f \in InFlight(c)}

LEMMA PoolParts ==
  ASSUME NEW c \in Connections
  PROVE  /\ Flying(c) = (UNION PooledSets(c)) \union (UNION SingleSets(c))
         /\ \A f \in flights[c] : f.frames \in IF f.pooled THEN PooledSets(c) ELSE SingleSets(c)
         /\ \A f \in flights[c] : f \in InFlight(c)
         /\ Drained(c) => PooledSets(c) = {} /\ SingleSets(c) = {} /\ Flying(c) = {}
<1>1. \A f \in flights[c] : f \in InFlight(c)
  BY DEF InFlight
<1>2. Drained(c) => PooledSets(c) = {} /\ SingleSets(c) = {} /\ Flying(c) = {}
  BY DEF Drained, PooledSets, SingleSets, Flying
<1>3. ASSUME NEW n \in Flying(c) PROVE n \in (UNION PooledSets(c)) \union (UNION SingleSets(c))
  <2>1. PICK f \in InFlight(c) : n \in f.frames
    BY DEF Flying
  <2>2. f.frames \in PooledSets(c) \/ f.frames \in SingleSets(c)
    BY DEF PooledSets, SingleSets
  <2>3. ASSUME f.frames \in PooledSets(c) PROVE n \in UNION PooledSets(c)
    BY <2>1, <2>3
  <2>4. ASSUME f.frames \in SingleSets(c) PROVE n \in UNION SingleSets(c)
    BY <2>1, <2>4
  <2> QED BY <2>2, <2>3, <2>4
<1>4. ASSUME NEW n \in (UNION PooledSets(c)) \union (UNION SingleSets(c)) PROVE n \in Flying(c)
  <2>1. CASE n \in UNION PooledSets(c)
    <3>1. PICK S \in PooledSets(c) : n \in S
      BY <2>1
    <3>2. PICK f \in InFlight(c) : S = f.frames
      BY DEF PooledSets
    <3> QED BY <3>1, <3>2 DEF Flying
  <2>2. CASE n \in UNION SingleSets(c)
    <3>1. PICK S \in SingleSets(c) : n \in S
      BY <2>2
    <3>2. PICK f \in InFlight(c) : S = f.frames
      BY DEF SingleSets
    <3> QED BY <3>1, <3>2 DEF Flying
  <2> QED BY <2>1, <2>2
<1>5. \A f \in flights[c] : f.frames \in IF f.pooled THEN PooledSets(c) ELSE SingleSets(c)
  BY <1>1 DEF PooledSets, SingleSets
<1> QED BY <1>1, <1>2, <1>3, <1>4, <1>5

SameParts(c) ==
  /\ PooledSets(c)' = PooledSets(c) /\ SingleSets(c)' = SingleSets(c) /\ Flying(c)' = Flying(c)

LEMMA SamePool ==
  ASSUME NEW c \in Connections, InFlight(c)' = InFlight(c)
  PROVE  SameParts(c)
BY DEF SameParts, PooledSets, SingleSets, Flying

LEMMA FlightFields ==
  ASSUME NEW S, NEW pooled \in BOOLEAN, NEW again
  PROVE  Flight(S, pooled, again).frames = S /\ Flight(S, pooled, again).pooled = pooled
BY DEF Flight

LEMMA AddedParts ==
  ASSUME NEW c \in Connections, NEW S, NEW pooled \in BOOLEAN, NEW again \in BOOLEAN,
         InFlight(c)' = InFlight(c) \union {Flight(S, pooled, again)}
  PROVE  /\ Flying(c)' = Flying(c) \union S
         /\ pooled => PooledSets(c)' = PooledSets(c) \union {S} /\ SingleSets(c)' = SingleSets(c)
         /\ ~pooled => PooledSets(c)' = PooledSets(c) /\ SingleSets(c)' = SingleSets(c) \union {S}
<1> DEFINE f == Flight(S, pooled, again)
<1>1. f.frames = S /\ f.pooled = pooled
  BY FlightFields
<1>2. InFlight(c)' = InFlight(c) \union {f}
  OBVIOUS
<1> HIDE DEF f
<1>3. Flying(c)' = Flying(c) \union S
  BY <1>1, <1>2 DEF Flying
<1>4. pooled => PooledSets(c)' = PooledSets(c) \union {S} /\ SingleSets(c)' = SingleSets(c)
  BY <1>1, <1>2 DEF PooledSets, SingleSets
<1>5. ~pooled => PooledSets(c)' = PooledSets(c) /\ SingleSets(c)' = SingleSets(c) \union {S}
  BY <1>1, <1>2 DEF PooledSets, SingleSets
<1> QED BY <1>3, <1>4, <1>5

LEMMA LandedParts ==
  ASSUME NEW c \in Connections, NEW f,
         InFlight(c)' \subseteq InFlight(c), InFlight(c) \ {f} \subseteq InFlight(c)'
  PROVE  /\ PooledSets(c)' \subseteq PooledSets(c) /\ SingleSets(c)' \subseteq SingleSets(c)
         /\ Flying(c) \subseteq Flying(c)' \union f.frames
<1>1. PooledSets(c)' \subseteq PooledSets(c)
  BY DEF PooledSets
<1>2. SingleSets(c)' \subseteq SingleSets(c)
  BY DEF SingleSets
<1>3. Flying(c) \subseteq Flying(c)' \union f.frames
  BY DEF Flying
<1> QED BY <1>1, <1>2, <1>3

\* A retry carries the frames of the attempt before it.
LEMMA RetriedParts ==
  ASSUME TypeOK, NEW c \in Connections, NEW f \in flights[c],
         InFlight(c)' \subseteq InFlight(c) \union {Retried(f)},
         (InFlight(c) \ {f}) \union {Retried(f)} \subseteq InFlight(c)'
  PROVE  /\ PooledSets(c)' \subseteq PooledSets(c) /\ SingleSets(c)' \subseteq SingleSets(c)
         /\ Flying(c) \subseteq Flying(c)'
<1>1. f \in FlightType /\ f \in InFlight(c)
  BY PoolTyped, PoolParts DEF PoolType
<1> DEFINE g == Retried(f)
<1>2. g.frames = f.frames /\ g.pooled = f.pooled
  BY <1>1 DEF Retried, FlightType
<1>3. InFlight(c)' \subseteq InFlight(c) \union {g} /\ (InFlight(c) \ {f}) \union {g} \subseteq InFlight(c)'
  OBVIOUS
<1> HIDE DEF g
<1>4. PooledSets(c)' \subseteq PooledSets(c)
  BY <1>1, <1>2, <1>3 DEF PooledSets
<1>5. SingleSets(c)' \subseteq SingleSets(c)
  BY <1>1, <1>2, <1>3 DEF SingleSets
<1>6. Flying(c) \subseteq Flying(c)'
  BY <1>1, <1>2, <1>3 DEF Flying
<1> QED BY <1>4, <1>5, <1>6

LEMMA AttemptedParts ==
  ASSUME TypeOK, NEW c \in Connections, NEW f \in flights[c], Attempted(c, f)
  PROVE  /\ PooledSets(c)' \subseteq PooledSets(c) /\ SingleSets(c)' \subseteq SingleSets(c)
         /\ refused[c] \subseteq refused'[c]
         /\ \/ failed'[c]
            \/ /\ failed' = failed
               /\ Flying(c) \subseteq Flying(c)' \union {e[1] : e \in refused'[c]}
<1>1. f \in FlightType
  BY PoolTyped DEF PoolType
<1>2. InFlight(c) \ {f} \subseteq InFlight(c)'
  BY AttemptedEffect
<1>3. CASE /\ UNCHANGED <<failed, refused>> /\ InFlight(c)' \subseteq InFlight(c) \union {Retried(f)}
           /\ Retried(f) \in InFlight(c)'
  BY <1>2, <1>3, RetriedParts
<1>4. CASE failed'[c] /\ UNCHANGED refused /\ InFlight(c)' \subseteq InFlight(c)
  BY <1>2, <1>4, LandedParts
<1>5. CASE /\ refused'[c] = refused[c] \union (f.frames \X {"storage_failure"})
           /\ UNCHANGED failed /\ InFlight(c)' \subseteq InFlight(c)
  <2>1. /\ PooledSets(c)' \subseteq PooledSets(c) /\ SingleSets(c)' \subseteq SingleSets(c)
        /\ Flying(c) \subseteq Flying(c)' \union f.frames
    BY <1>2, <1>5, LandedParts
  <2>2. ASSUME NEW n \in f.frames PROVE n \in {e[1] : e \in refused'[c]}
    <3>1. <<n, "storage_failure">> \in refused'[c]
      BY <1>5
    <3> QED BY <3>1
  <2> QED BY <1>5, <2>1, <2>2
<1> QED BY <1>3, <1>4, <1>5, AttemptedEffect

\* Frames S join the buffer, or leave with it as one pooled flight.
Fill(c, S) ==
  \/ SameParts(c) /\ buffer'[c] = buffer[c] \union S
  \/ /\ buffer'[c] = {}
     /\ PooledSets(c)' = PooledSets(c) \union {buffer[c] \union S}
     /\ SingleSets(c)' = SingleSets(c)
     /\ Flying(c)' = Flying(c) \union buffer[c] \union S

LEMMA FlushFills ==
  ASSUME TypeOK, NEW c \in Connections, NEW inline \in BOOLEAN, Flush(c, inline)
  PROVE  Fill(c, {}) /\ buffer'[c] = {}
<1>1. /\ buffer'[c] = {}
      /\ \/ buffer[c] = {} /\ InFlight(c)' = InFlight(c)
         \/ InFlight(c)' = InFlight(c) \union {Flight(buffer[c], TRUE, FALSE)}
  BY FlushEffect
<1>2. CASE buffer[c] = {} /\ InFlight(c)' = InFlight(c)
  BY <1>1, <1>2, SamePool DEF Fill
<1>3. CASE InFlight(c)' = InFlight(c) \union {Flight(buffer[c], TRUE, FALSE)}
  <2>1. /\ Flying(c)' = Flying(c) \union buffer[c]
        /\ PooledSets(c)' = PooledSets(c) \union {buffer[c]} /\ SingleSets(c)' = SingleSets(c)
    BY <1>3, AddedParts
  <2> QED BY <1>1, <2>1 DEF Fill
<1> QED BY <1>1, <1>2, <1>3

LEMMA FrameFills ==
  ASSUME TypeOK, NEW c \in Connections, NEW n \in Frames, ReceiveFrame(c, n)
  PROVE  Fill(c, {n}) /\ highest'[c] = n /\ taken'[c] = taken[c] \union {n}
<1>1. /\ buffer \in [Connections -> SUBSET Frames] /\ highest \in [Connections -> Frames \union {-1}]
      /\ taken \in [Connections -> SUBSET Frames]
  BY DEF TypeOK
<1>2. highest'[c] = n /\ taken'[c] = taken[c] \union {n}
  BY <1>1 DEF ReceiveFrame
<1> DEFINE held == buffer[c] \union {n}
<1>3. CASE Submit(c, Flight(held, TRUE, FALSE), TRUE) /\ buffer' = [buffer EXCEPT ![c] = {}]
  <2>1. Flight(held, TRUE, FALSE) \in FlightType
    BY <1>1, NewFlightType
  <2>2. InFlight(c)' = InFlight(c) \union {Flight(held, TRUE, FALSE)}
    BY <1>3, <2>1, SubmitEffect
  <2>3. /\ Flying(c)' = Flying(c) \union held
        /\ PooledSets(c)' = PooledSets(c) \union {held} /\ SingleSets(c)' = SingleSets(c)
    BY <2>2, AddedParts
  <2>4. buffer'[c] = {}
    BY <1>1, <1>3
  <2> QED BY <1>2, <2>3, <2>4 DEF Fill
<1>4. CASE buffer' = [buffer EXCEPT ![c] = held] /\ UNCHANGED <<flights, waiting>>
  <2>1. InFlight(c)' = InFlight(c)
    BY <1>4 DEF InFlight
  <2>2. buffer'[c] = buffer[c] \union {n}
    BY <1>1, <1>4
  <2> QED BY <1>2, <2>1, <2>2, SamePool DEF Fill
<1> QED BY <1>3, <1>4 DEF ReceiveFrame

LEMMA ChunkFlies ==
  ASSUME TypeOK, NEW c \in Connections, NEW n \in Frames, ReceiveChunk(c, n)
  PROVE  /\ PooledSets(c)' = PooledSets(c) /\ SingleSets(c)' = SingleSets(c) \union {{n}}
         /\ Flying(c)' = Flying(c) \union {n}
         /\ taken'[c] = taken[c] \union {n}
<1>1. PICK again \in BOOLEAN : Submit(c, Flight({n}, FALSE, again), TRUE)
  BY DEF ReceiveChunk
<1>2. Flight({n}, FALSE, again) \in FlightType
  BY NewFlightType
<1>3. InFlight(c)' = InFlight(c) \union {Flight({n}, FALSE, again)}
  BY <1>1, <1>2, SubmitEffect
<1>4. taken \in [Connections -> SUBSET Frames]
  BY DEF TypeOK
<1>5. taken'[c] = taken[c] \union {n}
  BY <1>4 DEF ReceiveChunk
<1>6. /\ Flying(c)' = Flying(c) \union {n}
      /\ ~FALSE => PooledSets(c)' = PooledSets(c) /\ SingleSets(c)' = SingleSets(c) \union {{n}}
  BY <1>3, AddedParts
<1> QED BY <1>5, <1>6

----------------------------------------------------------------------------
(* A step of one connection leaves the others alone, but for the rows.     *)

StepOf(c) ==
    Attach(c) \/ Top(c) \/ Message(c) \/ TimerFires(c) \/ Leave(c) \/ QuietSlice(c)
      \/ Close(c) \/ Store(c) \/ Crash(c)

Untouched(d) ==
  /\ pump'[d] = pump[d] /\ cause'[d] = cause[d] /\ base'[d] = base[d]
  /\ through'[d] = through[d] /\ above'[d] = above[d] /\ dups'[d] = dups[d]
  /\ refused'[d] = refused[d] /\ highest'[d] = highest[d] /\ buffer'[d] = buffer[d]
  /\ fatal'[d] = fatal[d] /\ failed'[d] = failed[d] /\ taken'[d] = taken[d]
  /\ InFlight(d)' = InFlight(d)

LEMMA UnchangedPool ==
  ASSUME UNCHANGED <<flights, waiting>>
  PROVE  \A d \in Connections : InFlight(d)' = InFlight(d)
BY DEF InFlight

LEMMA OthersUntouched ==
  ASSUME TypeOK, NEW c \in Connections, StepOf(c), NEW d \in Connections \ {c}
  PROVE  Untouched(d)
<1>t. /\ pump \in [Connections -> Attached \union {"away", "closed"}]
      /\ cause \in [Connections -> Causes]
      /\ base \in [Connections -> Frames \union {-1}]
      /\ through \in [Connections -> Frames \union {-1}]
      /\ above \in [Connections -> SUBSET Frames]
      /\ dups \in [Connections -> SUBSET Frames]
      /\ refused \in [Connections -> SUBSET (Frames \X Codes)]
      /\ highest \in [Connections -> Frames \union {-1}]
      /\ buffer \in [Connections -> SUBSET Frames]
      /\ fatal \in [Connections -> BOOLEAN]
      /\ failed \in [Connections -> BOOLEAN]
      /\ taken \in [Connections -> SUBSET Frames]
      /\ flights \in [Connections -> SUBSET FlightType]
      /\ waiting \in [Connections -> Seq(WaiterType)]
  BY PoolTyped DEF TypeOK, PoolType
<1>1. CASE Attach(c)
  BY <1>1, <1>t, UnchangedPool DEF Attach, Untouched, pool
<1>2. CASE Top(c)
  BY <1>2, <1>t, UnchangedPool DEF Top, Untouched, tracker, pooler, pool
<1>3. ASSUME NEW n \in Frames, ReceiveChunk(c, n) PROVE Untouched(d)
  <2>1. PICK again \in BOOLEAN : Submit(c, Flight({n}, FALSE, again), TRUE)
    BY <1>3 DEF ReceiveChunk
  <2>2. Flight({n}, FALSE, again) \in FlightType
    BY NewFlightType
  <2>3. InFlight(d)' = InFlight(d)
    BY <2>1, <2>2, SubmitEffect
  <2> QED BY <1>3, <1>t, <2>3 DEF ReceiveChunk, ReceiveSound, Receive, Untouched, tracker
<1>4. ASSUME NEW n \in Frames, ReceiveBad(c, n) PROVE Untouched(d)
  BY <1>4, <1>t, UnchangedPool DEF ReceiveBad, Receive, Refuse, Untouched, tracker
<1>5. ASSUME NEW n \in Frames, ReceiveStale(c, n) PROVE Untouched(d)
  <2>1. /\ through'[d] = through[d] /\ above'[d] = above[d] /\ dups'[d] = dups[d]
        /\ refused'[d] = refused[d] /\ base'[d] = base[d]
    <3>1. CASE NoteDuplicate(c, {n}) /\ refused' = refused
      BY <3>1, <1>t, NoteEffect DEF NoteDuplicate
    <3>2. CASE Refuse(c, {n}, "bad_sequence") /\ UNCHANGED tracker
      BY <3>2, <1>t DEF Refuse, tracker
    <3> QED BY <1>5, <3>1, <3>2 DEF ReceiveStale
  <2> QED BY <1>5, <1>t, <2>1, UnchangedPool DEF ReceiveStale, ReceiveSound, Receive, Untouched
<1>6. ASSUME NEW n \in Frames, ReceiveFrame(c, n) PROVE Untouched(d)
  <2>1. buffer[c] \union {n} \in SUBSET Frames /\ buffer[c] \union {n} # {}
    BY <1>t
  <2>2. InFlight(d)' = InFlight(d) /\ buffer'[d] = buffer[d]
    <3>1. CASE /\ Submit(c, Flight(buffer[c] \union {n}, TRUE, FALSE), TRUE)
               /\ buffer' = [buffer EXCEPT ![c] = {}]
      BY <1>t, <2>1, <3>1, NewFlightType, SubmitEffect
    <3>2. CASE /\ buffer' = [buffer EXCEPT ![c] = buffer[c] \union {n}]
               /\ UNCHANGED <<flights, waiting>>
      BY <1>t, <3>2, UnchangedPool
    <3> QED BY <1>6, <3>1, <3>2 DEF ReceiveFrame
  <2> QED BY <1>6, <1>t, <2>2 DEF ReceiveFrame, ReceiveSound, Receive, Untouched, tracker
<1>7. CASE TimerFires(c)
  <2>1. InFlight(d)' = InFlight(d) /\ buffer'[d] = buffer[d]
    BY <1>7, FlushEffect DEF TimerFires
  <2> QED BY <1>7, <2>1 DEF TimerFires, Untouched, tracker
<1>8. CASE Leave(c)
  <2>1. InFlight(d)' = InFlight(d) /\ buffer'[d] = buffer[d]
    BY <1>8, FlushEffect, UnchangedPool DEF Leave
  <2>2. pump'[d] = pump[d] /\ cause'[d] = cause[d]
    BY <1>8, <1>t DEF Leave
  <2> QED BY <1>8, <2>1, <2>2 DEF Leave, Untouched, tracker
<1>9. CASE QuietSlice(c)
  <2>1. InFlight(d)' = InFlight(d) /\ buffer'[d] = buffer[d]
    BY <1>9, FlushEffect, UnchangedPool DEF QuietSlice
  <2>2. pump'[d] = pump[d] /\ cause'[d] = cause[d]
    BY <1>9, <1>t DEF QuietSlice
  <2> QED BY <1>9, <2>1, <2>2 DEF QuietSlice, Untouched, tracker
<1>10. CASE Close(c)
  <2>1. pump'[d] = pump[d] /\ cause'[d] = cause[d] /\ buffer'[d] = buffer[d]
    BY <1>10, <1>t DEF Close
  <2> QED BY <1>10, <2>1, UnchangedPool DEF Close, Untouched, tracker, pool
<1>11. ASSUME NEW f \in flights[c], StoreLands(c, f) PROVE Untouched(d)
  <2>1. f.frames \in SUBSET Frames
    BY <1>t, SequenceType
  <2>2. /\ through'[d] = through[d] /\ above'[d] = above[d] /\ base' = base /\ dups' = dups
    BY <1>11, <2>1, NoteEffect DEF StoreLands, NoteStored
  <2>3. InFlight(d)' = InFlight(d)
    BY <1>11, LandEffect DEF StoreLands
  <2> QED BY <1>11, <2>2, <2>3 DEF StoreLands, Untouched, pooler
<1>12. ASSUME NEW f \in flights[c], StoreIsDuplicate(c, f) PROVE Untouched(d)
  <2>1. f.frames \in SUBSET Frames
    BY <1>t, SequenceType
  <2>2. /\ through'[d] = through[d] /\ above'[d] = above[d] /\ base' = base
        /\ dups'[d] = dups[d]
    BY <1>12, <1>t, <2>1, NoteEffect DEF StoreIsDuplicate, NoteDuplicate
  <2>3. InFlight(d)' = InFlight(d)
    BY <1>12, LandEffect DEF StoreIsDuplicate
  <2> QED BY <1>12, <2>2, <2>3 DEF StoreIsDuplicate, Untouched, pooler
<1>13. ASSUME NEW f \in flights[c], StoreIsLate(c, f) PROVE Untouched(d)
  <2>1. InFlight(d)' = InFlight(d) /\ fatal'[d] = fatal[d]
    BY <1>13, <1>t, LandEffect DEF StoreIsLate
  <2> QED BY <1>13, <2>1 DEF StoreIsLate, Untouched, tracker, pooler
<1>14. ASSUME NEW f \in flights[c], StoreFails(c, f) PROVE Untouched(d)
  <2>1. InFlight(d)' = InFlight(d) /\ refused'[d] = refused[d] /\ failed'[d] = failed[d]
    BY <1>14, AttemptedEffect DEF StoreFails
  <2> QED BY <1>14, <2>1 DEF StoreFails, Untouched, tracker
<1>15. CASE Crash(c)
  <2>1. /\ pump'[d] = pump[d] /\ cause'[d] = cause[d] /\ buffer'[d] = buffer[d]
        /\ flights'[d] = flights[d] /\ waiting'[d] = waiting[d]
    BY <1>15, <1>t DEF Crash
  <2> QED BY <1>15, <2>1 DEF Crash, Untouched, InFlight, tracker
<1> QED BY <1>1, <1>2, <1>3, <1>4, <1>5, <1>6, <1>7, <1>8, <1>9, <1>10, <1>11, <1>12,
           <1>13, <1>14, <1>15 DEF StepOf, Message, Store

\* A store that ends, or tries again, adds nothing to its connection's pool.
LEMMA StoreParts ==
  ASSUME TypeOK, NEW c \in Connections, Store(c)
  PROVE  /\ PooledSets(c)' \subseteq PooledSets(c) /\ SingleSets(c)' \subseteq SingleSets(c)
         /\ pump' = pump /\ cause' = cause /\ buffer' = buffer /\ highest' = highest
         /\ taken' = taken /\ base' = base /\ rows \subseteq rows'
<1>1. ASSUME NEW f \in flights[c], StoreLands(c, f)
      PROVE  /\ PooledSets(c)' \subseteq PooledSets(c) /\ SingleSets(c)' \subseteq SingleSets(c)
             /\ base' = base
  BY <1>1, LandEffect, LandedParts DEF StoreLands, NoteStored, Note
<1>2. ASSUME NEW f \in flights[c], StoreIsDuplicate(c, f)
      PROVE  /\ PooledSets(c)' \subseteq PooledSets(c) /\ SingleSets(c)' \subseteq SingleSets(c)
             /\ base' = base
  BY <1>2, LandEffect, LandedParts DEF StoreIsDuplicate, NoteDuplicate, Note
<1>3. ASSUME NEW f \in flights[c], StoreIsLate(c, f)
      PROVE  PooledSets(c)' \subseteq PooledSets(c) /\ SingleSets(c)' \subseteq SingleSets(c)
  BY <1>3, LandEffect, LandedParts DEF StoreIsLate
<1>4. ASSUME NEW f \in flights[c], StoreFails(c, f)
      PROVE  PooledSets(c)' \subseteq PooledSets(c) /\ SingleSets(c)' \subseteq SingleSets(c)
  BY <1>4, AttemptedParts DEF StoreFails
<1> QED BY <1>1, <1>2, <1>3, <1>4
     DEF Store, StoreLands, StoreIsDuplicate, StoreIsLate, StoreFails, pooler, tracker

----------------------------------------------------------------------------
(* Memory.                                                                 *)

Held(c) == buffer[c] \union UNION PooledSets(c)

HeldCounts ==
  \A c \in Connections : /\ IsFiniteSet(Held(c))
                         /\ Buffered(c) = Cardinality(Held(c)) /\ Buffered(c) \in Nat

LEMMA HeldIsCounted == TypeOK => HeldCounts
<1> SUFFICES ASSUME TypeOK, NEW c \in Connections
             PROVE  /\ IsFiniteSet(Held(c))
                    /\ Buffered(c) = Cardinality(Held(c)) /\ Buffered(c) \in Nat
  BY DEF HeldCounts
<1>1. InFlight(c) \in SUBSET FlightType /\ buffer[c] \in SUBSET Frames
  BY InFlightType DEF TypeOK
<1>2. ASSUME NEW S \in PooledSets(c) PROVE S \in SUBSET Frames
  BY <1>1 DEF PooledSets, FlightType
<1>3. Held(c) \in SUBSET Frames
  BY <1>1, <1>2 DEF Held
<1>4. PICK n \in Nat : Frames \subseteq 0..n
  BY StreamUploadAssumption
<1>5. IsFiniteSet(Held(c))
  <2>1. IsFiniteSet(0..n)
    BY FS_Interval
  <2>2. Held(c) \subseteq 0..n
    BY <1>3, <1>4
  <2> QED BY <2>1, <2>2, FS_Subset
<1>6. Buffered(c) = Cardinality(Held(c))
  BY DEF Buffered, Held, PooledSets
<1> QED BY <1>3, <1>5, <1>6, FS_CardinalityType

Room(c) == pump[c] = "receive" => Buffered(c) <= MaxBuffer

\* The loop receives only with room in the pool, and a message is one frame.
MemoryInv == MemoryIsBounded /\ \A c \in Connections : Room(c)

LEMMA ActorHolds ==
  ASSUME TypeOK, NEW c \in Connections, StepOf(c)
  PROVE  \/ /\ Held(c)' \subseteq Held(c)
            /\ pump'[c] = "receive" => pump[c] = "receive" \/ Buffered(c) <= MaxBuffer
         \/ /\ pump[c] = "receive" /\ pump'[c] = "top"
            /\ \E n \in Frames : Held(c)' \subseteq Held(c) \union {n}
<1> DEFINE Less == Held(c)' \subseteq Held(c)
<1>t. /\ pump \in [Connections -> Attached \union {"away", "closed"}]
      /\ buffer \in [Connections -> SUBSET Frames]
      /\ flights \in [Connections -> SUBSET FlightType]
      /\ waiting \in [Connections -> Seq(WaiterType)]
  BY PoolTyped DEF TypeOK, PoolType
<1>s. ASSUME UNCHANGED <<buffer, flights, waiting>> PROVE Less
  BY <1>s, UnchangedPool, SamePool DEF Held, SameParts
<1>f. ASSUME Fill(c, {}) PROVE Less
  BY <1>f DEF Fill, Held, SameParts
<1>1. CASE Attach(c)
  BY <1>1, <1>t, <1>s DEF Attach, pool
<1>2. CASE Top(c)
  BY <1>2, <1>t, <1>s DEF Top, pooler, pool, PumpIsFree
<1>3. CASE Message(c)
  <2>1. pump[c] = "receive" /\ pump'[c] = "top"
    BY <1>3, <1>t DEF Message, ReceiveChunk, ReceiveBad, ReceiveStale, ReceiveFrame,
                      ReceiveSound, Receive
  <2>2. ASSUME NEW n \in Frames, ReceiveChunk(c, n) PROVE Less
    BY <2>2, ChunkFlies DEF ReceiveChunk, Held
  <2>3. ASSUME NEW n \in Frames, ReceiveBad(c, n) \/ ReceiveStale(c, n) PROVE Less
    BY <2>3, <1>s DEF ReceiveBad, ReceiveStale
  <2>4. ASSUME NEW n \in Frames, ReceiveFrame(c, n)
        PROVE  Held(c)' \subseteq Held(c) \union {n}
    BY <2>4, FrameFills DEF Fill, Held, SameParts
  <2> QED BY <1>3, <2>1, <2>2, <2>3, <2>4 DEF Message
<1>4. CASE TimerFires(c)
  BY <1>4, <1>f, FlushFills DEF TimerFires
<1>5. CASE Leave(c)
  <2>1. Less
    BY <1>5, <1>f, <1>s, FlushFills DEF Leave
  <2> QED BY <1>5, <1>t, <2>1 DEF Leave
<1>6. CASE QuietSlice(c)
  <2>1. Less
    BY <1>6, <1>f, <1>s, FlushFills DEF QuietSlice
  <2> QED BY <1>6, <1>t, <2>1 DEF QuietSlice
<1>7. CASE Close(c)
  <2>1. buffer'[c] = {} /\ pump'[c] = "closed"
    BY <1>7, <1>t DEF Close
  <2>2. PooledSets(c)' = PooledSets(c)
    BY <1>7, UnchangedPool, SamePool DEF Close, pool, SameParts
  <2> QED BY <2>1, <2>2 DEF Held
<1>8. CASE Store(c)
  BY <1>8, StoreParts DEF Held
<1>9. CASE Crash(c)
  <2>1. /\ buffer'[c] = {} /\ pump'[c] = "closed" /\ flights'[c] = {} /\ waiting'[c] = <<>>
    BY <1>9, <1>t DEF Crash
  <2>2. InFlight(c)' = {}
    BY <2>1 DEF InFlight, ToSet
  <2> QED BY <2>1, <2>2 DEF Held, PooledSets
<1> QED BY <1>1, <1>2, <1>3, <1>4, <1>5, <1>6, <1>7, <1>8, <1>9 DEF StepOf

LEMMA HeldIsCountedNext == TypeOK' => HeldCounts'
BY HeldIsCounted, PTL

LEMMA MemoryStep == TypeOK /\ TypeOK' /\ MemoryInv /\ [Next]_vars => MemoryInv'
<1> SUFFICES ASSUME TypeOK, TypeOK', MemoryInv, [Next]_vars,
                    NEW d \in Connections
             PROVE  Buffered(d)' <= MaxBuffer + 1 /\ Room(d)'
  BY DEF MemoryInv, MemoryIsBounded
<1>1. /\ IsFiniteSet(Held(d)) /\ Buffered(d) = Cardinality(Held(d)) /\ Buffered(d) \in Nat
      /\ IsFiniteSet(Held(d)') /\ Buffered(d)' = Cardinality(Held(d)') /\ Buffered(d)' \in Nat
      /\ MaxBuffer \in Nat /\ Buffered(d) <= MaxBuffer + 1 /\ Room(d)
  BY HeldIsCounted, HeldIsCountedNext, StreamUploadAssumption
     DEF HeldCounts, MemoryInv, MemoryIsBounded
<1>2. ASSUME Held(d)' \subseteq Held(d),
             pump'[d] = "receive" => pump[d] = "receive" \/ Buffered(d) <= MaxBuffer
      PROVE  Buffered(d)' <= MaxBuffer + 1 /\ Room(d)'
  <2>1. Buffered(d)' <= Buffered(d)
    BY <1>1, <1>2, FS_Subset
  <2> QED BY <1>1, <1>2, <2>1 DEF Room
<1>3. ASSUME StepOf(d) PROVE Buffered(d)' <= MaxBuffer + 1 /\ Room(d)'
  <2>1. CASE /\ pump[d] = "receive" /\ pump'[d] = "top"
             /\ \E n \in Frames : Held(d)' \subseteq Held(d) \union {n}
    <3>1. PICK n \in Frames : Held(d)' \subseteq Held(d) \union {n}
      BY <2>1
    <3>2. /\ IsFiniteSet(Held(d) \union {n})
          /\ Cardinality(Held(d) \union {n}) \in {Buffered(d), Buffered(d) + 1}
      BY <1>1, FS_AddElement
    <3>3. Buffered(d)' <= Cardinality(Held(d) \union {n})
      BY <1>1, <3>1, <3>2, FS_Subset
    <3> QED BY <1>1, <2>1, <3>2, <3>3 DEF Room
  <2> QED BY <1>2, <1>3, <2>1, ActorHolds
<1>4. ASSUME NEW c \in Connections \ {d}, StepOf(c)
      PROVE  Buffered(d)' <= MaxBuffer + 1 /\ Room(d)'
  <2>1. Untouched(d)
    BY <1>4, OthersUntouched
  <2>2. Held(d)' = Held(d)
    BY <2>1, SamePool DEF Untouched, Held, SameParts
  <2> QED BY <1>2, <2>1, <2>2 DEF Untouched
<1>5. CASE EndSession \/ UNCHANGED vars
  <2>1. pump' = pump /\ UNCHANGED <<buffer, flights, waiting>>
    BY <1>5 DEF EndSession, vars, pooler, pool
  <2>2. Held(d)' = Held(d)
    BY <2>1, UnchangedPool, SamePool DEF Held, SameParts
  <2> QED BY <1>2, <2>1, <2>2
<1>6. (\E c \in Connections : StepOf(c)) \/ EndSession \/ UNCHANGED vars
  BY DEF Next, StepOf, Over
<1> QED BY <1>3, <1>4, <1>5, <1>6

LEMMA MemoryInit == Init => MemoryInv
<1> SUFFICES ASSUME Init, NEW c \in Connections PROVE Buffered(c) = 0 /\ pump[c] = "away"
  BY StreamUploadAssumption DEF MemoryInv, MemoryIsBounded, Room
<1>1. buffer[c] = {} /\ flights[c] = {} /\ waiting[c] = <<>> /\ pump[c] = "away"
  BY DEF Init
<1>2. InFlight(c) = {}
  BY <1>1 DEF InFlight, ToSet
<1>3. buffer[c] \union UNION {f.frames : f \in {g \in InFlight(c) : g.pooled}} = {}
  BY <1>1, <1>2
<1> QED BY <1>1, <1>3, FS_EmptySet DEF Buffered

\* The audio a connection holds stays within one frame of the cap, whatever
\* fails and however the latency timer, full pools and retries interleave.
THEOREM MemoryHolds == Spec => []MemoryIsBounded
<1>1. MemoryInv => MemoryIsBounded
  BY DEF MemoryInv
<1> QED BY <1>1, MemoryInit, MemoryStep, TypeCorrect, PTL DEF Spec

----------------------------------------------------------------------------
(* What holds of every connection, however many overlap.                   *)

Apart(S, T) == S = T \/ S \intersect T = {}

\* Only a handler that runs has anything under way.
IdleIsEmpty(c) ==
  pump[c] \notin Attached => PooledSets(c) = {} /\ SingleSets(c) = {} /\ buffer[c] = {}

\* A connection that never attached has told its client nothing; a handler
\* in its loop has no reason to leave; one that drains has flushed its pool,
\* or left for a reason it reports.
LoopIsOrderly(c) ==
  /\ pump[c] = "away" => above[c] = {} /\ dups[c] = {}
  /\ pump[c] \in {"away", "top", "receive"} => cause[c] = "none"
  /\ pump[c] = "drain" => buffer[c] = {} \/ cause[c] \in {"protocol", "ended", "failed"}

\* Pooled flights carry distinct audio frames in order, apart from the buffer
\* and from what travels in envelopes.
PoolIsSorted(c) ==
  /\ \A S \in SingleSets(c) : \E n \in Enveloped : S = {n}
  /\ \A S \in PooledSets(c) : /\ S \intersect Enveloped = {} /\ S \intersect buffer[c] = {}
                              /\ \A T \in PooledSets(c) : Apart(S, T)
                              /\ \A n \in S : n <= highest[c]
  /\ buffer[c] \intersect Enveloped = {}
  /\ \A n \in buffer[c] : n <= highest[c]

\* A row ends with its own sequence, and is one envelope or holds none.
RowIsSound(x) ==
  /\ x.sequence \in x.frames /\ \A n \in x.frames : n <= x.sequence
  /\ x.frames \intersect Enveloped = {} \/ \E n \in Enveloped : x.frames = {n}

LocalInv ==
  /\ \A c \in Connections : IdleIsEmpty(c) /\ LoopIsOrderly(c) /\ PoolIsSorted(c)
  /\ \A x \in rows : RowIsSound(x)

----------------------------------------------------------------------------
(* What holds of connections that follow one another.                      *)

Alone == \A c, d \in Connections : pump[c] \in Attached /\ pump[d] \in Attached => c = d

\* Every row a running handler sees is its own flight's, or behind it.
RowsAreBehind(c) ==
  pump[c] \in Attached =>
    \A x \in rows : /\ \A n \in x.frames : n \in Enveloped \/ n <= highest[c]
                    /\ x.frames \intersect buffer[c] = {}
                    /\ \A S \in PooledSets(c) : Apart(S, x.frames)

TurnsInv == Alone /\ (\A c \in Connections : RowsAreBehind(c)) /\ FramesAreStoredOnce

\* What an upload has told its client is in a row.
ToldIsStored == \A c \in Connections : {n \in Told(c) : n > base[c]} \subseteq Covered

\* While no reply is lost, every row still has its object.
RepliesInv == budget.lost = 0 /\ \A x \in rows : x.intact

----------------------------------------------------------------------------
(* The local invariant is inductive.                                       *)

LEMMA FlyingIsAttached ==
  ASSUME LocalInv, NEW c \in Connections, Store(c)
  PROVE  pump[c] \in Attached
<1>1. PICK f \in flights[c] : TRUE
  BY DEF Store
<1>2. f.frames \in PooledSets(c) \/ f.frames \in SingleSets(c)
  BY PoolParts
<1> QED BY <1>2 DEF LocalInv, IdleIsEmpty

\* The only rows are those of the flights that landed.
LEMMA NewRow ==
  ASSUME TypeOK, LocalInv, NEW c \in Connections, StepOf(c), rows' # rows
  PROVE  /\ Store(c) /\ pump[c] \in Attached
         /\ \E x : /\ rows' = rows \union {x} /\ RowIsSound(x)
                   /\ \A y \in rows : y.sequence # x.sequence
                   /\ x.frames \in PooledSets(c) \/ x.frames \in SingleSets(c)
<1>1. Store(c)
  BY DEF StepOf, Attach, Top, Message, ReceiveChunk, ReceiveBad, ReceiveStale, ReceiveFrame,
         ReceiveSound, Receive, TimerFires, Leave, QuietSlice, Close, Crash
<1>2. PICK f \in flights[c] : StoreLands(c, f) \/ StoreFails(c, f)
  BY <1>1 DEF Store, StoreIsDuplicate, StoreIsLate
<1>r. PICK intact \in BOOLEAN :
        rows' = rows \union {[sequence |-> Sequence(f), frames |-> f.frames, intact |-> intact]}
  <2>1. CASE StoreLands(c, f)
    BY <2>1 DEF StoreLands
  <2>2. CASE StoreFails(c, f)
    BY <2>2 DEF StoreFails
  <2> QED BY <1>2, <2>1, <2>2
<1>3. PICK x : /\ rows' = rows \union {x} /\ x.frames = f.frames /\ x.sequence = Sequence(f)
  BY <1>r
<1>4. \A y \in rows : y.sequence # Sequence(f)
  BY <1>2 DEF StoreLands, StoreFails, IsStored
<1>5. f \in FlightType
  BY PoolTyped DEF PoolType
<1>6. Sequence(f) \in f.frames /\ \A n \in f.frames : n <= Sequence(f)
  BY <1>5, SequenceType
<1>7. f.frames \in PooledSets(c) \/ f.frames \in SingleSets(c)
  BY PoolParts
<1>8. f.frames \intersect Enveloped = {} \/ \E n \in Enveloped : f.frames = {n}
  BY <1>7 DEF LocalInv, PoolIsSorted
<1> QED BY <1>1, <1>3, <1>4, <1>6, <1>7, <1>8, FlyingIsAttached DEF RowIsSound

LEMMA PartsAreFrames ==
  ASSUME TypeOK, NEW c \in Connections
  PROVE  /\ \A S \in PooledSets(c) : S \in SUBSET Frames
         /\ highest[c] \in Int /\ buffer[c] \in SUBSET Frames
         /\ \A n \in Frames : n \in Nat
<1>1. \A S \in PooledSets(c) : S \in SUBSET Frames
  BY InFlightType DEF PooledSets, FlightType
<1>2. \A n \in Frames : n \in Nat
  BY StreamUploadAssumption
<1>3. highest[c] \in Frames \union {-1} /\ buffer[c] \in SUBSET Frames
  BY DEF TypeOK
<1> QED BY <1>1, <1>2, <1>3

LEMMA ShrinkSorted ==
  ASSUME NEW c \in Connections, PoolIsSorted(c),
         PooledSets(c)' \subseteq PooledSets(c), SingleSets(c)' \subseteq SingleSets(c),
         buffer'[c] \subseteq buffer[c], highest'[c] = highest[c]
  PROVE  PoolIsSorted(c)'
BY DEF PoolIsSorted

LEMMA FillSorted ==
  ASSUME TypeOK, NEW c \in Connections, PoolIsSorted(c), NEW S \in SUBSET Frames,
         Fill(c, S), highest'[c] \in Int, highest[c] <= highest'[c],
         \A n \in S : n \notin Enveloped /\ n > highest[c] /\ n <= highest'[c]
  PROVE  PoolIsSorted(c)'
<1> DEFINE held == buffer[c] \union S
<1>1. /\ \A T \in PooledSets(c) : T \in SUBSET Frames
      /\ highest[c] \in Int /\ held \in SUBSET Frames /\ \A n \in Frames : n \in Nat
  BY PartsAreFrames
<1>2. /\ held \intersect Enveloped = {} /\ \A n \in held : n <= highest'[c]
  BY <1>1 DEF PoolIsSorted
<1>3. \A T \in PooledSets(c) : /\ T \intersect held = {} /\ T \intersect Enveloped = {}
                               /\ \A n \in T : n <= highest'[c]
  BY <1>1 DEF PoolIsSorted
<1>4. CASE SameParts(c) /\ buffer'[c] = held
  BY <1>2, <1>3, <1>4 DEF PoolIsSorted, SameParts
<1>5. CASE /\ buffer'[c] = {} /\ PooledSets(c)' = PooledSets(c) \union {held}
           /\ SingleSets(c)' = SingleSets(c)
  <2>1. \A T \in PooledSets(c)' : /\ T \intersect Enveloped = {} /\ T \intersect buffer'[c] = {}
                                  /\ \A n \in T : n <= highest'[c]
    BY <1>2, <1>3, <1>5
  <2>2. \A T, U \in PooledSets(c)' : Apart(T, U)
    BY <1>3, <1>5 DEF PoolIsSorted, Apart
  <2> QED BY <1>5, <2>1, <2>2 DEF PoolIsSorted
<1> QED BY <1>4, <1>5 DEF Fill

LEMMA UntouchedLocal ==
  ASSUME NEW d \in Connections, Untouched(d),
         IdleIsEmpty(d), LoopIsOrderly(d), PoolIsSorted(d)
  PROVE  IdleIsEmpty(d)' /\ LoopIsOrderly(d)' /\ PoolIsSorted(d)'
<1>1. SameParts(d)
  BY SamePool DEF Untouched
<1>2. IdleIsEmpty(d)'
  BY <1>1 DEF Untouched, SameParts, IdleIsEmpty
<1>3. LoopIsOrderly(d)'
  BY DEF Untouched, LoopIsOrderly
<1>4. PoolIsSorted(d)'
  BY <1>1 DEF Untouched, SameParts, PoolIsSorted
<1> QED BY <1>2, <1>3, <1>4

LEMMA ActorLocal ==
  ASSUME TypeOK, LocalInv, NEW c \in Connections, StepOf(c)
  PROVE  IdleIsEmpty(c)' /\ LoopIsOrderly(c)' /\ PoolIsSorted(c)'
<1>t. /\ pump \in [Connections -> Attached \union {"away", "closed"}]
      /\ cause \in [Connections -> Causes] /\ buffer \in [Connections -> SUBSET Frames]
      /\ highest \in [Connections -> Frames \union {-1}]
      /\ IdleIsEmpty(c) /\ LoopIsOrderly(c) /\ PoolIsSorted(c)
      /\ highest[c] \in Int /\ \A n \in Frames : n \in Nat
  BY PartsAreFrames DEF TypeOK, LocalInv
<1>s. ASSUME UNCHANGED <<flights, waiting>> PROVE SameParts(c)
  BY <1>s, UnchangedPool, SamePool
<1>1. CASE Attach(c)
  <2>1. SameParts(c) /\ buffer' = buffer /\ above' = above /\ dups' = dups /\ cause' = cause
    BY <1>1, <1>s DEF Attach, pool
  <2>2. pump[c] = "away" /\ pump'[c] = "top"
    BY <1>1, <1>t DEF Attach
  <2>3. PooledSets(c) = {} /\ SingleSets(c) = {} /\ buffer[c] = {}
    BY <1>t, <2>2 DEF IdleIsEmpty, Attached
  <2> QED BY <1>t, <2>1, <2>2, <2>3
       DEF IdleIsEmpty, LoopIsOrderly, PoolIsSorted, SameParts, Attached
<1>2. CASE Top(c)
  <2>1. SameParts(c) /\ buffer' = buffer /\ highest' = highest
    BY <1>2, <1>s DEF Top, pool, pooler
  <2>2. pump[c] = "top" /\ \/ pump'[c] = "drain" /\ cause'[c] \in {"ended", "failed"}
                           \/ pump'[c] = "receive" /\ cause'[c] = cause[c]
    BY <1>2, <1>t DEF Top
  <2>3. PoolIsSorted(c)'
    BY <1>t, <2>1, ShrinkSorted DEF SameParts
  <2> QED BY <1>t, <2>2, <2>3 DEF IdleIsEmpty, LoopIsOrderly, Attached
<1>3. CASE Message(c)
  <2>1. pump[c] = "receive" /\ pump'[c] = "top" /\ cause' = cause
    BY <1>3, <1>t DEF Message, ReceiveChunk, ReceiveBad, ReceiveStale, ReceiveFrame,
                      ReceiveSound, Receive
  <2>2. ASSUME NEW n \in Frames, ReceiveChunk(c, n) PROVE PoolIsSorted(c)'
    <3>1. n \in Enveloped /\ buffer' = buffer /\ highest' = highest
      BY <2>2 DEF ReceiveChunk
    <3>2. PooledSets(c)' = PooledSets(c) /\ SingleSets(c)' = SingleSets(c) \union {{n}}
      BY <2>2, ChunkFlies
    <3> QED BY <1>t, <3>1, <3>2 DEF PoolIsSorted
  <2>3. ASSUME NEW n \in Frames, ReceiveBad(c, n) \/ ReceiveStale(c, n) PROVE PoolIsSorted(c)'
    <3>1. SameParts(c) /\ buffer' = buffer /\ highest' = highest
      BY <1>s, <2>3 DEF ReceiveBad, ReceiveStale
    <3> QED BY <1>t, <3>1, ShrinkSorted DEF SameParts
  <2>4. ASSUME NEW n \in Frames, ReceiveFrame(c, n) PROVE PoolIsSorted(c)'
    <3>1. Fill(c, {n}) /\ highest'[c] = n /\ n > highest[c] /\ n \notin Enveloped
      BY <2>4, FrameFills DEF ReceiveFrame
    <3> QED BY <1>t, <3>1, FillSorted
  <2>5. PoolIsSorted(c)'
    BY <1>3, <2>2, <2>3, <2>4 DEF Message
  <2> QED BY <1>t, <2>1, <2>5 DEF IdleIsEmpty, LoopIsOrderly, Attached
<1>4. CASE TimerFires(c)
  <2>1. Fill(c, {}) /\ buffer'[c] = {} /\ highest' = highest /\ pump' = pump /\ cause' = cause
        /\ above' = above /\ dups' = dups /\ pump[c] \in Attached
    BY <1>4, FlushFills DEF TimerFires, tracker
  <2>2. PoolIsSorted(c)'
    BY <1>t, <2>1, FillSorted
  <2> QED BY <1>t, <2>1, <2>2 DEF IdleIsEmpty, LoopIsOrderly
<1>5. CASE Leave(c)
  <2>1. /\ pump'[c] = "drain" /\ highest' = highest
        /\ \/ Fill(c, {}) /\ buffer'[c] = {}
           \/ SameParts(c) /\ buffer' = buffer /\ cause'[c] = "protocol"
    BY <1>5, <1>t, <1>s, FlushFills DEF Leave
  <2>2. PoolIsSorted(c)'
    BY <1>t, <2>1, FillSorted, ShrinkSorted DEF SameParts
  <2> QED BY <2>1, <2>2 DEF IdleIsEmpty, LoopIsOrderly, Attached
<1>6. CASE QuietSlice(c)
  <2>1. /\ pump'[c] = "drain" /\ highest' = highest
        /\ \/ Fill(c, {}) /\ buffer'[c] = {}
           \/ SameParts(c) /\ buffer' = buffer /\ cause'[c] = "ended"
    BY <1>6, <1>t, <1>s, FlushFills DEF QuietSlice
  <2>2. PoolIsSorted(c)'
    BY <1>t, <2>1, FillSorted, ShrinkSorted DEF SameParts
  <2> QED BY <2>1, <2>2 DEF IdleIsEmpty, LoopIsOrderly, Attached
<1>7. CASE Close(c)
  <2>1. /\ buffer'[c] = {} /\ pump'[c] = "closed" /\ highest' = highest
    BY <1>7, <1>t DEF Close
  <2>2. SameParts(c) /\ PooledSets(c) = {} /\ SingleSets(c) = {}
    BY <1>7, <1>s, PoolParts DEF Close, pool
  <2> QED BY <2>1, <2>2 DEF IdleIsEmpty, LoopIsOrderly, PoolIsSorted, SameParts
<1>8. CASE Store(c)
  <2>1. /\ pump' = pump /\ cause' = cause /\ buffer' = buffer /\ highest' = highest
        /\ PooledSets(c)' \subseteq PooledSets(c) /\ SingleSets(c)' \subseteq SingleSets(c)
        /\ pump[c] \in Attached
    BY <1>8, StoreParts, FlyingIsAttached
  <2>2. PoolIsSorted(c)'
    BY <1>t, <2>1, ShrinkSorted
  <2> QED BY <1>t, <2>1, <2>2 DEF IdleIsEmpty, LoopIsOrderly, Attached
<1>9. CASE Crash(c)
  <2>1. /\ buffer'[c] = {} /\ pump'[c] = "closed" /\ flights'[c] = {} /\ waiting'[c] = <<>>
    BY <1>9, <1>t DEF Crash, TypeOK
  <2>2. InFlight(c)' = {}
    BY <2>1 DEF InFlight, ToSet
  <2>3. PooledSets(c)' = {} /\ SingleSets(c)' = {}
    BY <2>2 DEF PooledSets, SingleSets
  <2> QED BY <2>1, <2>3 DEF IdleIsEmpty, LoopIsOrderly, PoolIsSorted
<1> QED BY <1>1, <1>2, <1>3, <1>4, <1>5, <1>6, <1>7, <1>8, <1>9 DEF StepOf

\* A step is one connection's, the session's end, or none.
LEMMA StepSplit ==
  ASSUME [Next]_vars
  PROVE  \/ \E c \in Connections : StepOf(c)
         \/ rows' = rows /\ budget' = budget /\ \A d \in Connections : Untouched(d)
<1>1. CASE EndSession
  BY <1>1, UnchangedPool DEF EndSession, Untouched, tracker, pooler, pool
<1>2. CASE UNCHANGED vars
  BY <1>2, UnchangedPool DEF vars, Untouched
<1> QED BY <1>1, <1>2 DEF Next, StepOf, Over

LEMMA LocalStep == TypeOK /\ LocalInv /\ [Next]_vars => LocalInv'
<1> SUFFICES ASSUME TypeOK, LocalInv, [Next]_vars PROVE LocalInv'
  OBVIOUS
<1>1. ASSUME NEW d \in Connections
      PROVE  IdleIsEmpty(d)' /\ LoopIsOrderly(d)' /\ PoolIsSorted(d)'
  <2>1. StepOf(d) \/ Untouched(d)
    BY StepSplit, OthersUntouched
  <2> QED BY <2>1, ActorLocal, UntouchedLocal DEF LocalInv
<1>2. ASSUME NEW x \in rows' PROVE RowIsSound(x)
  BY StepSplit, NewRow DEF LocalInv
<1> QED BY <1>1, <1>2 DEF LocalInv, RowIsSound

----------------------------------------------------------------------------
(* Connections that take turns.                                            *)

\* What one step does to the acting connection's pool, buffer and watermark.
ActsOnPool(c) ==
  \/ Attach(c)
  \/ PooledSets(c)' \subseteq PooledSets(c) /\ buffer'[c] \subseteq buffer[c]
       /\ highest'[c] = highest[c]
  \/ \E S \in SUBSET Frames : /\ Fill(c, S) /\ highest[c] <= highest'[c] /\ highest'[c] \in Int
                              /\ \A n \in S : n \notin Enveloped /\ n > highest[c]

LEMMA ActorPool ==
  ASSUME TypeOK, NEW c \in Connections, StepOf(c)
  PROVE  ActsOnPool(c)
<1>t. /\ highest[c] \in Int /\ \A n \in Frames : n \in Nat
      /\ buffer \in [Connections -> SUBSET Frames]
  BY PartsAreFrames DEF TypeOK
<1>s. ASSUME UNCHANGED <<flights, waiting>> PROVE PooledSets(c)' = PooledSets(c)
  BY <1>s, UnchangedPool, SamePool DEF SameParts
<1>f. ASSUME Fill(c, {}), highest' = highest PROVE ActsOnPool(c)
  BY <1>f, <1>t DEF ActsOnPool
<1>1. CASE Top(c)
  BY <1>1, <1>s DEF Top, pool, pooler, ActsOnPool
<1>2. ASSUME NEW n \in Frames, ReceiveChunk(c, n) PROVE ActsOnPool(c)
  BY <1>2, ChunkFlies DEF ReceiveChunk, ActsOnPool
<1>3. ASSUME NEW n \in Frames, ReceiveBad(c, n) \/ ReceiveStale(c, n) PROVE ActsOnPool(c)
  BY <1>3, <1>s DEF ReceiveBad, ReceiveStale, ActsOnPool
<1>4. ASSUME NEW n \in Frames, ReceiveFrame(c, n) PROVE ActsOnPool(c)
  <2>1. Fill(c, {n}) /\ highest'[c] = n /\ n > highest[c] /\ n \notin Enveloped
    BY <1>4, FrameFills DEF ReceiveFrame
  <2> QED BY <1>t, <2>1 DEF ActsOnPool
<1>5. CASE TimerFires(c)
  BY <1>5, <1>f, FlushFills DEF TimerFires
<1>6. CASE Leave(c)
  BY <1>6, <1>f, <1>s, FlushFills DEF Leave, ActsOnPool
<1>7. CASE QuietSlice(c)
  BY <1>7, <1>f, <1>s, FlushFills DEF QuietSlice, ActsOnPool
<1>8. CASE Close(c)
  BY <1>8, <1>s, <1>t DEF Close, pool, ActsOnPool
<1>9. CASE Store(c)
  BY <1>9, StoreParts DEF ActsOnPool
<1>10. CASE Crash(c)
  <2>1. /\ buffer'[c] = {} /\ flights'[c] = {} /\ waiting'[c] = <<>> /\ highest' = highest
    BY <1>10 DEF Crash, TypeOK
  <2>2. InFlight(c)' = {}
    BY <2>1 DEF InFlight, ToSet
  <2> QED BY <2>1, <2>2 DEF PooledSets, ActsOnPool
<1>11. CASE Attach(c)
  BY <1>11 DEF ActsOnPool
<1> QED BY <1>1, <1>2, <1>3, <1>4, <1>5, <1>6, <1>7, <1>8, <1>9, <1>10, <1>11
     DEF StepOf, Message

\* Only the upgrade brings a handler to life, and only when none is left.
LEMMA AloneStep ==
  ASSUME ~Overlap, TypeOK, TypeOK', Alone, NEW c \in Connections, StepOf(c)
  PROVE  Alone'
<1>t. pump \in [Connections -> Attached \union {"away", "closed"}]
  BY DEF TypeOK
<1>1. CASE Attach(c)
  BY <1>1, <1>t DEF Attach, Alone, Attached
<1>2. CASE ~Attach(c)
  <2>1. pump'[c] \in Attached => pump[c] \in Attached
    BY <1>2, <1>t DEF StepOf, Top, Message, ReceiveChunk, ReceiveBad, ReceiveStale,
       ReceiveFrame, ReceiveSound, Receive, TimerFires, Leave, QuietSlice, Close, Crash,
       Store, StoreLands, StoreIsDuplicate, StoreIsLate, StoreFails, Attached
  <2>2. \A d \in Connections \ {c} : pump'[d] = pump[d]
    BY OthersUntouched DEF Untouched
  <2> QED BY <2>1, <2>2 DEF Alone
<1> QED BY <1>1, <1>2

\* A new row holds nothing that is stored.
LEMMA StoredOnceStep ==
  ASSUME TypeOK, LocalInv, TurnsInv, NEW c \in Connections, StepOf(c)
  PROVE  FramesAreStoredOnce'
<1>1. CASE rows' = rows
  BY <1>1 DEF TurnsInv, FramesAreStoredOnce
<1>2. CASE rows' # rows
  <2>1. PICK x : /\ rows' = rows \union {x} /\ RowIsSound(x)
                 /\ \A y \in rows : y.sequence # x.sequence
                 /\ x.frames \in PooledSets(c) \/ x.frames \in SingleSets(c)
    BY <1>2, NewRow
  <2>2. pump[c] \in Attached
    BY <1>2, NewRow
  <2>3. ASSUME NEW y \in rows PROVE x.frames \intersect y.frames = {}
    <3>1. /\ RowIsSound(y)
          /\ Apart(x.frames, y.frames) \/ x.frames \in SingleSets(c)
          /\ y.frames \in SUBSET Frames /\ y.sequence # x.sequence
      BY <2>1, <2>2 DEF LocalInv, TurnsInv, RowsAreBehind, Apart, TypeOK
    <3>2. CASE x.frames = y.frames
      <4>1. /\ x.sequence \in Frames /\ y.sequence \in Frames
            /\ x.sequence <= y.sequence /\ y.sequence <= x.sequence
        BY <2>1, <3>1, <3>2 DEF RowIsSound
      <4>2. \A n \in Frames : n \in Nat
        BY PartsAreFrames
      <4>3. x.sequence \in Int /\ y.sequence \in Int
        BY <4>1, <4>2
      <4>4. x.sequence = y.sequence
        BY <4>1, <4>3
      <4> QED BY <3>1, <4>4
    <3>3. CASE x.frames \in SingleSets(c)
      <4>1. PICK n \in Enveloped : x.frames = {n}
        BY <3>3 DEF LocalInv, PoolIsSorted
      <4>2. x.sequence = n
        BY <2>1, <4>1 DEF RowIsSound
      <4>3. n \in y.frames => y.sequence = n
        BY <3>1 DEF RowIsSound
      <4> QED BY <3>1, <4>1, <4>2, <4>3
    <3> QED BY <3>1, <3>2, <3>3 DEF Apart
  <2> QED BY <2>1, <2>3 DEF TurnsInv, FramesAreStoredOnce
<1> QED BY <1>1, <1>2

LEMMA BehindStep ==
  ASSUME TypeOK, LocalInv, TurnsInv, NEW c \in Connections, StepOf(c)
  PROVE  RowsAreBehind(c)'
<1>t. /\ \A S \in PooledSets(c) : S \in SUBSET Frames
      /\ highest[c] \in Int /\ buffer[c] \in SUBSET Frames /\ \A n \in Frames : n \in Nat
      /\ \A x \in rows : x.frames \in SUBSET Frames /\ x.sequence \in Frames
  BY PartsAreFrames DEF TypeOK
<1>1. CASE Attach(c)
  <2>1. /\ rows' = rows /\ buffer' = buffer /\ highest'[c] = Resume /\ pump[c] = "away"
        /\ PooledSets(c)' = PooledSets(c)
    BY <1>1, UnchangedPool, SamePool DEF Attach, pool, SameParts, TypeOK
  <2>2. PooledSets(c) = {} /\ buffer[c] = {}
    BY <2>1 DEF LocalInv, IdleIsEmpty, Attached
  <2>3. ASSUME NEW x \in rows, NEW n \in x.frames PROVE n <= highest'[c]
    <3>1. x.sequence <= Resume /\ Resume \in Int /\ n <= x.sequence
      BY ResumeType DEF LocalInv, RowIsSound
    <3> QED BY <1>t, <2>1, <3>1
  <2> QED BY <2>1, <2>2, <2>3 DEF RowsAreBehind
<1>2. CASE pump[c] \in Attached /\ rows' = rows
  <2>1. \A x \in rows : /\ \A n \in x.frames : n \in Enveloped \/ n <= highest[c]
                        /\ x.frames \intersect buffer[c] = {}
                        /\ \A S \in PooledSets(c) : Apart(S, x.frames)
    BY <1>2 DEF TurnsInv, RowsAreBehind
  <2>2. CASE /\ PooledSets(c)' \subseteq PooledSets(c) /\ buffer'[c] \subseteq buffer[c]
             /\ highest'[c] = highest[c]
    BY <1>2, <2>1, <2>2 DEF RowsAreBehind
  <2>3. ASSUME NEW S \in SUBSET Frames, Fill(c, S), highest[c] <= highest'[c],
               highest'[c] \in Int, \A n \in S : n \notin Enveloped /\ n > highest[c]
        PROVE  RowsAreBehind(c)'
    <3> DEFINE held == buffer[c] \union S
    <3>1. \A x \in rows : x.frames \intersect held = {}
      BY <1>t, <2>1, <2>3
    <3>2. \A x \in rows : \A n \in x.frames : n \in Enveloped \/ n <= highest'[c]
      BY <1>t, <2>1, <2>3
    <3>3. /\ buffer'[c] = held \/ buffer'[c] = {}
          /\ PooledSets(c)' \subseteq PooledSets(c) \union {held}
      BY <2>3 DEF Fill, SameParts
    <3>4. \A x \in rows : \A T \in PooledSets(c)' : Apart(T, x.frames)
      BY <2>1, <3>1, <3>3 DEF Apart
    <3> QED BY <1>2, <3>1, <3>2, <3>3, <3>4 DEF RowsAreBehind
  <2> QED BY <1>1, <2>2, <2>3, ActorPool DEF ActsOnPool
<1>3. CASE pump[c] \in Attached /\ rows' # rows
  <2>1. PICK x : /\ rows' = rows \union {x} /\ Store(c)
                 /\ x.frames \in PooledSets(c) \/ x.frames \in SingleSets(c)
    BY <1>3, NewRow
  <2>2. /\ PooledSets(c)' \subseteq PooledSets(c) /\ buffer'[c] = buffer[c]
        /\ highest'[c] = highest[c] /\ pump' = pump
    BY <2>1, StoreParts
  <2>3. \A y \in rows : /\ \A n \in y.frames : n \in Enveloped \/ n <= highest[c]
                        /\ y.frames \intersect buffer[c] = {}
                        /\ \A S \in PooledSets(c) : Apart(S, y.frames)
    BY <1>3 DEF TurnsInv, RowsAreBehind
  <2>4. /\ \A n \in x.frames : n \in Enveloped \/ n <= highest[c]
        /\ x.frames \intersect buffer[c] = {}
        /\ \A S \in PooledSets(c) : Apart(S, x.frames)
    <3>1. PoolIsSorted(c)
      BY DEF LocalInv
    <3>2. CASE x.frames \in PooledSets(c)
      BY <3>1, <3>2 DEF PoolIsSorted
    <3>3. CASE x.frames \in SingleSets(c)
      BY <3>1, <3>3 DEF PoolIsSorted, Apart
    <3> QED BY <2>1, <3>2, <3>3
  <2> QED BY <2>1, <2>2, <2>3, <2>4 DEF RowsAreBehind
<1>4. CASE pump[c] \notin Attached /\ ~Attach(c)
  <2>1. pump'[c] \notin Attached
    BY <1>4, FlyingIsAttached DEF StepOf, Top, Message, ReceiveChunk, ReceiveBad,
       ReceiveStale, ReceiveFrame, ReceiveSound, Receive, TimerFires, Leave, QuietSlice,
       Close, Crash, Attached
  <2> QED BY <2>1 DEF RowsAreBehind
<1> QED BY <1>1, <1>2, <1>3, <1>4

LEMMA TurnsStep ==
  ASSUME ~Overlap
  PROVE  TypeOK /\ TypeOK' /\ LocalInv /\ TurnsInv /\ [Next]_vars => TurnsInv'
<1> SUFFICES ASSUME TypeOK, TypeOK', LocalInv, TurnsInv, [Next]_vars PROVE TurnsInv'
  OBVIOUS
<1>1. ASSUME NEW d \in Connections, Untouched(d), rows' = rows PROVE RowsAreBehind(d)'
  <2>1. RowsAreBehind(d) /\ PooledSets(d)' = PooledSets(d)
    BY <1>1, SamePool DEF TurnsInv, Untouched, SameParts
  <2> QED BY <1>1, <2>1 DEF RowsAreBehind, Untouched
<1>2. ASSUME NEW c \in Connections, StepOf(c) PROVE TurnsInv'
  <2>1. Alone' /\ FramesAreStoredOnce' /\ RowsAreBehind(c)'
    BY <1>2, AloneStep, StoredOnceStep, BehindStep DEF TurnsInv
  <2>2. ASSUME NEW d \in Connections \ {c}, rows' # rows PROVE RowsAreBehind(d)'
    <3>1. pump[c] \in Attached /\ pump'[d] = pump[d]
      BY <1>2, <2>2, NewRow, OthersUntouched DEF Untouched
    <3>2. pump'[d] \notin Attached
      BY <3>1 DEF TurnsInv, Alone
    <3> QED BY <3>2 DEF RowsAreBehind
  <2> QED BY <1>1, <1>2, <2>1, <2>2, OthersUntouched DEF TurnsInv
<1>3. CASE rows' = rows /\ \A d \in Connections : Untouched(d)
  BY <1>1, <1>3 DEF TurnsInv, Alone, FramesAreStoredOnce, Untouched
<1> QED BY <1>2, <1>3, StepSplit

----------------------------------------------------------------------------
(* What becomes of the frames a connection accepts.                        *)

Reported(c) == {e[1] : e \in refused[c]}
Settled(c) == Covered \union Reported(c) \union buffer[c] \union Flying(c)

\* A flight that collides with a row finds all of its frames in it.
LEMMA DuplicateIsCovered ==
  ASSUME TypeOK, LocalInv, TurnsInv, NEW c \in Connections, NEW f \in flights[c],
         IsStored(Sequence(f))
  PROVE  f.frames \subseteq Covered
<1>1. PICK x \in rows : x.sequence = Sequence(f)
  BY DEF IsStored
<1>2. f \in FlightType
  BY PoolTyped DEF PoolType
<1>3. Sequence(f) \in f.frames /\ Sequence(f) \in x.frames
  BY <1>1, <1>2, SequenceType DEF LocalInv, RowIsSound
<1>4. f.frames \in PooledSets(c) \/ f.frames \in SingleSets(c)
  BY PoolParts
<1>5. CASE f.frames \in SingleSets(c)
  <2>1. PICK n \in Enveloped : f.frames = {n}
    BY <1>5 DEF LocalInv, PoolIsSorted
  <2> QED BY <1>3, <2>1 DEF Covered
<1>6. CASE f.frames \in PooledSets(c)
  <2>1. pump[c] \in Attached
    BY <1>6 DEF LocalInv, IdleIsEmpty
  <2>2. Apart(f.frames, x.frames)
    BY <1>6, <2>1 DEF TurnsInv, RowsAreBehind
  <2>3. f.frames = x.frames
    BY <1>3, <2>2 DEF Apart
  <2> QED BY <2>3 DEF Covered
<1> QED BY <1>4, <1>5, <1>6

LEMMA CoveredGrows ==
  ASSUME TypeOK, LocalInv, NEW c \in Connections, StepOf(c)
  PROVE  Covered \subseteq Covered'
<1>1. rows \subseteq rows'
  BY NewRow
<1> QED BY <1>1 DEF Covered

LEMMA FillKeeps ==
  ASSUME NEW c \in Connections, NEW S, Fill(c, S)
  PROVE  buffer[c] \union Flying(c) \union S \subseteq buffer'[c] \union Flying(c)'
BY DEF Fill, SameParts

\* As long as nothing fatal is reported, a step loses nothing it held, and
\* holds what it accepts.
LEMMA ActorKeeps ==
  ASSUME TypeOK, LocalInv, TurnsInv, NEW c \in Connections, StepOf(c), Healthy(c)'
  PROVE  Healthy(c) /\ Settled(c) \union (taken'[c] \ taken[c]) \subseteq Settled(c)'
<1> DEFINE Keeps == /\ Reported(c) \union buffer[c] \union Flying(c) \subseteq Settled(c)'
                    /\ taken'[c] = taken[c]
<1>t. /\ LoopIsOrderly(c) /\ buffer \in [Connections -> SUBSET Frames]
      /\ cause \in [Connections -> Causes] /\ fatal \in [Connections -> BOOLEAN]
      /\ taken \in [Connections -> SUBSET Frames]
  BY DEF TypeOK, LocalInv
<1>c. Covered \subseteq Covered'
  BY CoveredGrows
<1>k. ASSUME Keeps, Healthy(c)
      PROVE  Healthy(c) /\ Settled(c) \union (taken'[c] \ taken[c]) \subseteq Settled(c)'
  BY <1>c, <1>k DEF Settled
<1>s. ASSUME UNCHANGED <<flights, waiting>> PROVE Flying(c)' = Flying(c)
  BY <1>s, UnchangedPool, SamePool DEF SameParts
<1>1. CASE Attach(c)
  <2>1. Keeps
    BY <1>1, <1>s DEF Attach, pool, Settled, Reported
  <2>2. Healthy(c)
    BY <1>1 DEF Attach, pool, Healthy
  <2> QED BY <1>k, <2>1, <2>2
<1>2. CASE Top(c)
  <2>1. Keeps
    BY <1>2, <1>s DEF Top, pool, pooler, Settled, Reported
  <2>2. Healthy(c)
    BY <1>2, <1>t DEF Top, pool, pooler, Healthy
  <2> QED BY <1>k, <2>1, <2>2
<1>3. ASSUME NEW n \in Frames, ReceiveChunk(c, n)
      PROVE  Healthy(c) /\ Settled(c) \union (taken'[c] \ taken[c]) \subseteq Settled(c)'
  <2>1. /\ Flying(c)' = Flying(c) \union {n} /\ taken'[c] = taken[c] \union {n}
        /\ buffer' = buffer /\ refused' = refused
    BY <1>3, ChunkFlies DEF ReceiveChunk
  <2>2. Healthy(c)
    BY <1>3 DEF ReceiveChunk, ReceiveSound, Receive, Healthy
  <2> QED BY <1>c, <2>1, <2>2 DEF Settled, Reported
<1>4. ASSUME NEW n \in Frames, ReceiveBad(c, n) \/ ReceiveStale(c, n)
      PROVE  Keeps /\ Healthy(c)
  <2>1. refused[c] \subseteq refused'[c]
    BY <1>4, RefuseType DEF ReceiveBad, ReceiveStale, Codes
  <2>2. Flying(c)' = Flying(c) /\ buffer' = buffer /\ taken' = taken
    BY <1>4, <1>s DEF ReceiveBad, ReceiveStale
  <2>3. Healthy(c)
    BY <1>4 DEF ReceiveBad, ReceiveStale, ReceiveSound, Receive, Healthy
  <2>4. Reported(c) \subseteq Reported(c)'
    BY <2>1 DEF Reported
  <2> QED BY <2>2, <2>3, <2>4 DEF Settled
<1>5. ASSUME NEW n \in Frames, ReceiveFrame(c, n)
      PROVE  Healthy(c) /\ Settled(c) \union (taken'[c] \ taken[c]) \subseteq Settled(c)'
  <2>1. Fill(c, {n}) /\ taken'[c] = taken[c] \union {n} /\ refused' = refused
    BY <1>5, FrameFills DEF ReceiveFrame
  <2>2. Healthy(c)
    BY <1>5 DEF ReceiveFrame, ReceiveSound, Receive, Healthy
  <2>3. Reported(c)' = Reported(c)
    BY <2>1 DEF Reported
  <2>4. buffer[c] \union Flying(c) \union {n} \subseteq buffer'[c] \union Flying(c)'
    BY <2>1, FillKeeps
  <2> QED BY <1>c, <2>1, <2>2, <2>3, <2>4 DEF Settled
<1>6. CASE TimerFires(c)
  <2>1. Fill(c, {}) /\ refused' = refused /\ taken' = taken
    BY <1>6, FlushFills DEF TimerFires
  <2>2. Healthy(c)
    BY <1>6 DEF TimerFires, Healthy
  <2>3. Keeps
    BY <2>1, FillKeeps DEF Settled, Reported
  <2> QED BY <1>k, <2>2, <2>3
<1>7. CASE Leave(c) \/ QuietSlice(c)
  <2>1. /\ Fill(c, {}) \/ (buffer' = buffer /\ Flying(c)' = Flying(c))
        /\ refused' = refused /\ taken' = taken
    BY <1>7, <1>s, FlushFills DEF Leave, QuietSlice
  <2>2. pump[c] = "receive" /\ fatal' = fatal /\ failed' = failed
    BY <1>7 DEF Leave, QuietSlice
  <2>3. Healthy(c)
    BY <1>t, <2>2 DEF LoopIsOrderly, Healthy
  <2>4. Keeps
    BY <2>1, FillKeeps DEF Settled, Reported
  <2> QED BY <1>k, <2>3, <2>4
<1>8. CASE Close(c)
  <2>1. /\ Flying(c)' = Flying(c) /\ fatal' = fatal /\ failed' = failed
        /\ refused' = refused /\ taken' = taken /\ pump[c] = "drain"
    BY <1>8, <1>s DEF Close, pool
  <2>2. \/ cause'[c] = Verdict(c)
        \/ Verdict(c) = "finish"
    BY <1>8, <1>t DEF Close
  <2>3. Verdict(c) = cause[c] \/ Verdict(c) \in {"ended", "failed"}
    BY DEF Verdict
  <2>4. Healthy(c)
    BY <2>1, <2>2, <2>3 DEF Healthy
  <2>5. buffer[c] = {}
    BY <1>t, <2>1, <2>4 DEF LoopIsOrderly, Healthy
  <2>6. Keeps
    BY <2>1, <2>5 DEF Settled, Reported
  <2> QED BY <1>k, <2>4, <2>6
<1>9. ASSUME NEW f \in flights[c], StoreLands(c, f) \/ StoreIsDuplicate(c, f)
      PROVE  Keeps /\ Healthy(c)
  <2>1. Flying(c) \subseteq Flying(c)' \union f.frames
    BY <1>9, LandEffect, LandedParts DEF StoreLands, StoreIsDuplicate
  <2>2. f.frames \subseteq Covered'
    <3>1. CASE StoreLands(c, f)
      <4>1. PICK x \in rows' : x.frames = f.frames
        <5>1. [sequence |-> Sequence(f), frames |-> f.frames, intact |-> TRUE] \in rows'
          BY <3>1 DEF StoreLands
        <5> QED BY <5>1
      <4> QED BY <4>1 DEF Covered
    <3>2. CASE StoreIsDuplicate(c, f)
      BY <1>c, <3>2, DuplicateIsCovered DEF StoreIsDuplicate
    <3> QED BY <1>9, <3>1, <3>2
  <2>3. /\ buffer' = buffer /\ taken' = taken /\ refused' = refused
        /\ fatal' = fatal /\ failed' = failed /\ cause' = cause
    BY <1>9 DEF StoreLands, StoreIsDuplicate, pooler
  <2>4. Healthy(c)
    BY <2>3 DEF Healthy
  <2> QED BY <2>1, <2>2, <2>3, <2>4 DEF Settled, Reported
<1>10. ASSUME NEW f \in flights[c], StoreIsLate(c, f) PROVE FALSE
  <2>1. fatal'[c]
    BY <1>t, <1>10 DEF StoreIsLate
  <2> QED BY <2>1 DEF Healthy
<1>11. ASSUME NEW f \in flights[c], StoreFails(c, f) PROVE Keeps /\ Healthy(c)
  <2>1. Attempted(c, f) /\ buffer' = buffer /\ taken' = taken /\ cause' = cause /\ fatal' = fatal
    BY <1>11 DEF StoreFails
  <2>2. ~failed'[c]
    BY DEF Healthy
  <2>3. /\ refused[c] \subseteq refused'[c] /\ failed' = failed
        /\ Flying(c) \subseteq Flying(c)' \union {e[1] : e \in refused'[c]}
    BY <2>1, <2>2, AttemptedParts
  <2>4. Healthy(c)
    BY <2>1, <2>3 DEF Healthy
  <2>5. Reported(c) \subseteq Reported(c)' /\ Flying(c) \subseteq Flying(c)' \union Reported(c)'
    BY <2>3 DEF Reported
  <2> QED BY <2>1, <2>4, <2>5 DEF Settled
<1>12. CASE Crash(c)
  <2>1. cause'[c] = "crash"
    BY <1>t, <1>12 DEF Crash
  <2> QED BY <2>1 DEF Healthy
<1> QED BY <1>k, <1>1, <1>2, <1>3, <1>4, <1>5, <1>6, <1>7, <1>8, <1>9, <1>10, <1>11, <1>12
     DEF StepOf, Message, Store

LEMMA LossStep ==
  TypeOK /\ LocalInv /\ TurnsInv /\ NoFrameIsLost /\ [Next]_vars => NoFrameIsLost'
<1> SUFFICES ASSUME TypeOK, LocalInv, TurnsInv, NoFrameIsLost, [Next]_vars,
                    NEW d \in Connections, Healthy(d)'
             PROVE  taken'[d] \subseteq Settled(d)'
  BY DEF NoFrameIsLost, Settled, Reported, Flying
<1>1. Healthy(d) => taken[d] \subseteq Settled(d)
  BY DEF NoFrameIsLost, Settled, Reported, Flying
<1>2. CASE StepOf(d)
  BY <1>1, <1>2, ActorKeeps
<1>3. ASSUME Untouched(d), Covered \subseteq Covered' PROVE taken'[d] \subseteq Settled(d)'
  <2>1. Flying(d)' = Flying(d)
    BY <1>3, SamePool DEF Untouched, SameParts
  <2>2. Healthy(d)
    BY <1>3 DEF Untouched, Healthy
  <2>3. Settled(d) \subseteq Settled(d)'
    BY <1>3, <2>1 DEF Settled, Reported, Untouched
  <2> QED BY <1>1, <1>3, <2>2, <2>3 DEF Untouched
<1>4. ASSUME NEW c \in Connections \ {d}, StepOf(c) PROVE taken'[d] \subseteq Settled(d)'
  BY <1>3, <1>4, CoveredGrows, OthersUntouched
<1>5. CASE rows' = rows /\ \A e \in Connections : Untouched(e)
  BY <1>3, <1>5 DEF Covered
<1> QED BY <1>2, <1>4, <1>5, StepSplit

----------------------------------------------------------------------------
(* What the acks promise.                                                  *)

\* A step tells its client of nothing new but what is stored.
LEMMA ActorTells ==
  ASSUME TypeOK, LocalInv, TurnsInv, NEW c \in Connections, StepOf(c), ~Attach(c)
  PROVE  base' = base /\ Told(c)' \subseteq Told(c) \union Covered'
<1>t. /\ dups \in [Connections -> SUBSET Frames] /\ \A n \in Frames : n \in Nat
      /\ through \in [Connections -> Frames \union {-1}]
  BY PartsAreFrames DEF TypeOK
<1>s. ASSUME UNCHANGED tracker PROVE base' = base /\ Told(c)' = Told(c)
  BY <1>s DEF tracker, Told
<1>1. CASE Top(c) \/ TimerFires(c) \/ Leave(c) \/ QuietSlice(c) \/ Close(c) \/ Crash(c)
  BY <1>1, <1>s DEF Top, TimerFires, Leave, QuietSlice, Close, Crash
<1>2. ASSUME NEW n \in Frames, ReceiveChunk(c, n) \/ ReceiveBad(c, n) \/ ReceiveFrame(c, n)
      PROVE  base' = base /\ Told(c)' = Told(c)
  BY <1>2, <1>s DEF ReceiveChunk, ReceiveBad, ReceiveFrame
<1>3. ASSUME NEW S \in SUBSET Frames, NoteStored(c, S) \/ NoteDuplicate(c, S)
      PROVE  base' = base /\ Told(c)' \subseteq Told(c) \union S
  <2>1. /\ base' = base
        /\ (0..through'[c]) \union above'[c] \subseteq (0..through[c]) \union above[c] \union S
    BY <1>3, NoteEffect DEF NoteStored, NoteDuplicate
  <2>2. dups'[c] \subseteq dups[c] \union S
    BY <1>3, <1>t DEF NoteStored, NoteDuplicate
  <2> QED BY <2>1, <2>2 DEF Told
<1>4. ASSUME NEW n \in Frames, ReceiveStale(c, n)
      PROVE  base' = base /\ Told(c)' \subseteq Told(c)
  <2>1. CASE n <= through[c]
    <3>1. n \in 0..through[c]
      BY <1>t, <2>1
    <3>2. NoteDuplicate(c, {n})
      BY <1>4, <2>1 DEF ReceiveStale
    <3>3. base' = base /\ Told(c)' \subseteq Told(c) \union {n}
      BY <1>3, <3>2
    <3> QED BY <3>1, <3>3 DEF Told
  <2>2. CASE ~(n <= through[c])
    BY <1>4, <1>s, <2>2 DEF ReceiveStale
  <2> QED BY <2>1, <2>2
<1>5. ASSUME NEW f \in flights[c], StoreLands(c, f) \/ StoreIsDuplicate(c, f)
      PROVE  base' = base /\ Told(c)' \subseteq Told(c) \union Covered'
  <2>1. f \in FlightType
    BY PoolTyped DEF PoolType
  <2>2. f.frames \in SUBSET Frames
    BY <2>1, SequenceType
  <2>3. base' = base /\ Told(c)' \subseteq Told(c) \union f.frames
    BY <1>3, <1>5, <2>2 DEF StoreLands, StoreIsDuplicate
  <2>4. f.frames \subseteq Covered'
    <3>1. CASE StoreLands(c, f)
      <4>1. [sequence |-> Sequence(f), frames |-> f.frames, intact |-> TRUE] \in rows'
        BY <3>1 DEF StoreLands
      <4> QED BY <4>1 DEF Covered
    <3>2. CASE StoreIsDuplicate(c, f)
      BY <3>2, DuplicateIsCovered, CoveredGrows DEF StoreIsDuplicate
    <3> QED BY <1>5, <3>1, <3>2
  <2> QED BY <2>3, <2>4
<1>6. ASSUME NEW f \in flights[c], StoreIsLate(c, f) \/ StoreFails(c, f)
      PROVE  base' = base /\ Told(c)' = Told(c)
  BY <1>6, <1>s DEF StoreIsLate, StoreFails
<1> QED BY <1>1, <1>2, <1>4, <1>5, <1>6 DEF StepOf, Message, Store

LEMMA ToldStep ==
  TypeOK /\ LocalInv /\ TurnsInv /\ ToldIsStored /\ [Next]_vars => ToldIsStored'
<1> SUFFICES ASSUME TypeOK, LocalInv, TurnsInv, ToldIsStored, [Next]_vars,
                    NEW d \in Connections, NEW n \in Told(d)', n > base'[d]
             PROVE  n \in Covered'
  BY DEF ToldIsStored
<1>1. ASSUME Told(d)' \subseteq Told(d) \union Covered', base'[d] = base[d],
             Covered \subseteq Covered'
      PROVE  n \in Covered'
  BY <1>1 DEF ToldIsStored
<1>2. CASE Attach(d)
  <2>1. pump[d] = "away" /\ above' = above /\ dups' = dups
        /\ through'[d] = Resume /\ base'[d] = Resume
    BY <1>2 DEF Attach, TypeOK
  <2>2. above[d] = {} /\ dups[d] = {}
    BY <2>1 DEF LocalInv, LoopIsOrderly
  <2>3. n \in 0..Resume
    BY <2>1, <2>2 DEF Told
  <2> QED BY <2>1, <2>3, ResumeType
<1>3. ASSUME StepOf(d), ~Attach(d) PROVE n \in Covered'
  BY <1>1, <1>3, ActorTells, CoveredGrows
<1>4. ASSUME NEW c \in Connections \ {d}, StepOf(c) PROVE n \in Covered'
  <2>1. Untouched(d) /\ Covered \subseteq Covered'
    BY <1>4, OthersUntouched, CoveredGrows
  <2> QED BY <1>1, <2>1 DEF Untouched, Told
<1>5. CASE rows' = rows /\ \A e \in Connections : Untouched(e)
  BY <1>1, <1>5 DEF Covered, Untouched, Told
<1> QED BY <1>2, <1>3, <1>4, <1>5, StepSplit

\* A row's object is lost only with a reply.
LEMMA RepliesStep == TypeOK /\ RepliesInv /\ [Next]_vars => RepliesInv'
<1> SUFFICES ASSUME TypeOK, RepliesInv, [Next]_vars PROVE RepliesInv'
  OBVIOUS
<1>t. budget \in BudgetType
  BY DEF TypeOK, BudgetType
<1>1. ASSUME NEW c \in Connections, Store(c) PROVE RepliesInv'
  <2>1. PICK f \in flights[c] : \/ StoreLands(c, f) \/ StoreIsDuplicate(c, f)
                                \/ StoreIsLate(c, f) \/ StoreFails(c, f)
    BY <1>1 DEF Store
  <2>2. CASE StoreFails(c, f)
    <3>1. budget' = [budget EXCEPT !.fault = @ - 1] /\ rows' = rows
      BY <2>2 DEF StoreFails, RepliesInv
    <3>2. budget'.lost = budget.lost
      BY <1>t, <3>1 DEF BudgetType
    <3> QED BY <3>1, <3>2 DEF RepliesInv
  <2>3. CASE StoreLands(c, f)
    BY <2>3 DEF StoreLands, RepliesInv
  <2>4. CASE StoreIsDuplicate(c, f) \/ StoreIsLate(c, f)
    BY <2>4 DEF StoreIsDuplicate, StoreIsLate, RepliesInv
  <2> QED BY <2>1, <2>2, <2>3, <2>4
<1>2. ASSUME NEW c \in Connections, StepOf(c), ~Store(c) PROVE RepliesInv'
  <2>1. rows' = rows
    BY <1>2 DEF StepOf, Attach, Top, Message, ReceiveChunk, ReceiveBad, ReceiveStale,
       ReceiveFrame, ReceiveSound, Receive, TimerFires, Leave, QuietSlice, Close, Crash
  <2>2. CASE Message(c)
    <3>1. \/ budget' = [budget EXCEPT !.send = @ - 1]
          \/ budget' = [budget EXCEPT !.send = @ - 1, !.bad = @ - 1]
      BY <2>2 DEF Message, ReceiveChunk, ReceiveBad, ReceiveStale, ReceiveFrame, ReceiveSound
    <3>2. budget'.lost = budget.lost
      BY <1>t, <3>1 DEF BudgetType
    <3> QED BY <2>1, <3>2 DEF RepliesInv
  <2>3. CASE Close(c) \/ Crash(c)
    <3>1. \/ budget' = budget \/ budget' = [budget EXCEPT !.fault = @ - 1]
          \/ budget' = [budget EXCEPT !.crash = @ - 1]
      BY <2>3 DEF Close, Crash
    <3>2. budget'.lost = budget.lost
      BY <1>t, <3>1 DEF BudgetType
    <3> QED BY <2>1, <3>2 DEF RepliesInv
  <2>4. CASE Attach(c) \/ Top(c) \/ TimerFires(c) \/ Leave(c) \/ QuietSlice(c)
    <3>1. budget' = budget
      BY <2>4 DEF Attach, Top, TimerFires, Leave, QuietSlice
    <3> QED BY <2>1, <3>1 DEF RepliesInv
  <2> QED BY <1>2, <2>2, <2>3, <2>4 DEF StepOf
<1>3. CASE rows' = rows /\ budget' = budget
  BY <1>3 DEF RepliesInv
<1> QED BY <1>1, <1>2, <1>3, StepSplit

----------------------------------------------------------------------------
(* The theorems.                                                           *)

LEMMA InitInv == Init => LocalInv /\ TurnsInv /\ NoFrameIsLost /\ ToldIsStored
<1> SUFFICES ASSUME Init PROVE LocalInv /\ TurnsInv /\ NoFrameIsLost /\ ToldIsStored
  OBVIOUS
<1>1. ASSUME NEW c \in Connections
      PROVE  /\ pump[c] = "away" /\ cause[c] = "none" /\ above[c] = {} /\ dups[c] = {}
             /\ buffer[c] = {} /\ flights[c] = {} /\ waiting[c] = <<>> /\ taken[c] = {}
             /\ through[c] = -1
  BY DEF Init
<1>2. ASSUME NEW c \in Connections PROVE PooledSets(c) = {} /\ SingleSets(c) = {}
  <2>1. InFlight(c) = {}
    BY <1>1 DEF InFlight, ToSet
  <2> QED BY <2>1 DEF PooledSets, SingleSets
<1>3. rows = {}
  BY DEF Init
<1>4. LocalInv
  BY <1>1, <1>2, <1>3 DEF LocalInv, IdleIsEmpty, LoopIsOrderly, PoolIsSorted, Attached
<1>5. TurnsInv
  BY <1>1, <1>3 DEF TurnsInv, Alone, RowsAreBehind, FramesAreStoredOnce, Attached
<1>6. NoFrameIsLost
  BY <1>1 DEF NoFrameIsLost
<1>7. ToldIsStored
  BY <1>1 DEF ToldIsStored, Told
<1> QED BY <1>4, <1>5, <1>6, <1>7

\* Whatever overlaps: a handler that is not running has nothing under way,
\* pooled flights are apart and in order, and rows end with their sequence.
THEOREM LocalHolds == Spec => []LocalInv
<1> QED BY InitInv, LocalStep, TypeCorrect, PTL DEF Spec

\* Connections that take turns never store a frame twice, for any number of
\* them, of frames, slots, failures and lost replies.
THEOREM StoredOnce ==
  ASSUME ~Overlap
  PROVE  Spec => []FramesAreStoredOnce
<1>1. TypeOK /\ TypeOK' /\ LocalInv /\ TurnsInv /\ [Next]_vars => TurnsInv'
  BY TurnsStep
<1>2. TurnsInv => FramesAreStoredOnce
  BY DEF TurnsInv
<1> QED BY <1>1, <1>2, InitInv, LocalHolds, TypeCorrect, PTL DEF Spec

\* Nor do they drop an accepted frame without reporting something fatal.
THEOREM NothingIsLost ==
  ASSUME ~Overlap
  PROVE  Spec => []NoFrameIsLost
<1>1. TypeOK /\ TypeOK' /\ LocalInv /\ TurnsInv /\ [Next]_vars => TurnsInv'
  BY TurnsStep
<1> QED BY <1>1, InitInv, LossStep, LocalHolds, TypeCorrect, PTL DEF Spec

\* And while no reply is lost, what they acknowledge above their resume point
\* is stored with its object.
THEOREM AcksAreKept ==
  ASSUME ~Overlap, LostReplies = 0
  PROVE  Spec => []AcksAboveBaseAreDurable
<1>1. TypeOK /\ TypeOK' /\ LocalInv /\ TurnsInv /\ [Next]_vars => TurnsInv'
  BY TurnsStep
<1>2. Init => RepliesInv
  BY DEF Init, RepliesInv
<1>3. ToldIsStored /\ RepliesInv => AcksAboveBaseAreDurable
  BY DEF ToldIsStored, RepliesInv, AcksAboveBaseAreDurable, Covered, Durable
<1> QED BY <1>1, <1>2, <1>3, InitInv, ToldStep, RepliesStep, LocalHolds, TypeCorrect, PTL
     DEF Spec

=============================================================================
