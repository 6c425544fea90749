----------------------- MODULE SpeakerCurationProofs -----------------------
(***************************************************************************)
(* Theorems about SpeakerCuration, for any sessions, voices and bounds:    *)
(* TypeCorrect, PinsAreHonoured (a rebuild gives a pinned print to whom it *)
(* is pinned to), IdentitiesAreKept (clusters become different speakers,   *)
(* names last) and LabelsAreCarried (what the user said survives reruns).  *)
(*                                                                         *)
(* The loops of _reconcile and apply_labels are functions defined by       *)
(* recursion on a number; UpTo is the induction that reads them.           *)
(***************************************************************************)
EXTENDS SpeakerCuration, FiniteSetTheorems, SequenceTheorems, TLAPS

----------------------------------------------------------------------------
(* Numbers, and functions defined by recursion on them.                    *)

LEMMA LeastNumber ==
  ASSUME NEW S \in SUBSET Nat, S # {}
  PROVE  \E x \in S : \A y \in S : x <= y
<1> DEFINE R == OpToRel(<, Nat)
<1>1. IsWellFoundedOn(R, Nat)
  BY NatLessThanWellFounded
<1>2. PICK x \in S : \A y \in S : ~ (<<y, x>> \in R)
  <2> HIDE DEF R
  <2> QED BY <1>1, WFMin
<1>3. \A y \in S : ~(y < x)
  BY <1>2 DEF OpToRel
<1> QED BY <1>3

LEMMA MinIsLeast ==
  ASSUME NEW S \in SUBSET Nat, S # {}
  PROVE  Min(S) \in S /\ \A y \in S : Min(S) <= y
BY LeastNumber DEF Min

LEMMA MinOfOne ==
  ASSUME NEW x \in Nat
  PROVE  Min({x}) = x
BY MinIsLeast

\* What holds of 0 and of every successor holds up to a bound: S is the set of the
\* numbers that have the property.
LEMMA UpTo ==
  ASSUME NEW b \in Nat, NEW S,
         0 \in S, \A n \in 1..b : n - 1 \in S => n \in S
  PROVE  0..b \subseteq S
<1> DEFINE Bad == (0..b) \ S
<1>1. SUFFICES ASSUME Bad # {} PROVE FALSE
  OBVIOUS
<1>2. Bad \in SUBSET Nat
  OBVIOUS
<1>3. PICK m \in Bad : \A k \in Bad : m <= k
  <2> HIDE DEF Bad
  <2> QED BY <1>1, <1>2, LeastNumber
<1>4. m \in 0..b /\ m \notin S /\ m # 0
  BY <1>3
<1>5. m \in 1..b /\ m - 1 \in 0..b /\ ~(m <= m - 1)
  BY <1>4
<1>6. m - 1 \in S
  BY <1>3, <1>5
<1> QED BY <1>4, <1>5, <1>6

\* The recursion of Reconciling has a solution.
LEMMA ReconcilingSteps ==
  ASSUME Len(view.order) \in Nat
  PROVE  /\ Reconciling[0] = Unplaced
         /\ \A n \in 1..Len(view.order) :
               Reconciling[n] = Place(Reconciling[n - 1], view.order[n])
<1> DEFINE last == Len(view.order)
           Up(m) == \E g : g = [n \in 0..m |-> IF n = 0 THEN Unplaced
                                               ELSE Place(g[n - 1], view.order[n])]
           Good == {m \in 0..last : Up(m)}
<1>1. 0 \in Good
  <2> DEFINE h == [n \in 0..0 |-> Unplaced]
  <2>1. h = [n \in 0..0 |-> IF n = 0 THEN Unplaced ELSE Place(h[n - 1], view.order[n])]
    OBVIOUS
  <2> HIDE DEF h
  <2>2. Up(0)
    BY <2>1
  <2> QED BY <2>2
<1>2. ASSUME NEW m \in 1..last, m - 1 \in Good PROVE m \in Good
  <2>1. PICK g : g = [n \in 0..m - 1 |-> IF n = 0 THEN Unplaced
                                         ELSE Place(g[n - 1], view.order[n])]
    BY <1>2
  <2> DEFINE h == [n \in 0..m |-> IF n = m THEN Place(g[m - 1], view.order[m]) ELSE g[n]]
  <2>2. ASSUME NEW n \in 0..m
        PROVE  h[n] = IF n = 0 THEN Unplaced ELSE Place(h[n - 1], view.order[n])
    BY <2>1
  <2>3. h = [n \in 0..m |-> IF n = 0 THEN Unplaced ELSE Place(h[n - 1], view.order[n])]
    <3>1. h = [n \in 0..m |-> h[n]]
      OBVIOUS
    <3> HIDE DEF h
    <3> QED BY <2>2, <3>1
  <2> HIDE DEF h
  <2>4. Up(m)
    BY <2>3
  <2>5. m \in 0..last
    OBVIOUS
  <2> QED BY <2>4, <2>5
<1>3. Up(last)
  <2> HIDE DEF Good
  <2>1. 0..last \subseteq Good
    BY <1>1, <1>2, UpTo
  <2> QED BY <2>1 DEF Good
<1>4. Reconciling = [n \in 0..last |-> IF n = 0 THEN Unplaced
                                       ELSE Place(Reconciling[n - 1], view.order[n])]
  BY <1>3 DEF Reconciling
<1> QED BY <1>4

\* And so has that of Carrying.
LEMMA CarryingSteps ==
  ASSUME NumLabels \in Nat, NEW s, NEW fresh
  PROVE  Carrying(s, fresh) = [l \in 0..NumLabels |->
            IF l = 0 THEN [pins |-> pins, prints |-> fresh]
            ELSE Carry(s, fresh, Carrying(s, fresh)[l - 1], l)]
<1> DEFINE First == [pins |-> pins, prints |-> fresh]
           Up(m) == \E g : g = [l \in 0..m |-> IF l = 0 THEN First ELSE Carry(s, fresh, g[l - 1], l)]
           Good == {m \in 0..NumLabels : Up(m)}
<1> HIDE DEF First
<1>1. 0 \in Good
  <2> DEFINE h == [l \in 0..0 |-> First]
  <2>1. h = [l \in 0..0 |-> IF l = 0 THEN First ELSE Carry(s, fresh, h[l - 1], l)]
    OBVIOUS
  <2> HIDE DEF h
  <2>2. Up(0)
    BY <2>1
  <2> QED BY <2>2
<1>2. ASSUME NEW m \in 1..NumLabels, m - 1 \in Good PROVE m \in Good
  <2>1. PICK g : g = [l \in 0..m - 1 |-> IF l = 0 THEN First ELSE Carry(s, fresh, g[l - 1], l)]
    BY <1>2
  <2> DEFINE h == [l \in 0..m |-> IF l = m THEN Carry(s, fresh, g[m - 1], m) ELSE g[l]]
  <2>2. ASSUME NEW l \in 0..m
        PROVE  h[l] = IF l = 0 THEN First ELSE Carry(s, fresh, h[l - 1], l)
    BY <2>1
  <2>3. h = [l \in 0..m |-> IF l = 0 THEN First ELSE Carry(s, fresh, h[l - 1], l)]
    <3>1. h = [l \in 0..m |-> h[l]]
      OBVIOUS
    <3> HIDE DEF h
    <3> QED BY <2>2, <3>1
  <2> HIDE DEF h
  <2>4. Up(m)
    BY <2>3
  <2>5. m \in 0..NumLabels
    OBVIOUS
  <2> QED BY <2>4, <2>5
<1>3. Up(NumLabels)
  <2> HIDE DEF Good
  <2>1. 0..NumLabels \subseteq Good
    BY <1>1, <1>2, UpTo
  <2> QED BY <2>1 DEF Good
<1>4. Carrying(s, fresh) = [l \in 0..NumLabels |->
                              IF l = 0 THEN First ELSE Carry(s, fresh, Carrying(s, fresh)[l - 1], l)]
  BY <1>3 DEF Carrying, First
<1> QED BY <1>4 DEF First

----------------------------------------------------------------------------
(* Labels, addresses and ids.                                              *)

LEMMA Domains ==
  /\ NumLabels \in Nat /\ Labels \subseteq Nat
  /\ Ids \subseteq Nat /\ None \notin Ids /\ Nobody \notin Voices
  /\ IsFiniteSet(Ids) /\ IsFiniteSet(Addresses)
<1>1. NumLabels \in Nat
  BY SpeakerCurationAssumption
<1>2. Labels \subseteq Nat /\ IsFiniteSet(Labels)
  BY <1>1, FS_Interval DEF Labels
<1>3. NumIds \in Nat /\ Ids \subseteq Nat /\ None \notin Ids /\ Nobody \notin Voices
  BY SpeakerCurationAssumption DEF Ids, None, Nobody
<1>4. IsFiniteSet(Ids)
  BY <1>3, FS_Interval DEF Ids
<1>5. IsFiniteSet(Addresses)
  BY <1>2, FS_Product, SpeakerCurationAssumption DEF Addresses
<1> QED BY <1>1, <1>2, <1>3, <1>4, <1>5

LEMMA FreshIsUnused ==
  ASSUME NEW taken \in SUBSET Ids
  PROVE  Ids \ taken # {} => Min(Ids \ taken) \in Ids \ taken
BY Domains, MinIsLeast

LEMMA FreshIsNew ==
  ASSUME created \subseteq Ids
  PROVE  Fresh \subseteq Ids \ created
BY FreshIsUnused DEF Fresh

LEMMA PrintedIsHeard ==
  ASSUME TypeOK
  PROVE  Printed = {a \in Addresses : prints[a].hears # Nobody}
BY DEF TypeOK, Printed, NoPrint

LEMMA MembersAreHeard ==
  ASSUME TypeOK, NEW id \in Ids
  PROVE  Members(id) = {a \in Addresses : prints[a].owner = id}
<1>1. \A a \in Addresses : prints[a].owner = id => prints[a].hears # Nobody
  BY Domains DEF TypeOK
<1> QED BY <1>1, PrintedIsHeard DEF Members

----------------------------------------------------------------------------
(* Who the clusters of a rebuild become.                                   *)

\* The speaker most members came from is one of those that were asked for.
LEMMA MostIsOneOf ==
  ASSUME NEW C \in SUBSET Addresses, NEW ids \in SUBSET Ids
  PROVE  MostOf(C, ids) \in ids \union {None}
<1> DEFINE From(id) == {a \in C : view.prints[a].owner = id}
           Count(id) == Cardinality(From(id))
           known == {id \in ids : Count(id) > 0}
           wanted == IF known \intersect named # {} THEN known \intersect named ELSE known
           best == {id \in wanted : \A other \in wanted : Count(other) <= Count(id)}
<1>1. wanted \subseteq ids /\ best \subseteq Nat
  BY Domains
<1>2. ASSUME wanted # {} PROVE best # {}
  <2>1. IsFiniteSet(C) /\ Cardinality(C) \in Nat
    BY Domains, FS_Subset, FS_CardinalityType
  <2>2. \A id : Count(id) \in Nat /\ Count(id) <= Cardinality(C)
    <3> TAKE id
    <3>1. From(id) \in SUBSET C
      OBVIOUS
    <3> HIDE DEF From
    <3>2. /\ Cardinality(From(id)) <= Cardinality(C)
          /\ IsFiniteSet(From(id)) /\ Cardinality(From(id)) \in Nat
      BY <2>1, <3>1, FS_Subset, FS_CardinalityType
    <3> QED BY <3>2
  <2> HIDE DEF From, Count, wanted
  <2> DEFINE Rest(id) == Cardinality(C) - Count(id)
             S == {Rest(id) : id \in wanted}
  <2>3. S \in SUBSET Nat /\ S # {}
    BY <1>2, <2>1, <2>2
  <2>4. PICK id \in wanted : \A y \in S : Rest(id) <= y
    <3> HIDE DEF Rest
    <3>1. PICK x \in S : \A y \in S : x <= y
      <4> HIDE DEF S
      <4> QED BY <2>3, LeastNumber
    <3> QED BY <3>1
  <2>5. \A other \in wanted : Count(other) <= Count(id)
    <3> TAKE other \in wanted
    <3>1. Rest(id) <= Rest(other)
      BY <2>4
    <3> QED BY <2>1, <2>2, <3>1
  <2> QED BY <2>4, <2>5
<1>3. MostOf(C, ids) = IF wanted = {} THEN None ELSE Min(best)
  BY DEF MostOf
<1> HIDE DEF best, wanted
<1>4. wanted # {} => Min(best) \in best
  BY <1>1, <1>2, MinIsLeast
<1> QED BY <1>1, <1>3, <1>4 DEF best

\* The cases of Who: a cluster with one pin is whoever it is pinned to, one without
\* is nobody's match twice, and whoever is not there is new.
LEMMA WhoItIs ==
  ASSUME TypeOK, NEW acc, acc.created \subseteq Ids, Ids \ acc.created # {},
         NEW C \in SUBSET Addresses
  PROVE  /\ PinnedIn(C) = {} =>
                Who(acc, C) \in (speakers \ acc.claimed) \union (Ids \ acc.created)
         /\ \A p \in Nat : PinnedIn(C) = {p} =>
                Who(acc, C) \in (IF p \in speakers THEN {p} ELSE Ids \ acc.created)
<1>1. Min(Ids \ acc.created) \in Ids \ acc.created
  BY FreshIsUnused
<1>2. speakers \subseteq Ids
  BY DEF TypeOK
<1>3. ASSUME PinnedIn(C) = {}
      PROVE  Who(acc, C) \in (speakers \ acc.claimed) \union (Ids \ acc.created)
  <2>1. Match(C, acc.claimed) \in (speakers \ acc.claimed) \union {None}
    BY <1>2, MostIsOneOf DEF Match
  <2> QED BY <1>1, <1>2, <1>3, <2>1, Domains DEF Who, Claim
<1>4. ASSUME NEW p \in Nat, PinnedIn(C) = {p}
      PROVE  Who(acc, C) \in (IF p \in speakers THEN {p} ELSE Ids \ acc.created)
  BY <1>1, <1>4, MinOfOne DEF Who, Claim
<1> QED BY <1>3, <1>4

\* What Reconciling has done after n clusters.
Placed(n) ==
    LET acc == Reconciling[n]
    IN  /\ created \subseteq acc.created /\ acc.created \subseteq Ids
        /\ Cardinality(Ids \ acc.created) >= Len(view.order) - n
        /\ acc.claimed \subseteq acc.created
        /\ acc.claimed \subseteq speakers \union (acc.created \ created)
        /\ acc.owners \in [Addresses -> acc.claimed \union {None}]

WhoIs(n) == Who(Reconciling[n - 1], view.order[n])

\* And that the clusters so far have their speakers.
Given(n) ==
    \A i \in 1..n : /\ WhoIs(i) \in Reconciling[n].claimed
                    /\ \A a \in view.order[i] : Reconciling[n].owners[a] = WhoIs(i)

\* Whom a cluster claims nobody has claimed, save that it may be pinned to them.
NewlyClaimed(n) ==
    LET acc == Reconciling[n - 1]
        id == WhoIs(n)
    IN  \/ id \in (speakers \ acc.claimed) \union (Ids \ acc.created)
        \/ id \in PinnedIn(view.order[n]) \intersect speakers

\* One more cluster.
LEMMA PlacedNext ==
  ASSUME TypeOK, ViewInv, view.open, Cardinality(Ids \ created) >= Len(view.order),
         NEW n \in 1..Len(view.order), Placed(n - 1)
  PROVE  /\ Reconciling[n - 1].created \subseteq Ids /\ Ids \ Reconciling[n - 1].created # {}
         /\ view.order[n] \in SUBSET Addresses
         /\ \A p \in PinnedIn(view.order[n]) : p \in Ids /\ PinnedIn(view.order[n]) = {p}
         /\ NewlyClaimed(n)
         /\ Placed(n)
         /\ Reconciling[n].claimed = Reconciling[n - 1].claimed \union {WhoIs(n)}
         /\ Reconciling[n].owners = [a \in Addresses |->
                IF a \in view.order[n] THEN WhoIs(n) ELSE Reconciling[n - 1].owners[a]]
<1> DEFINE acc == Reconciling[n - 1]
           C == view.order[n]
           id == Who(acc, C)
<1>1. Len(view.order) \in Nat /\ C \in SUBSET Printed /\ C \in SUBSET Addresses
  BY DEF ViewInv, Printed
<1>2. acc.created \subseteq Ids /\ Ids \ acc.created # {}
  <2>1. acc.created \subseteq Ids /\ Cardinality(Ids \ acc.created) >= Len(view.order) - (n - 1)
    BY DEF Placed
  <2>2. Len(view.order) - (n - 1) >= 1
    BY <1>1
  <2>3. Cardinality({}) = 0
    BY FS_EmptySet
  <2>4. ASSUME Ids \ acc.created = {} PROVE FALSE
    <3>1. 0 >= Len(view.order) - (n - 1)
      BY <2>1, <2>3, <2>4
    <3> QED BY <1>1, <2>2, <3>1
  <2> QED BY <2>1, <2>4
<1>3. \A p \in PinnedIn(C) : p \in Ids /\ PinnedIn(C) = {p}
  <2>1. \A p \in PinnedIn(C) : p \in Ids
    BY <1>1 DEF PinnedIn, ViewInv
  <2>2. \A p, q \in PinnedIn(C) : p = q
    BY DEF ViewInv
  <2> QED BY <2>1, <2>2
<1>4. \/ id \in (speakers \ acc.claimed) \union (Ids \ acc.created)
      \/ id \in PinnedIn(C) \intersect speakers
  <2>1. CASE PinnedIn(C) = {}
    <3> HIDE DEF acc, C
    <3>1. id \in (speakers \ acc.claimed) \union (Ids \ acc.created)
      BY <1>1, <1>2, <2>1, WhoItIs
    <3> QED BY <3>1
  <2>2. CASE PinnedIn(C) # {}
    <3>1. PICK p \in PinnedIn(C) : p \in Nat /\ PinnedIn(C) = {p}
      BY <1>3, <2>2, Domains
    <3> HIDE DEF acc, C
    <3>2. id \in (IF p \in speakers THEN {p} ELSE Ids \ acc.created)
      BY <1>1, <1>2, <3>1, WhoItIs
    <3> QED BY <3>1, <3>2
  <2> QED BY <2>1, <2>2
<1>5. NewlyClaimed(n)
  BY <1>4 DEF NewlyClaimed, WhoIs
<1>6. id \in speakers \union (Ids \ acc.created) /\ id \in Ids
  BY <1>4 DEF TypeOK
<1>7. /\ Reconciling[n].claimed = acc.claimed \union {id}
      /\ Reconciling[n].created = acc.created \union {id}
      /\ Reconciling[n].owners = [a \in Addresses |-> IF a \in C THEN id ELSE acc.owners[a]]
  <2>1. Reconciling[n] = Place(acc, C)
    BY <1>1, ReconcilingSteps
  <2> HIDE DEF acc, C
  <2> QED BY <2>1 DEF Place, id
<1>8. Cardinality(Ids \ Reconciling[n].created) >= Len(view.order) - n
  <2> DEFINE free == Ids \ acc.created
  <2>1. IsFiniteSet(free) /\ Cardinality(free) \in Nat
    BY Domains, FS_Subset, FS_CardinalityType
  <2>2. Cardinality(free \ {id}) >= Cardinality(free) - 1
    <3> HIDE DEF free, id
    <3>1. Cardinality(free \ {id}) = IF id \in free THEN Cardinality(free) - 1
                                                    ELSE Cardinality(free)
      BY <2>1, FS_RemoveElement
    <3> QED BY <2>1, <3>1
  <2>3. Ids \ Reconciling[n].created = free \ {id}
    BY <1>7
  <2>4. Cardinality(free) >= Len(view.order) - (n - 1)
    BY DEF Placed
  <2>5. Cardinality(free \ {id}) \in Nat
    BY <2>1, FS_RemoveElement, FS_CardinalityType
  <2>6. Cardinality(free \ {id}) >= Len(view.order) - n
    <3> HIDE DEF free, id
    <3> QED BY <1>1, <2>1, <2>2, <2>4, <2>5
  <2> QED BY <2>3, <2>6
<1>9. Placed(n)
  <2> HIDE DEF id, C
  <2>1. created \subseteq Reconciling[n].created /\ Reconciling[n].created \subseteq Ids
    BY <1>6, <1>7 DEF Placed
  <2>2. Reconciling[n].claimed \subseteq Reconciling[n].created
    BY <1>7 DEF Placed
  <2>3. Reconciling[n].claimed \subseteq speakers \union (Reconciling[n].created \ created)
    BY <1>6, <1>7 DEF Placed
  <2>4. Reconciling[n].owners \in [Addresses -> Reconciling[n].claimed \union {None}]
    BY <1>7 DEF Placed
  <2> QED BY <1>8, <2>1, <2>2, <2>3, <2>4 DEF Placed
<1> QED BY <1>1, <1>2, <1>3, <1>7, <1>9, <1>5 DEF WhoIs

\* All clusters are placed, each on a speaker of its own.
LEMMA EveryClusterIsPlaced ==
  ASSUME TypeOK, ViewInv, view.open, Cardinality(Ids \ created) >= Len(view.order)
  PROVE  /\ Len(view.order) \in Nat
         /\ \A n \in 0..Len(view.order) : Placed(n) /\ Given(n)
         /\ \A i, j \in 1..Len(view.order) : WhoIs(i) = WhoIs(j) => i = j
<1> DEFINE last == Len(view.order)
           Done == {n \in 0..last : Placed(n) /\ Given(n)}
<1>1. last \in Nat
  BY DEF ViewInv
<1>2. Reconciling[0] = Unplaced
  BY <1>1, ReconcilingSteps
<1>3. 0 \in Done
  <2>1. created \subseteq Ids
    BY DEF TypeOK
  <2>2. Placed(0)
    BY <1>1, <1>2, <2>1 DEF Placed, Unplaced
  <2> QED BY <1>1, <2>2 DEF Given
<1>4. ASSUME NEW n \in 1..last, n - 1 \in Done
      PROVE  n \in Done
  <2>1. /\ Placed(n)
        /\ Reconciling[n].claimed = Reconciling[n - 1].claimed \union {WhoIs(n)}
        /\ Reconciling[n].owners = [a \in Addresses |->
                IF a \in view.order[n] THEN WhoIs(n) ELSE Reconciling[n - 1].owners[a]]
    BY <1>4, PlacedNext
  <2>2. ASSUME NEW i \in 1..n
        PROVE  /\ WhoIs(i) \in Reconciling[n].claimed
               /\ \A a \in view.order[i] : Reconciling[n].owners[a] = WhoIs(i)
    <3>1. i \in 1..last /\ view.order[i] \subseteq Addresses
      BY <1>1, <2>2 DEF ViewInv, Printed
    <3>2. CASE i = n
      BY <2>1, <3>1, <3>2
    <3>3. CASE i # n
      <4>1. i \in 1..n - 1
        BY <2>2, <3>3
      <4>2. /\ WhoIs(i) \in Reconciling[n - 1].claimed
            /\ \A a \in view.order[i] : Reconciling[n - 1].owners[a] = WhoIs(i)
        BY <1>4, <4>1 DEF Given
      <4>3. \A a \in view.order[i] : a \notin view.order[n]
        BY <1>1, <3>1, <3>3 DEF ViewInv
      <4> QED BY <2>1, <3>1, <4>2, <4>3
    <3> QED BY <3>2, <3>3
  <2>3. Given(n)
    BY <2>2 DEF Given
  <2> QED BY <1>4, <2>1, <2>3
<1>5. ASSUME NEW n \in 0..last PROVE Placed(n) /\ Given(n)
  <2> HIDE DEF Done
  <2>1. 0..last \subseteq Done
    BY <1>1, <1>3, <1>4, UpTo
  <2> QED BY <2>1 DEF Done
<1>6. ASSUME NEW i \in 1..last, NEW j \in 1..last, i < j
      PROVE  WhoIs(i) # WhoIs(j)
  <2>1. SUFFICES ASSUME WhoIs(i) = WhoIs(j) PROVE FALSE
    OBVIOUS
  <2>2. i - 1 \in 0..last /\ j - 1 \in 0..last /\ i \in 1..j - 1
    BY <1>6
  <2>3. WhoIs(i) \in Reconciling[j - 1].claimed /\ Reconciling[j - 1].claimed \subseteq Reconciling[j - 1].created
    BY <1>5, <2>2 DEF Given, Placed
  <2>4. WhoIs(j) \in PinnedIn(view.order[j]) \intersect speakers
    <3>1. NewlyClaimed(j)
      BY <1>5, <2>2, PlacedNext
    <3> QED BY <2>1, <2>3, <3>1 DEF NewlyClaimed
  <2>5. PICK p \in PinnedIn(view.order[i]) : p \in Nat /\ PinnedIn(view.order[i]) = {p}
    <3>1. PinnedIn(view.order[i]) # {}
      BY <1>6, <2>4 DEF ViewInv
    <3>2. \A p \in PinnedIn(view.order[i]) : p \in Ids /\ PinnedIn(view.order[i]) = {p}
      BY <1>5, <2>2, PlacedNext
    <3> QED BY <3>1, <3>2, Domains
  <2>6. WhoIs(i) \in (IF p \in speakers THEN {p} ELSE Ids \ Reconciling[i - 1].created)
    <3>1. /\ Reconciling[i - 1].created \subseteq Ids /\ Ids \ Reconciling[i - 1].created # {}
          /\ view.order[i] \in SUBSET Addresses
      BY <1>5, <2>2, PlacedNext
    <3> QED BY <2>5, <3>1, WhoItIs DEF WhoIs
  <2>7. speakers \subseteq Reconciling[i - 1].created
    BY <1>5, <2>2 DEF Placed, TypeOK
  <2>8. WhoIs(i) = p
    BY <2>1, <2>4, <2>6, <2>7
  <2>9. PinnedIn(view.order[i]) \intersect PinnedIn(view.order[j]) = {}
    <3>1. i # j
      BY <1>6
    <3> QED BY <3>1 DEF ViewInv
  <2> QED BY <2>1, <2>4, <2>5, <2>8, <2>9
<1>7. ASSUME NEW i \in 1..last, NEW j \in 1..last, WhoIs(i) = WhoIs(j)
      PROVE  i = j
  <2>1. i < j \/ j < i \/ i = j
    OBVIOUS
  <2> QED BY <1>6, <1>7, <2>1
<1> QED BY <1>1, <1>5, <1>7

----------------------------------------------------------------------------
(* Types: the user's acts.                                                 *)

LEMMA TypeInit ==
  ASSUME Init
  PROVE  TypeOK /\ HearingInv /\ ViewInv
<1>1. NoRecord \in RecordType
  BY Domains DEF NoRecord, RecordType
<1>2. TypeOK
  BY <1>1, SpeakerCurationAssumption DEF Init, TypeOK, NoPrint, NoSnapshot, NoView
<1>3. HearingInv
  BY DEF Init, HearingInv, NoPrint, Addresses
<1>4. ViewInv
  BY DEF Init, ViewInv, NoView
<1> QED BY <1>2, <1>3, <1>4

\* What no act of the user, and no rebuild, changes.
SameSpeech ==
    /\ \A a \in Addresses : prints'[a].hears = prints[a].hears
    /\ UNCHANGED <<diarized, snapshots, stood, dropped>>

LEMMA SpendIsCounted ==
  ASSUME TypeOK, NEW act \in {"user", "rebuild"}, Spend(act)
  PROVE  spent' \in [{"user", "rebuild", "rerun"} -> Nat]
BY DEF TypeOK, Spend

LEMMA TypeReassign ==
  ASSUME TypeOK, NEW a \in Addresses, NEW to \in Ids, Reassign(a, to)
  PROVE  TypeOK' /\ SameSpeech
<1>1. PICK names \in {named, named \union ({to} \ speakers)} :
         LET moved == Move(prints, a, to)
             gone == Prunable(moved, speakers \union {to}, names)
         IN  /\ prints' = moved
             /\ pins' = Cascade(gone, Pin(pins, a, to))
             /\ speakers' = (speakers \union {to}) \ gone
             /\ named' = names \ gone
  BY DEF Reassign
<1> DEFINE moved == Move(prints, a, to)
           gone == Prunable(moved, speakers \union {to}, names)
<1>2. /\ a \in Printed /\ prints[a].owner # None
      /\ created' = created \union {to} /\ to \in speakers \union (Ids \ created)
      /\ meant' = [meant EXCEPT ![a[1]][prints[a].hears] = to]
      /\ Spend("user")
      /\ UNCHANGED <<snapshots, diarized, view, stood, dropped>>
  BY FreshIsNew DEF Reassign, TypeOK
<1>3. /\ moved \in [Addresses -> [hears : Voices \union {Nobody}, owner : speakers \union {to, None}]]
      /\ \A b \in Addresses : /\ moved[b].hears = prints[b].hears
                              /\ moved[b].owner = IF b = a THEN to ELSE prints[b].owner
  BY DEF TypeOK, Move
<1>4. gone \subseteq speakers \union {to} /\ \A b \in Addresses : moved[b].owner \notin gone
  BY DEF Prunable
<1>5. prints[a].hears \in Voices /\ a[1] \in Sessions
  BY <1>2 DEF TypeOK, Printed, Addresses
<1> HIDE DEF moved, gone
<1>6. prints' = moved /\ speakers' = (speakers \union {to}) \ gone /\ named' = names \ gone
      /\ pins' = Cascade(gone, Pin(pins, a, to))
  BY <1>1 DEF moved, gone
<1>7. prints' \in [Addresses -> [hears : Voices \union {Nobody}, owner : speakers' \union {None}]]
  <2>1. \A b \in Addresses : /\ moved[b].hears \in Voices \union {Nobody}
                             /\ moved[b].owner \in speakers' \union {None}
    BY <1>3, <1>4, <1>6
  <2>2. \A b \in Addresses : moved[b] \in [hears : Voices \union {Nobody}, owner : speakers' \union {None}]
    BY <1>3, <2>1
  <2> QED BY <1>3, <1>6, <2>2
<1>8. \A b \in Addresses : prints'[b].hears = Nobody => prints'[b].owner = None
  BY <1>2, <1>3, <1>5, <1>6, Domains DEF TypeOK
<1>9. pins' \in [Addresses -> speakers' \union {None}]
  BY <1>6 DEF Cascade, Pin, TypeOK
<1>10. named' \subseteq speakers' /\ speakers' \subseteq created' /\ created' \subseteq Ids
  BY <1>2, <1>6 DEF TypeOK
<1>11. meant' \in [Sessions -> [Voices -> created' \union {None}]]
  BY <1>2, <1>5 DEF TypeOK
<1>12. spent' \in [{"user", "rebuild", "rerun"} -> Nat]
  BY <1>2, SpendIsCounted
<1> QED BY <1>2, <1>3, <1>6, <1>7, <1>8, <1>9, <1>10, <1>11, <1>12 DEF TypeOK, SameSpeech

LEMMA TypeUnpin ==
  ASSUME TypeOK, NEW a \in Addresses, Unpin(a)
  PROVE  TypeOK' /\ SameSpeech
<1>1. spent' \in [{"user", "rebuild", "rerun"} -> Nat]
  BY SpendIsCounted DEF Unpin
<1>2. prints[a].hears \in Voices /\ a[1] \in Sessions
  BY DEF Unpin, TypeOK, Printed, Addresses
<1>3. meant' \in [Sessions -> [Voices -> created' \union {None}]]
  BY <1>2 DEF TypeOK, Unpin
<1>4. pins' \in [Addresses -> speakers' \union {None}]
  BY DEF TypeOK, Unpin, Pin
<1> QED BY <1>1, <1>3, <1>4 DEF TypeOK, Unpin, SameSpeech

LEMMA TypeName ==
  ASSUME TypeOK, NEW id \in Ids, Name(id)
  PROVE  TypeOK' /\ SameSpeech
<1>1. spent' \in [{"user", "rebuild", "rerun"} -> Nat]
  BY SpendIsCounted DEF Name
<1>2. named' \subseteq speakers
  BY DEF TypeOK, Name
<1> QED BY <1>1, <1>2 DEF TypeOK, Name, SameSpeech

LEMMA TypeMerge ==
  ASSUME TypeOK, NEW loser \in Ids, NEW survivor \in Ids, Merge(loser, survivor)
  PROVE  TypeOK' /\ SameSpeech
<1> DEFINE both == Members(loser) \union Members(survivor)
           Said(s, v) == \E a \in both : a[1] = s /\ prints[a].hears = v
<1>1. /\ spent' \in [{"user", "rebuild", "rerun"} -> Nat]
      /\ {loser, survivor} \subseteq speakers /\ loser # survivor
      /\ speakers' = speakers \ {loser}
      /\ UNCHANGED <<created, snapshots, diarized, view, stood, dropped>>
  BY SpendIsCounted DEF Merge
<1>2. /\ pins' = Cascade({loser}, PinMembersOf(PinMembersOf(pins, loser, survivor), survivor, survivor))
      /\ prints' = Fold(loser, survivor)
      /\ meant' = [s \in Sessions |-> [v \in Voices |->
                            IF Said(s, v) THEN survivor ELSE meant[s][v]]]
      /\ named' \subseteq (named \ {loser}) \union {survivor}
  BY DEF Merge, TypeOK
<1>3. \A b \in Addresses :
         /\ prints'[b].hears = prints[b].hears
         /\ prints'[b].owner = IF prints[b].owner = loser THEN survivor ELSE prints[b].owner
  BY <1>2, MembersAreHeard DEF Fold, TypeOK
<1>4. prints' \in [Addresses -> [hears : Voices \union {Nobody}, owner : speakers' \union {None}]]
  <2>1. \A b \in Addresses : prints[b] \in [hears : Voices \union {Nobody}, owner : speakers \union {None}]
    BY DEF TypeOK
  <2>2. \A b \in Addresses : prints'[b] \in [hears : Voices \union {Nobody}, owner : speakers' \union {None}]
    BY <1>1, <1>2, <2>1, MembersAreHeard DEF Fold
  <2> QED BY <1>2, <2>2 DEF Fold
<1>5. \A b \in Addresses : prints'[b].hears = Nobody => prints'[b].owner = None
  BY <1>3, Domains DEF TypeOK
<1>6. pins' \in [Addresses -> speakers' \union {None}]
  BY <1>1, <1>2 DEF Cascade, PinMembersOf, TypeOK
<1>7. meant' \in [Sessions -> [Voices -> created' \union {None}]]
  <2> HIDE DEF Said
  <2> QED BY <1>1, <1>2 DEF TypeOK
<1>8. named' \subseteq speakers' /\ speakers' \subseteq created' /\ created' \subseteq Ids
  BY <1>1, <1>2 DEF TypeOK
<1> QED BY <1>1, <1>3, <1>4, <1>5, <1>6, <1>7, <1>8 DEF TypeOK, SameSpeech

----------------------------------------------------------------------------
(* The rebuild.                                                            *)

LEMMA TypeRead ==
  ASSUME TypeOK, RebuildRead
  PROVE  TypeOK' /\ SameSpeech
<1>1. spent' \in [{"user", "rebuild", "rerun"} -> Nat]
  BY SpendIsCounted DEF RebuildRead
<1>2. view'.open = TRUE
  BY DEF RebuildRead
<1>3. UNCHANGED <<prints, pins, speakers, named, created, snapshots, diarized, meant, stood,
                  dropped>>
  BY DEF RebuildRead
<1> QED BY <1>1, <1>2, <1>3 DEF TypeOK, SameSpeech

\* What the rebuild writes: each print has the speaker of its cluster, and only
\* unnamed speakers without prints are gone.
LEMMA WrittenIs ==
  ASSUME TypeOK, ViewInv, RebuildWrite
  PROVE  /\ Len(view.order) \in Nat
         /\ \A i \in 1..Len(view.order) : \A a \in view.order[i] :
               prints'[a].owner = WhoIs(i)
         /\ \A a \in Addresses : /\ prints'[a].hears = prints[a].hears
                                 /\ prints'[a].owner \in speakers' \union {None}
                                 /\ prints[a].hears = Nobody => prints'[a].owner = None
         /\ prints' \in [Addresses -> [hears : Voices \union {Nobody},
                                       owner : speakers' \union {None}]]
         /\ created \subseteq created' /\ created' \subseteq Ids
         /\ speakers' \subseteq created' /\ (speakers' \ speakers) \intersect created = {}
         /\ named' = named /\ named \subseteq speakers'
         /\ pins' = [a \in Addresses |-> IF pins[a] \in speakers' THEN pins[a] ELSE None]
         /\ \A id \in speakers \ speakers' : \A a \in Addresses : prints'[a].owner # id
<1> DEFINE last == Len(view.order)
           owned == Assign(Reconciled.owners)
           rows == speakers \union (Reconciled.created \ created)
           gone == Prunable(owned, rows, named)
<1>1. view.open /\ Cardinality(Ids \ created) >= last
  BY DEF RebuildWrite
<1>2. /\ last \in Nat /\ Placed(last) /\ Given(last)
  BY <1>1, EveryClusterIsPlaced
<1>3. /\ created \subseteq Reconciled.created /\ Reconciled.created \subseteq Ids
      /\ Reconciled.owners \in [Addresses -> rows \union {None}]
      /\ \A i \in 1..last : \A a \in view.order[i] : Reconciled.owners[a] = WhoIs(i)
  BY <1>2 DEF Placed, Given, Reconciled
<1>4. /\ \A a \in Addresses : /\ owned[a].hears = prints[a].hears
                              /\ owned[a].owner = IF a \in Printed THEN Reconciled.owners[a]
                                                  ELSE prints[a].owner
      /\ owned \in [Addresses -> [hears : Voices \union {Nobody}, owner : rows \union {None}]]
  <2>1. prints \in [Addresses -> [hears : Voices \union {Nobody}, owner : rows \union {None}]]
    BY DEF TypeOK
  <2> HIDE DEF rows
  <2>2. \A a \in Addresses : /\ owned[a].hears = prints[a].hears
                             /\ owned[a].owner = IF a \in Printed THEN Reconciled.owners[a]
                                                 ELSE prints[a].owner
    BY <2>1 DEF Assign
  <2>3. owned \in [Addresses -> [hears : Voices \union {Nobody}, owner : rows \union {None}]]
    BY <1>3, <2>1 DEF Assign
  <2> QED BY <2>2, <2>3
<1>5. /\ gone \subseteq rows /\ gone \intersect named = {}
      /\ \A id \in gone : \A a \in Addresses : owned[a].owner # id
  BY DEF Prunable
<1>6. /\ prints' = owned /\ pins' = Cascade(gone, pins) /\ speakers' = rows \ gone
      /\ named' = named \ gone /\ created' = Reconciled.created
  BY DEF RebuildWrite
<1> HIDE DEF owned, gone
<1>7. named' = named /\ named \subseteq speakers'
  BY <1>5, <1>6 DEF TypeOK
<1>8. /\ speakers' \subseteq created' /\ (speakers' \ speakers) \intersect created = {}
  BY <1>3, <1>6 DEF TypeOK
<1>9. pins' = [a \in Addresses |-> IF pins[a] \in speakers' THEN pins[a] ELSE None]
  <2>1. \A a \in Addresses : pins[a] \in speakers \union {None}
    BY DEF TypeOK
  <2>2. \A a \in Addresses : (IF pins[a] \in gone THEN None ELSE pins[a])
                                = (IF pins[a] \in speakers' THEN pins[a] ELSE None)
    BY <1>6, <2>1
  <2> QED BY <1>6, <2>2 DEF Cascade
<1>10. \A a \in Addresses : prints'[a].owner \in speakers' \union {None}
  <2>1. \A a \in Addresses : owned[a].owner \in rows \union {None}
    BY <1>4
  <2> HIDE DEF rows
  <2> QED BY <1>5, <1>6, <2>1
<1>11. prints' \in [Addresses -> [hears : Voices \union {Nobody}, owner : speakers' \union {None}]]
  <2>1. \A a \in Addresses : /\ prints'[a] \in [hears : Voices \union {Nobody}, owner : rows \union {None}]
                             /\ prints'[a].owner \in speakers' \union {None}
    BY <1>4, <1>6, <1>10
  <2> HIDE DEF rows
  <2>2. \A a \in Addresses : prints'[a] \in [hears : Voices \union {Nobody}, owner : speakers' \union {None}]
    BY <2>1
  <2> QED BY <1>4, <1>6, <2>2
<1>12. \A i \in 1..last : \A a \in view.order[i] : prints'[a].owner = WhoIs(i)
  <2>1. \A i \in 1..last : view.order[i] \subseteq Printed
    BY <1>1, <1>2 DEF ViewInv
  <2>2. Printed \subseteq Addresses
    BY DEF Printed
  <2> QED BY <1>3, <1>4, <1>6, <2>1, <2>2
<1>13. \A a \in Addresses : prints[a].hears = Nobody => prints'[a].owner = None
  BY <1>4, <1>6, PrintedIsHeard DEF TypeOK
<1>14. \A id \in speakers \ speakers' : \A a \in Addresses : prints'[a].owner # id
  BY <1>5, <1>6
<1> HIDE DEF rows
<1> QED BY <1>2, <1>3, <1>4, <1>6, <1>7, <1>8, <1>9, <1>10, <1>11, <1>12, <1>13, <1>14

LEMMA TypeWrite ==
  ASSUME TypeOK, ViewInv, RebuildWrite
  PROVE  TypeOK' /\ SameSpeech
<1>1. /\ created \subseteq created' /\ created' \subseteq Ids /\ speakers' \subseteq created'
      /\ named' = named /\ named \subseteq speakers'
      /\ pins' = [a \in Addresses |-> IF pins[a] \in speakers' THEN pins[a] ELSE None]
  BY WrittenIs
<1>2. /\ prints' \in [Addresses -> [hears : Voices \union {Nobody}, owner : speakers' \union {None}]]
      /\ \A a \in Addresses : /\ prints'[a].hears = prints[a].hears
                              /\ prints[a].hears = Nobody => prints'[a].owner = None
  BY WrittenIs
<1>3. view'.open = FALSE /\ UNCHANGED <<snapshots, diarized, meant, spent, stood, dropped>>
  BY DEF RebuildWrite, NoView
<1>4. meant' \in [Sessions -> [Voices -> created' \union {None}]]
  BY <1>1, <1>3 DEF TypeOK
<1> QED BY <1>1, <1>2, <1>3, <1>4 DEF TypeOK, SameSpeech

----------------------------------------------------------------------------
(* The carry.                                                              *)

PrintType == [hears : Voices \union {Nobody}, owner : speakers \union {None}]

\* Where the speech of a record is now.
TargetsOf(s, fresh, l) ==
    {t \in Labels : fresh[<<s, t>>] # NoPrint /\ fresh[<<s, t>>].hears = snapshots[s].labels[l].hears}

\* The cases of one record.
LEMMA CarryCases ==
  ASSUME NEW s \in Sessions, NEW fresh, NEW acc, NEW l \in Labels
  PROVE  LET record == snapshots[s].labels[l]
             targets == TargetsOf(s, fresh, l)
             target == <<s, Min(targets)>>
         IN  /\ record.id \notin speakers \/ targets = {} => Carry(s, fresh, acc, l) = acc
             /\ record.id \in speakers /\ targets # {} =>
                   /\ Min(targets) \in targets
                   /\ Carry(s, fresh, acc, l)
                         = IF record.pinned
                           THEN [acc EXCEPT !.pins = Rekey(@, <<s, l>>, target, record.id)]
                           ELSE [acc EXCEPT !.prints = Move(@, target, record.id)]
<1> DEFINE targets == TargetsOf(s, fresh, l)
<1>1. targets \in SUBSET Nat
  BY Domains DEF TargetsOf
<1>2. targets # {} => Min(targets) \in targets
  <2> HIDE DEF targets
  <2> QED BY <1>1, MinIsLeast
<1> QED BY <1>2 DEF Carry, TargetsOf

\* Whatever has been carried, nothing else was changed.
Kept(s, fresh, acc) ==
    /\ acc = [pins |-> acc.pins, prints |-> acc.prints]
    /\ acc.pins \in [Addresses -> speakers \union {None}]
    /\ acc.prints \in [Addresses -> PrintType]
    /\ \A a \in Addresses :
          /\ acc.prints[a].hears = fresh[a].hears
          /\ fresh[a].hears = Nobody => acc.prints[a].owner = None
          /\ a[1] # s => acc.prints[a] = fresh[a] /\ acc.pins[a] = pins[a]

LEMMA KeptByMove ==
  ASSUME NEW s \in Sessions, NEW fresh, NEW acc, Kept(s, fresh, acc),
         NEW t \in Labels, fresh[<<s, t>>].hears # Nobody, NEW id \in speakers
  PROVE  Kept(s, fresh, [acc EXCEPT !.prints = Move(@, <<s, t>>, id)])
<1> DEFINE moved == Move(acc.prints, <<s, t>>, id)
<1>1. [acc EXCEPT !.prints = Move(@, <<s, t>>, id)] = [pins |-> acc.pins, prints |-> moved]
  BY DEF Kept
<1>2. <<s, t>> \in Addresses /\ <<s, t>>[1] = s
  BY DEF Addresses
<1>3. /\ moved \in [Addresses -> PrintType]
      /\ \A a \in Addresses : moved[a].hears = acc.prints[a].hears
      /\ \A a \in Addresses : a # <<s, t>> => moved[a] = acc.prints[a]
  BY <1>2 DEF Kept, Move, PrintType
<1>4. \A a \in Addresses : fresh[a].hears = Nobody => a # <<s, t>>
  OBVIOUS
<1>5. \A a \in Addresses :
          /\ moved[a].hears = fresh[a].hears
          /\ fresh[a].hears = Nobody => moved[a].owner = None
          /\ a[1] # s => moved[a] = fresh[a] /\ acc.pins[a] = pins[a]
  <2> HIDE DEF moved
  <2> QED BY <1>2, <1>3, <1>4 DEF Kept
<1> HIDE DEF moved
<1>6. acc.pins \in [Addresses -> speakers \union {None}]
  BY DEF Kept
<1> QED BY <1>1, <1>3, <1>5, <1>6 DEF Kept

LEMMA KeptByRekey ==
  ASSUME NEW s \in Sessions, NEW fresh, NEW acc, Kept(s, fresh, acc),
         NEW t \in Labels, NEW l \in Labels, NEW id \in speakers
  PROVE  Kept(s, fresh, [acc EXCEPT !.pins = Rekey(@, <<s, l>>, <<s, t>>, id)])
<1> DEFINE keyed == Rekey(acc.pins, <<s, l>>, <<s, t>>, id)
<1>1. [acc EXCEPT !.pins = Rekey(@, <<s, l>>, <<s, t>>, id)] = [pins |-> keyed, prints |-> acc.prints]
  BY DEF Kept
<1>2. <<s, t>>[1] = s /\ <<s, l>>[1] = s
  OBVIOUS
<1>3. /\ keyed \in [Addresses -> speakers \union {None}]
      /\ \A a \in Addresses : a # <<s, t>> /\ a # <<s, l>> => keyed[a] = acc.pins[a]
  BY DEF Kept, Rekey
<1>4. \A a \in Addresses : a[1] # s => keyed[a] = pins[a]
  <2> HIDE DEF keyed
  <2> QED BY <1>2, <1>3 DEF Kept
<1> HIDE DEF keyed
<1> QED BY <1>1, <1>3, <1>4 DEF Kept

LEMMA KeptByCarry ==
  ASSUME NEW s \in Sessions, NEW fresh, NEW acc, Kept(s, fresh, acc), NEW l \in Labels,
         fresh \in [Addresses -> PrintType],
         \A a \in Addresses : fresh[a].hears = Nobody => fresh[a].owner = None
  PROVE  Kept(s, fresh, Carry(s, fresh, acc, l))
<1> DEFINE targets == TargetsOf(s, fresh, l)
           record == snapshots[s].labels[l]
<1>1. CASE record.id \notin speakers \/ targets = {}
  BY <1>1, CarryCases
<1>2. CASE record.id \in speakers /\ targets # {}
  <2>1. PICK t \in targets :
           Carry(s, fresh, acc, l) = IF record.pinned
                           THEN [acc EXCEPT !.pins = Rekey(@, <<s, l>>, <<s, t>>, record.id)]
                           ELSE [acc EXCEPT !.prints = Move(@, <<s, t>>, record.id)]
    <3>1. /\ Min(targets) \in targets
          /\ Carry(s, fresh, acc, l) = IF record.pinned
                           THEN [acc EXCEPT !.pins = Rekey(@, <<s, l>>, <<s, Min(targets)>>, record.id)]
                           ELSE [acc EXCEPT !.prints = Move(@, <<s, Min(targets)>>, record.id)]
      BY <1>2, CarryCases
    <3> HIDE DEF targets
    <3> QED BY <3>1
  <2>2. t \in Labels /\ fresh[<<s, t>>].hears # Nobody
    <3>1. t \in Labels /\ fresh[<<s, t>>] # NoPrint
      BY DEF TargetsOf
    <3>2. <<s, t>> \in Addresses
      BY <3>1 DEF Addresses
    <3> QED BY <3>1, <3>2 DEF NoPrint, PrintType
  <2> HIDE DEF targets, record
  <2> QED BY <1>2, <2>1, <2>2, KeptByMove, KeptByRekey
<1> QED BY <1>1, <1>2

\* Applied changes owners and pins of its session only, and gives them to
\* speakers that exist.
LEMMA AppliedKeeps ==
  ASSUME TypeOK, NEW s \in Sessions, NEW fresh \in [Addresses -> PrintType],
         \A a \in Addresses : fresh[a].hears = Nobody => fresh[a].owner = None
  PROVE  /\ Kept(s, fresh, Applied(s, fresh))
         /\ \A l \in 0..NumLabels : Kept(s, fresh, Carrying(s, fresh)[l])
<1> DEFINE First == [pins |-> pins, prints |-> fresh]
           Good == {l \in 0..NumLabels : Kept(s, fresh, Carrying(s, fresh)[l])}
<1>1. Kept(s, fresh, First)
  BY DEF Kept, TypeOK
<1>2. 0 \in Good
  BY <1>1, Domains, CarryingSteps
<1>3. ASSUME NEW l \in 1..NumLabels, l - 1 \in Good PROVE l \in Good
  <2>1. l \in Labels /\ Carrying(s, fresh)[l] = Carry(s, fresh, Carrying(s, fresh)[l - 1], l)
    <3>1. Carrying(s, fresh)[l] = Carry(s, fresh, Carrying(s, fresh)[l - 1], l)
      <4>1. NumLabels \in Nat
        BY Domains
      <4> DEFINE C == Carrying(s, fresh)
      <4>2. C = [k \in 0..NumLabels |-> IF k = 0 THEN First ELSE Carry(s, fresh, C[k - 1], k)]
        BY <4>1, CarryingSteps
      <4> HIDE DEF C, First
      <4>3. C[l] = Carry(s, fresh, C[l - 1], l)
        BY <4>1, <4>2
      <4> QED BY <4>3 DEF C
    <3> QED BY <3>1 DEF Labels
  <2>2. Kept(s, fresh, Carrying(s, fresh)[l - 1])
    BY <1>3
  <2>3. Kept(s, fresh, Carrying(s, fresh)[l])
    BY <2>1, <2>2, KeptByCarry
  <2>4. l \in 0..NumLabels
    BY Domains
  <2> QED BY <2>3, <2>4
<1>4. 0..NumLabels \subseteq Good
  <2> HIDE DEF Good
  <2> QED BY <1>2, <1>3, Domains, UpTo
<1>5. NumLabels \in 0..NumLabels
  BY Domains
<1> QED BY <1>1, <1>4, <1>5 DEF Applied

----------------------------------------------------------------------------
(* Diarization.                                                            *)

LEMMA NewPrints ==
  ASSUME TypeOK, NEW s \in Sessions, NEW hears \in [Labels -> Voices \union {Nobody}]
  PROVE  /\ FreshPrints(s, hears) \in [Addresses -> PrintType]
         /\ \A a \in Addresses :
               /\ FreshPrints(s, hears)[a].hears = Nobody => FreshPrints(s, hears)[a].owner = None
               /\ a[1] # s => FreshPrints(s, hears)[a] = prints[a]
               /\ a[1] = s => FreshPrints(s, hears)[a] = [hears |-> hears[a[2]], owner |-> None]
<1>1. prints \in [Addresses -> PrintType] /\ \A a \in Addresses : a[2] \in Labels
  BY DEF TypeOK, PrintType, Addresses
<1> QED BY <1>1 DEF FreshPrints, PrintType, TypeOK

LEMMA SilenceIsHeard == Silence \in [Labels -> Voices \union {Nobody}]
BY DEF Silence

\* What is forgotten is recorded.
LEMMA Forgotten ==
  ASSUME TypeOK, NEW s \in Sessions, NEW lost \in SUBSET Voices, Forget(s, lost), created' = created
  PROVE  /\ meant' \in [Sessions -> [Voices -> created' \union {None}]]
         /\ dropped' \in SUBSET (Sessions \X Voices) /\ dropped \subseteq dropped'
         /\ \A r \in Sessions : r # s => meant'[r] = meant[r]
         /\ \A r \in Sessions, v \in Voices : r # s => (<<r, v>> \in dropped' <=> <<r, v>> \in dropped)
         /\ \A v \in Voices : meant'[s][v] = IF v \in lost THEN None ELSE meant[s][v]
         /\ \A v \in lost : <<s, v>> \in dropped' \/ meant[s][v] = None
         /\ lost = {} => dropped' = dropped
<1>1. meant \in [Sessions -> [Voices -> created \union {None}]] /\ dropped \in SUBSET (Sessions \X Voices)
  BY DEF TypeOK
<1>2. /\ meant' = [meant EXCEPT ![s] = [v \in Voices |-> IF v \in lost THEN None ELSE @[v]]]
      /\ dropped' = dropped \union {<<s, v>> : v \in {w \in lost : meant[s][w] # None}}
  BY DEF Forget
<1>3. /\ meant' \in [Sessions -> [Voices -> created' \union {None}]]
      /\ \A r \in Sessions : r # s => meant'[r] = meant[r]
      /\ \A v \in Voices : meant'[s][v] = IF v \in lost THEN None ELSE meant[s][v]
  BY <1>1, <1>2
<1>4. /\ dropped' \in SUBSET (Sessions \X Voices) /\ dropped \subseteq dropped'
      /\ \A r \in Sessions, v \in Voices : r # s => (<<r, v>> \in dropped' <=> <<r, v>> \in dropped)
      /\ \A v \in lost : <<s, v>> \in dropped' \/ meant[s][v] = None
      /\ lost = {} => dropped' = dropped
  BY <1>1, <1>2
<1> QED BY <1>3, <1>4

LEMMA IdentitiesType ==
  ASSUME TypeOK, NEW s \in Sessions
  PROVE  /\ Identities(s) \in [Labels -> RecordType]
         /\ Snapshot(s) \in [applied : BOOLEAN, labels : [Labels -> RecordType]]
<1>1. ASSUME NEW l \in Labels PROVE Identities(s)[l] \in RecordType
  <2>1. <<s, l>> \in Addresses /\ speakers \subseteq Ids
    BY DEF Addresses, TypeOK
  <2>2. /\ prints[<<s, l>>].hears \in Voices \union {Nobody}
        /\ prints[<<s, l>>].owner \in speakers \union {None}
        /\ pins[<<s, l>>] \in speakers \union {None}
    BY <2>1 DEF TypeOK
  <2> QED BY <2>1, <2>2 DEF Identities, RecordType, NoRecord
<1>2. Identities(s) \in [Labels -> RecordType]
  BY <1>1 DEF Identities
<1>3. Snapshot(s) \in [applied : BOOLEAN, labels : [Labels -> RecordType]]
  BY <1>2 DEF Snapshot, TypeOK
<1> QED BY <1>2, <1>3

LEMMA TypeRediarize ==
  ASSUME TypeOK, HearingInv, NEW s \in Sessions, NEW carry \in BOOLEAN, Rediarize(s, carry)
  PROVE  TypeOK' /\ HearingInv'
<1>1. /\ prints' = FreshPrints(s, Silence)
      /\ diarized' = [diarized EXCEPT ![s] = FALSE]
      /\ UNCHANGED <<pins, speakers, named, created, view, stood>>
  BY DEF Rediarize
<1>2. spent' \in [{"user", "rebuild", "rerun"} -> Nat]
  BY DEF Rediarize, TypeOK, Spend
<1>3. snapshots' \in [Sessions -> [applied : BOOLEAN, labels : [Labels -> RecordType]]]
  BY IdentitiesType DEF Rediarize, TypeOK
<1>4. meant' \in [Sessions -> [Voices -> created' \union {None}]] /\ dropped' \subseteq Sessions \X Voices
  <2>1. PICK lost \in SUBSET Voices : Forget(s, lost)
    BY DEF Rediarize
  <2> QED BY <1>1, <2>1, Forgotten
<1>5. \A a \in Addresses : IF a[1] = s THEN prints'[a] = [hears |-> Nobody, owner |-> None]
                                       ELSE prints'[a] = prints[a]
  <2>1. \A a \in Addresses : a[2] \in Labels
    BY DEF Addresses
  <2> QED BY <1>1, <2>1, NewPrints, SilenceIsHeard DEF Silence
<1>6. prints' \in [Addresses -> [hears : Voices \union {Nobody}, owner : speakers' \union {None}]]
  BY <1>1, NewPrints, SilenceIsHeard DEF PrintType
<1>7. \A a \in Addresses : prints'[a].hears = Nobody => prints'[a].owner = None
  BY <1>5 DEF TypeOK
<1>8. diarized' \in [Sessions -> BOOLEAN]
  BY <1>1 DEF TypeOK
<1>9. TypeOK'
  BY <1>1, <1>2, <1>3, <1>4, <1>6, <1>7, <1>8 DEF TypeOK
<1>10. HearingInv'
  <2> SUFFICES ASSUME NEW r \in Sessions, NEW l \in Labels, prints'[<<r, l>>].hears # Nobody
               PROVE  /\ diarized'[r] /\ prints'[<<r, l>>].hears \in stood'[<<r, l>>]
                      /\ \A k \in Labels : prints'[<<r, k>>].hears = prints'[<<r, l>>].hears => k = l
    BY DEF HearingInv
  <2>1. \A k \in Labels : <<r, k>> \in Addresses
    BY DEF Addresses
  <2>2. r # s
    BY <1>5, <2>1
  <2>3. \A k \in Labels : prints'[<<r, k>>] = prints[<<r, k>>]
    BY <1>5, <2>1, <2>2
  <2>4. diarized'[r] = diarized[r] /\ stood' = stood
    BY <1>1, <2>2 DEF TypeOK
  <2> QED BY <2>3, <2>4 DEF HearingInv
<1> QED BY <1>9, <1>10

\* What Publish does, for the hearing it finds.
LEMMA PublishedIs ==
  ASSUME TypeOK, NEW s \in Sessions, Publish(s)
  PROVE  \E hears \in Hearings :
            LET done == Applied(s, FreshPrints(s, hears))
            IN  /\ Kept(s, FreshPrints(s, hears), done)
                /\ diarized[s] => \A l \in Labels : prints[<<s, l>>].hears = hears[l]
                /\ prints' = done.prints /\ pins' = done.pins
                /\ Forget(s, {v \in Voices : \A l \in Labels : hears[l] # v})
                /\ stood' = [a \in Addresses |->
                               stood[a] \union (IF a[1] = s THEN {hears[a[2]]} \ {Nobody} ELSE {})]
<1>1. PICK hears \in Hearings :
          LET done == Applied(s, FreshPrints(s, hears))
          IN  /\ diarized[s] => \A l \in Labels : prints[<<s, l>>].hears = hears[l]
              /\ prints' = done.prints
              /\ pins' = done.pins
              /\ Forget(s, {v \in Voices : \A l \in Labels : hears[l] # v})
              /\ stood' = [a \in Addresses |->
                             stood[a] \union (IF a[1] = s THEN {hears[a[2]]} \ {Nobody} ELSE {})]
  BY DEF Publish
<1>2. Kept(s, FreshPrints(s, hears), Applied(s, FreshPrints(s, hears)))
  <2>1. /\ FreshPrints(s, hears) \in [Addresses -> PrintType]
        /\ \A a \in Addresses :
              FreshPrints(s, hears)[a].hears = Nobody => FreshPrints(s, hears)[a].owner = None
    BY NewPrints DEF Hearings
  <2> DEFINE fresh == FreshPrints(s, hears)
  <2> HIDE DEF fresh
  <2>2. Kept(s, fresh, Applied(s, fresh))
    BY <2>1, AppliedKeeps DEF fresh
  <2> QED BY <2>2 DEF fresh
<1> QED BY <1>1, <1>2

\* And what it leaves, apart from the pins.
LEMMA PublishedSpeech ==
  ASSUME TypeOK, NEW s \in Sessions, NEW hears \in Hearings, NEW acc,
         Kept(s, FreshPrints(s, hears), acc)
  PROVE  \A r \in Sessions, l \in Labels :
            IF r = s THEN acc.prints[<<r, l>>].hears = hears[l]
                     ELSE acc.prints[<<r, l>>] = prints[<<r, l>>] /\ acc.pins[<<r, l>>] = pins[<<r, l>>]
<1> SUFFICES ASSUME NEW r \in Sessions, NEW l \in Labels
             PROVE  IF r = s THEN acc.prints[<<r, l>>].hears = hears[l]
                     ELSE acc.prints[<<r, l>>] = prints[<<r, l>>] /\ acc.pins[<<r, l>>] = pins[<<r, l>>]
  OBVIOUS
<1>1. <<r, l>> \in Addresses /\ <<r, l>>[1] = r /\ <<r, l>>[2] = l
  BY DEF Addresses
<1> DEFINE fresh == FreshPrints(s, hears)
<1>2. fresh[<<r, l>>] = IF r # s THEN prints[<<r, l>>] ELSE [hears |-> hears[l], owner |-> None]
  BY <1>1 DEF FreshPrints
<1> HIDE DEF fresh
<1>3. Kept(s, fresh, acc)
  BY DEF fresh
<1>4. CASE r = s
  <2>1. acc.prints[<<r, l>>].hears = fresh[<<r, l>>].hears
    BY <1>1, <1>3 DEF Kept
  <2> QED BY <1>2, <1>4, <2>1
<1>5. CASE r # s
  BY <1>1, <1>2, <1>3, <1>5 DEF Kept
<1> QED BY <1>4, <1>5

LEMMA TypePublish ==
  ASSUME TypeOK, HearingInv, NEW s \in Sessions, Publish(s)
  PROVE  TypeOK' /\ HearingInv'
<1>1. PICK hears \in Hearings :
         /\ Kept(s, FreshPrints(s, hears), Applied(s, FreshPrints(s, hears)))
         /\ prints' = Applied(s, FreshPrints(s, hears)).prints
         /\ pins' = Applied(s, FreshPrints(s, hears)).pins
         /\ Forget(s, {v \in Voices : \A l \in Labels : hears[l] # v})
         /\ stood' = [a \in Addresses |->
                        stood[a] \union (IF a[1] = s THEN {hears[a[2]]} \ {Nobody} ELSE {})]
  BY PublishedIs
<1>2. /\ snapshots' = [snapshots EXCEPT ![s].applied = TRUE]
      /\ diarized' = [diarized EXCEPT ![s] = TRUE]
      /\ UNCHANGED <<speakers, named, created, view>>
  BY DEF Publish
<1>3. spent' \in [{"user", "rebuild", "rerun"} -> Nat]
  <2>1. IF diarized[s] THEN May("rerun", Reruns) /\ Spend("rerun") ELSE UNCHANGED spent
    BY DEF Publish
  <2>2. spent["rerun"] \in Nat /\ spent \in [{"user", "rebuild", "rerun"} -> Nat]
    BY DEF TypeOK
  <2>3. CASE diarized[s]
    BY <2>1, <2>2, <2>3 DEF Spend
  <2>4. CASE ~diarized[s]
    BY <2>1, <2>2, <2>4
  <2> QED BY <2>3, <2>4
<1>4. \A a \in Addresses : prints'[a].hears = Nobody => prints'[a].owner = None
  BY <1>1 DEF Kept
<1>5. /\ prints' \in [Addresses -> [hears : Voices \union {Nobody}, owner : speakers' \union {None}]]
      /\ pins' \in [Addresses -> speakers' \union {None}]
  BY <1>1, <1>2 DEF Kept, PrintType
<1>6. meant' \in [Sessions -> [Voices -> created' \union {None}]] /\ dropped' \subseteq Sessions \X Voices
  BY <1>1, <1>2, Forgotten
<1>7. snapshots' \in [Sessions -> [applied : BOOLEAN, labels : [Labels -> RecordType]]]
  BY <1>2 DEF TypeOK
<1>8. diarized' \in [Sessions -> BOOLEAN]
  BY <1>2 DEF TypeOK
<1>9. stood' \in [Addresses -> SUBSET Voices]
  <2>1. \A a \in Addresses : hears[a[2]] \in Voices \union {Nobody}
    BY DEF Addresses, Hearings
  <2> QED BY <1>1, <2>1 DEF TypeOK
<1>10. TypeOK'
  BY <1>2, <1>3, <1>4, <1>5, <1>6, <1>7, <1>8, <1>9 DEF TypeOK
<1>11. HearingInv'
  <2> SUFFICES ASSUME NEW r \in Sessions, NEW l \in Labels, prints'[<<r, l>>].hears # Nobody
               PROVE  /\ diarized'[r] /\ prints'[<<r, l>>].hears \in stood'[<<r, l>>]
                      /\ \A k \in Labels : prints'[<<r, k>>].hears = prints'[<<r, l>>].hears => k = l
    BY DEF HearingInv
  <2>1. <<r, l>> \in Addresses /\ <<r, l>>[1] = r /\ <<r, l>>[2] = l
    BY DEF Addresses
  <2>2. stood'[<<r, l>>] = stood[<<r, l>>] \union (IF r = s THEN {hears[l]} \ {Nobody} ELSE {})
    BY <1>1, <2>1
  <2>3. CASE r # s
    <3>1. \A k \in Labels : prints'[<<r, k>>] = prints[<<r, k>>]
      BY <1>1, <2>3, PublishedSpeech
    <3>2. diarized'[r] = diarized[r]
      BY <1>2, <2>3 DEF TypeOK
    <3> QED BY <2>2, <2>3, <3>1, <3>2 DEF HearingInv
  <2>4. CASE r = s
    <3>1. \A k \in Labels : prints'[<<s, k>>].hears = hears[k]
      BY <1>1, PublishedSpeech
    <3>2. diarized'[s]
      BY <1>2 DEF TypeOK
    <3>3. \A k, m \in Labels : k # m /\ hears[k] # Nobody => hears[k] # hears[m]
      BY DEF Hearings
    <3> QED BY <2>2, <2>4, <3>1, <3>2, <3>3
  <2> QED BY <2>3, <2>4
<1> QED BY <1>10, <1>11

----------------------------------------------------------------------------
(* What a rebuild has read.                                                *)

LEMMA SpeechKept ==
  ASSUME TypeOK, TypeOK', SameSpeech
  PROVE  /\ Printed' = Printed
         /\ HearingInv => HearingInv'
         /\ ViewInv /\ view' = view => ViewInv'
<1>1. Printed' = Printed
  <2>1. Printed' = {a \in Addresses : prints'[a].hears # Nobody}
    BY DEF TypeOK, Printed, NoPrint
  <2> QED BY <2>1, PrintedIsHeard DEF SameSpeech
<1>2. ASSUME HearingInv PROVE HearingInv'
  <2>1. \A s \in Sessions, l \in Labels : prints'[<<s, l>>].hears = prints[<<s, l>>].hears
    BY DEF SameSpeech, Addresses
  <2>2. diarized' = diarized /\ stood' = stood
    BY DEF SameSpeech
  <2> SUFFICES ASSUME NEW s \in Sessions, NEW l \in Labels, prints'[<<s, l>>].hears # Nobody
               PROVE  /\ diarized'[s] /\ prints'[<<s, l>>].hears \in stood'[<<s, l>>]
                      /\ \A k \in Labels : prints'[<<s, k>>].hears = prints'[<<s, l>>].hears => k = l
    BY DEF HearingInv
  <2>3. /\ diarized[s] /\ prints[<<s, l>>].hears \in stood[<<s, l>>]
        /\ \A k \in Labels : prints[<<s, k>>].hears = prints[<<s, l>>].hears => k = l
    BY <1>2, <2>1 DEF HearingInv
  <2> QED BY <2>1, <2>2, <2>3
<1>3. ASSUME ViewInv, view' = view PROVE ViewInv'
  <2>1. \A C : PinnedIn(C)' = PinnedIn(C)
    BY <1>3 DEF PinnedIn
  <2> QED BY <1>1, <1>3, <2>1 DEF ViewInv
<1> QED BY <1>1, <1>2, <1>3

\* A permutation of a finite set, as a sequence, has each element once.
LEMMA EachOnce ==
  ASSUME NEW S, IsFiniteSet(S), NEW order \in SetToSeqs(S)
  PROVE  /\ order \in Seq(S)
         /\ \A i, j \in 1..Len(order) : i # j => order[i] # order[j]
         /\ \A x \in S : \E i \in 1..Len(order) : order[i] = x
<1> DEFINE D == 1..Cardinality(S)
<1>1. Cardinality(S) \in Nat
  BY FS_CardinalityType
<1>2. order \in [D -> S] /\ \A i, j \in D : i # j => order[i] # order[j]
  BY DEF SetToSeqs
<1>3. order \in Seq(S) /\ Len(order) = Cardinality(S)
  BY <1>1, <1>2
<1>4. order \in Surjection(D, S)
  <2>1. order \in Injection(D, S)
    BY <1>2 DEF Injection, IsInjective
  <2>2. Cardinality(D) = Cardinality(S)
    BY <1>1, FS_Interval
  <2> HIDE DEF D
  <2> QED BY <2>1, <2>2, FS_Injection
<1> QED BY <1>2, <1>3, <1>4 DEF Surjection

\* The clusters of a choice, each with the prints that point where a print points.
ClusterOf(rep, a) == {b \in Printed : rep[b] = rep[a]}
TakingPart(rep) == {b \in Printed : rep[b] # <<>>}
ClustersOf(rep) == {ClusterOf(rep, a) : a \in TakingPart(rep)}

LEMMA ClustersAreFinite ==
  ASSUME NEW rep
  PROVE  IsFiniteSet(ClustersOf(rep))
<1> DEFINE f == [a \in TakingPart(rep) |-> ClusterOf(rep, a)]
<1>1. IsFiniteSet(TakingPart(rep))
  BY Domains, FS_Subset DEF TakingPart, Printed
<1>2. f \in Surjection(TakingPart(rep), ClustersOf(rep))
  BY DEF Surjection, ClustersOf
<1> HIDE DEF f
<1> QED BY <1>1, <1>2, FS_Surjection

LEMMA ClustersAreApart ==
  ASSUME NEW rep \in Clusterings(Printed)
  PROVE  /\ \A C \in ClustersOf(rep) : C \in SUBSET Printed
         /\ \A C, D \in ClustersOf(rep) :
               /\ C # D => C \intersect D = {}
               /\ C # D => \A a \in C, b \in D : pins[a] # None => pins[a] # pins[b]
               /\ \A a, b \in C : pins[a] # None /\ pins[b] # None => pins[a] = pins[b]
         /\ \A a \in Printed : pins[a] # None => \E C \in ClustersOf(rep) : a \in C
<1>1. /\ \A a, b \in {c \in Printed : rep[c] # <<>> /\ pins[c] # None} :
            pins[a] = pins[b] <=> rep[a] = rep[b]
      /\ \A a \in Printed : pins[a] # None => rep[a] # <<>>
  BY DEF Clusterings, Respects
<1>2. \A C \in ClustersOf(rep) : /\ C \in SUBSET Printed
                                 /\ \A a \in C : a \in TakingPart(rep) /\ C = ClusterOf(rep, a)
  BY DEF ClustersOf, ClusterOf, TakingPart
<1>3. \A C, D \in ClustersOf(rep) : C # D => C \intersect D = {}
  BY <1>2
<1>4. \A C \in ClustersOf(rep) : \A a, b \in C :
         pins[a] # None /\ pins[b] # None => pins[a] = pins[b]
  BY <1>1, <1>2 DEF ClusterOf, TakingPart
<1>5. ASSUME NEW C \in ClustersOf(rep), NEW D \in ClustersOf(rep), C # D,
             NEW a \in C, NEW b \in D, pins[a] # None, pins[a] = pins[b]
      PROVE  FALSE
  <2>1. a \in TakingPart(rep) /\ C = ClusterOf(rep, a) /\ b \in TakingPart(rep) /\ D = ClusterOf(rep, b)
    BY <1>2
  <2>2. rep[a] = rep[b]
    BY <1>1, <1>5, <2>1 DEF TakingPart
  <2> QED BY <1>5, <2>1, <2>2 DEF ClusterOf
<1>6. ASSUME NEW a \in Printed, pins[a] # None
      PROVE  \E C \in ClustersOf(rep) : a \in C
  <2>1. a \in TakingPart(rep) /\ a \in ClusterOf(rep, a)
    BY <1>1, <1>6 DEF ClusterOf, TakingPart
  <2> QED BY <2>1 DEF ClustersOf
<1> QED BY <1>2, <1>3, <1>4, <1>5, <1>6

LEMMA ViewIsRead ==
  ASSUME TypeOK, RebuildRead
  PROVE  ViewInv'
<1> DEFINE Pinned(C) == \E a \in C : pins[a] # None
           Before(C, D) == \/ Pinned(C) /\ ~Pinned(D)
                           \/ (Pinned(C) <=> Pinned(D)) /\ Cardinality(C) > Cardinality(D)
<1>1. PICK rep \in Clusterings(Printed) : \E order \in SetToSeqs(ClustersOf(rep)) :
         /\ \A i, j \in DOMAIN order : i < j => ~Before(order[j], order[i])
         /\ view' = [open |-> TRUE, pins |-> pins, prints |-> prints, order |-> order]
  BY DEF RebuildRead, ClustersOf, ClusterOf, TakingPart
<1>2. PICK order \in SetToSeqs(ClustersOf(rep)) :
         /\ \A i, j \in DOMAIN order : i < j => ~Before(order[j], order[i])
         /\ view' = [open |-> TRUE, pins |-> pins, prints |-> prints, order |-> order]
  BY <1>1
<1> DEFINE last == Len(order)
<1>3. /\ order \in Seq(ClustersOf(rep)) /\ DOMAIN order = 1..last /\ last \in Nat
      /\ \A i, j \in 1..last : i # j => order[i] # order[j]
      /\ \A C \in ClustersOf(rep) : \E i \in 1..last : order[i] = C
      /\ \A i \in 1..last : order[i] \in ClustersOf(rep)
  <2>1. order \in Seq(ClustersOf(rep))
    BY ClustersAreFinite, EachOnce
  <2> QED BY <2>1, ClustersAreFinite, EachOnce
<1>4. Printed' = Printed
  BY DEF RebuildRead, Printed
<1>5. order \in Seq(SUBSET Printed)
  BY <1>3, ClustersAreApart
<1>6. pins \in [Addresses -> Ids \union {None}]
  BY DEF TypeOK
<1>7. \A a \in Printed : pins[a] # None => \E i \in 1..last : a \in order[i]
  BY <1>3, ClustersAreApart
<1> DEFINE In(C) == {pins[a] : a \in C} \ {None}
<1>8. ASSUME NEW i \in 1..last, NEW j \in 1..last
      PROVE  /\ i # j => order[i] \intersect order[j] = {}
             /\ i # j => In(order[i]) \intersect In(order[j]) = {}
             /\ i < j /\ In(order[j]) # {} => In(order[i]) # {}
             /\ \A p, q \in In(order[i]) : p = q
  <2>1. order[i] \in ClustersOf(rep) /\ order[j] \in ClustersOf(rep) /\ (i # j => order[i] # order[j])
    BY <1>3
  <2>2. i # j => order[i] \intersect order[j] = {}
    BY <2>1, ClustersAreApart
  <2>3. i # j => In(order[i]) \intersect In(order[j]) = {}
    BY <2>1, ClustersAreApart
  <2>4. \A p, q \in In(order[i]) : p = q
    BY <2>1, ClustersAreApart
  <2>5. ASSUME i < j, In(order[j]) # {} PROVE In(order[i]) # {}
    <3>1. ~Before(order[j], order[i])
      BY <1>2, <1>3, <2>5
    <3> QED BY <2>5, <3>1
  <2> QED BY <2>2, <2>3, <2>4, <2>5
<1>9. view'.order = order /\ view'.pins = pins
  BY <1>2
<1>10. \A C : PinnedIn(C)' = In(C)
  BY <1>9 DEF PinnedIn
<1> HIDE DEF In
<1> QED BY <1>3, <1>4, <1>5, <1>6, <1>7, <1>8, <1>9, <1>10 DEF ViewInv

----------------------------------------------------------------------------
(* Every step, and the statements about a rebuild.                         *)

Base == TypeOK /\ HearingInv /\ ViewInv

\* No act of the user, and no rebuild, changes what is heard.
LEMMA QuietSteps ==
  ASSUME Base, Curate \/ Rebuild
  PROVE  Base' /\ SameSpeech
<1>1. CASE Curate
  <2>1. TypeOK' /\ SameSpeech
    BY <1>1, TypeReassign, TypeUnpin, TypeName, TypeMerge DEF Curate, Base
  <2>2. view' = view
    BY <1>1 DEF Curate, Reassign, Unpin, Name, Merge
  <2> QED BY <2>1, <2>2, SpeechKept DEF Base
<1>2. CASE RebuildRead
  BY <1>2, TypeRead, SpeechKept, ViewIsRead DEF Base
<1>3. CASE RebuildWrite
  <2>1. TypeOK' /\ SameSpeech
    BY <1>3, TypeWrite DEF Base
  <2>2. ViewInv'
    BY <1>3 DEF RebuildWrite, ViewInv, NoView
  <2> QED BY <2>1, <2>2, SpeechKept DEF Base
<1>4. CASE RebuildFails
  <2>1. view'.open = FALSE /\ UNCHANGED <<prints, pins, speakers, named, created, snapshots,
                                          diarized, meant, spent, stood, dropped>>
    BY <1>4 DEF RebuildFails, NoView
  <2>2. TypeOK' /\ SameSpeech
    BY <2>1 DEF TypeOK, SameSpeech, Base
  <2>3. ViewInv'
    BY <2>1 DEF ViewInv
  <2> QED BY <2>2, <2>3, SpeechKept DEF Base
<1> QED BY <1>1, <1>2, <1>3, <1>4 DEF Rebuild

LEMMA BaseNext ==
  ASSUME Base, [Next]_vars
  PROVE  Base'
<1>1. CASE Curate \/ Rebuild
  BY <1>1, QuietSteps
<1>2. ASSUME NEW s \in Sessions, Publish(s) PROVE Base'
  <2>1. view.open = FALSE /\ view' = view
    BY <1>2 DEF Publish, Base, TypeOK
  <2>2. ViewInv'
    BY <2>1 DEF ViewInv
  <2> QED BY <1>2, <2>2, TypePublish DEF Base
<1>3. ASSUME NEW s \in Sessions, NEW carry \in BOOLEAN, Rediarize(s, carry) PROVE Base'
  <2>1. view.open = FALSE /\ view' = view
    BY <1>3 DEF Rediarize, Base, TypeOK
  <2>2. ViewInv'
    BY <2>1 DEF ViewInv
  <2> QED BY <1>3, <2>2, TypeRediarize DEF Base
<1>4. CASE UNCHANGED vars
  <2>1. TypeOK' /\ SameSpeech /\ view' = view
    BY <1>4 DEF vars, TypeOK, SameSpeech, Base
  <2> QED BY <2>1, SpeechKept DEF Base
<1> QED BY <1>1, <1>2, <1>3, <1>4 DEF Next, Diarize

\* Every variable keeps its type: what is assigned or pinned is a speaker that
\* exists, also after a rebuild that worked on an old view of the corpus.
THEOREM TypeCorrect == Spec => []TypeOK
<1>1. Init => Base
  BY TypeInit DEF Base
<1>2. Base /\ [Next]_vars => Base'
  BY BaseNext
<1>3. Base => TypeOK
  BY DEF Base
<1> QED BY <1>1, <1>2, <1>3, PTL DEF Spec

\* A rebuild gives a pinned print to the speaker it is pinned to, unless the user
\* moved the pin after it had read it (SpeakersRepo.pin, _reconcile).
THEOREM PinsAreHonoured == Spec => RebuildHonoursPins
<1> DEFINE A == RebuildWrite => \A a \in Printed :
          pins[a] # None /\ pins[a] = view.pins[a] => prints'[a].owner = pins[a]
<1>1. ASSUME Base, RebuildWrite, NEW a \in Printed, pins[a] # None, pins[a] = view.pins[a]
      PROVE  prints'[a].owner = pins[a]
  <2>1. /\ view.open /\ Cardinality(Ids \ created) >= Len(view.order)
        /\ TypeOK /\ ViewInv
    BY <1>1 DEF RebuildWrite, Base
  <2>2. PICK i \in 1..Len(view.order) : a \in view.order[i]
    BY <1>1, <2>1 DEF ViewInv
  <2>3. pins[a] \in speakers /\ pins[a] \in Nat
    BY <1>1, <2>1, Domains DEF TypeOK, Printed
  <2>4. PinnedIn(view.order[i]) = {pins[a]}
    <3>1. pins[a] \in PinnedIn(view.order[i])
      BY <1>1, <2>2 DEF PinnedIn
    <3>2. \A p, q \in PinnedIn(view.order[i]) : p = q
      BY <2>1 DEF ViewInv
    <3> QED BY <3>1, <3>2
  <2>5. WhoIs(i) = pins[a]
    <3>1. Placed(i - 1)
      BY <2>1, EveryClusterIsPlaced
    <3>2. /\ Reconciling[i - 1].created \subseteq Ids /\ Ids \ Reconciling[i - 1].created # {}
          /\ view.order[i] \in SUBSET Addresses
      BY <2>1, <3>1, PlacedNext
    <3>3. Who(Reconciling[i - 1], view.order[i])
             \in (IF pins[a] \in speakers THEN {pins[a]} ELSE Ids \ Reconciling[i - 1].created)
      BY <2>1, <2>3, <2>4, <3>2, WhoItIs
    <3> QED BY <2>3, <3>3 DEF WhoIs
  <2>6. prints'[a].owner = WhoIs(i)
    BY <1>1, <2>1, <2>2, WrittenIs
  <2> QED BY <2>5, <2>6
<1>2. Base /\ [Next]_vars => [A]_vars
  BY <1>1
<1>3. Init => Base
  BY TypeInit DEF Base
<1>4. Base /\ [Next]_vars => Base'
  BY BaseNext
<1> QED BY <1>2, <1>3, <1>4, PTL DEF Spec, RebuildHonoursPins

\* Clusters of a rebuild become different speakers, and each becomes one; and a name
\* is lost only by the user's word (_reconcile, delete_empty_unlabeled).
THEOREM IdentitiesAreKept == Spec => IdentitiesLast
<1> DEFINE Loss == \A id \in named \ named' : Dropped(id)
<1>1. ASSUME Base, RebuildWrite PROVE Apart
  <2>1. /\ view.open /\ Cardinality(Ids \ created) >= Len(view.order)
        /\ TypeOK /\ ViewInv
    BY <1>1 DEF RebuildWrite, Base
  <2>2. /\ Len(view.order) \in Nat /\ DOMAIN view.order = 1..Len(view.order)
        /\ \A i, j \in 1..Len(view.order) : WhoIs(i) = WhoIs(j) => i = j
    <3>1. DOMAIN view.order = 1..Len(view.order)
      BY <2>1 DEF ViewInv
    <3> QED BY <2>1, <3>1, EveryClusterIsPlaced
  <2>3. \A i \in 1..Len(view.order) : \A a \in view.order[i] : prints'[a].owner = WhoIs(i)
    BY <1>1, <2>1, WrittenIs
  <2> QED BY <2>2, <2>3 DEF Apart
<1>2. ASSUME Base, Next PROVE Loss
  <2>1. ASSUME NEW a \in Addresses, NEW to \in Ids, Reassign(a, to) PROVE named \subseteq named'
    <3>1. PICK names \in {named, named \union ({to} \ speakers)} : \E rows, moved :
             named' = names \ Prunable(moved, rows, names)
      BY <2>1 DEF Reassign
    <3> QED BY <3>1 DEF Prunable
  <2>2. ASSUME NEW a \in Addresses, Unpin(a) PROVE named \subseteq named'
    BY <2>2 DEF Unpin
  <2>3. ASSUME NEW id \in Ids, Name(id) PROVE Loss
    <3>1. named \ named' \subseteq {id}
      BY <2>3 DEF Name
    <3> QED BY <2>3, <3>1 DEF Dropped
  <2>4. ASSUME NEW loser \in Ids, NEW survivor \in Ids, Merge(loser, survivor) PROVE Loss
    <3>1. named \ named' \subseteq {loser} /\ survivor \in speakers
      BY <2>4 DEF Merge
    <3> QED BY <2>4, <3>1 DEF Dropped
  <2>5. RebuildWrite => named' = named
    BY <1>2, WrittenIs DEF Base
  <2>6. RebuildRead \/ RebuildFails \/ Diarize => named' = named
    BY DEF RebuildRead, RebuildFails, Diarize, Publish, Rediarize
  <2> QED BY <1>2, <2>1, <2>2, <2>3, <2>4, <2>5, <2>6 DEF Next, Curate, Rebuild
<1>3. Base /\ [Next]_vars => [(RebuildWrite => Apart) /\ Loss]_vars
  BY <1>1, <1>2
<1>4. Init => Base
  BY TypeInit DEF Base
<1>5. Base /\ [Next]_vars => Base'
  BY BaseNext
<1> QED BY <1>3, <1>4, <1>5, PTL DEF Spec, IdentitiesLast

----------------------------------------------------------------------------
(* What is meant, between diarizations.                                    *)

LEMMA NothingHeard ==
  ASSUME HearingInv, NEW s \in Sessions, ~diarized[s]
  PROVE  /\ \A l \in Labels : prints[<<s, l>>].hears = Nobody
         /\ \A v \in Voices : ~Heard(s, v)
BY Domains DEF HearingInv, Heard

\* What is heard at a printed address.
LEMMA PrintedIsSomewhere ==
  ASSUME Base, NEW a \in Printed
  PROVE  /\ a \in Addresses /\ a = <<a[1], a[2]>> /\ a[1] \in Sessions /\ a[2] \in Labels
         /\ prints[a].hears \in Voices /\ prints[a].hears \in stood[a] /\ diarized[a[1]]
         /\ Heard(a[1], prints[a].hears)
<1>1. a \in Addresses /\ prints[a].hears # Nobody
  BY PrintedIsHeard DEF Base
<1>2. a = <<a[1], a[2]>> /\ a[1] \in Sessions /\ a[2] \in Labels
  BY <1>1 DEF Addresses
<1>3. prints[a].hears \in Voices
  BY <1>1 DEF TypeOK, Base
<1>4. Heard(a[1], prints[a].hears)
  BY <1>2 DEF Heard
<1>5. prints[a].hears \in stood[a] /\ diarized[a[1]]
  BY <1>1, <1>2 DEF HearingInv, Base
<1> QED BY <1>1, <1>2, <1>3, <1>4, <1>5

\* A voice of a session has one address.
LEMMA OneAddress ==
  ASSUME Base, NEW a \in Printed, NEW b \in Printed,
         a[1] = b[1], prints[a].hears = prints[b].hears
  PROVE  a = b
<1>1. /\ a = <<a[1], a[2]>> /\ a[1] \in Sessions /\ a[2] \in Labels /\ prints[a].hears # Nobody
      /\ b = <<b[1], b[2]>> /\ b[2] \in Labels
  BY PrintedIsSomewhere, Domains
<1>2. a[2] = b[2]
  BY <1>1 DEF HearingInv, Base
<1> QED BY <1>1, <1>2

\* What is said of the voice of a print.
Said(a) == meant[a[1]][prints[a].hears]

\* The pin of a print that was left as it was, and one that was set to what is meant.
Untouched(a) ==
    /\ meant'[a[1]][prints[a].hears] = Said(a)
    /\ pins'[a] = IF pins[a] \in speakers' THEN pins[a] ELSE None
AsSaid(a) ==
    LET said == meant'[a[1]][prints[a].hears]
    IN  pins'[a] = IF said \in speakers' THEN said ELSE None

\* What a quiet step owes: only of voices that are heard is anything meant anew, only
\* printed labels get pins, which then say so, and no id is used again.
Considerate ==
    /\ \A s \in Sessions, v \in Voices : ~Heard(s, v) => meant'[s][v] = meant[s][v]
    /\ \A a \in Addresses \ Printed : pins'[a] \in {pins[a], None}
    /\ created \subseteq created' /\ speakers' \intersect created \subseteq speakers
    /\ \A a \in Printed : Untouched(a) \/ AsSaid(a)

LEMMA QuietCarry ==
  ASSUME Base, SameSpeech, Base', Considerate, NEW s \in Sessions, CarryOf(s)
  PROVE  CarryOf(s)'
<1>1. /\ diarized' = diarized /\ snapshots' = snapshots /\ stood' = stood /\ dropped' = dropped
      /\ \A l \in Labels : /\ prints'[<<s, l>>].hears = prints[<<s, l>>].hears
                           /\ <<s, l>> \in Addresses /\ <<s, l>>[1] = s
  BY DEF SameSpeech, Addresses
<1>2. \A v \in Voices : Heard(s, v)' = Heard(s, v) /\ Shares(s, v)' = Shares(s, v)
  BY <1>1 DEF Heard, Shares
<1>3. \A v \in Voices : /\ meant[s][v] \in created \union {None}
                        /\ meant[s][v] \in speakers' => meant[s][v] \in speakers
  <2>1. None \notin speakers'
    BY Domains DEF Base, TypeOK
  <2> QED BY <2>1 DEF Base, TypeOK, Considerate
<1>4. \A l \in Labels : <<s, l>> \notin Printed => pins'[<<s, l>>] \in {pins[<<s, l>>], None}
  BY <1>1 DEF Considerate
<1>5. \A l \in Labels : <<s, l>> \in Printed =>
         /\ prints[<<s, l>>].hears \in stood[<<s, l>>] /\ diarized[s]
         /\ Untouched(<<s, l>>) \/ AsSaid(<<s, l>>)
  BY <1>1, PrintedIsSomewhere DEF Considerate
<1>6. ASSUME NEW l \in Labels, stood[<<s, l>>] = {}
      PROVE  pins'[<<s, l>>] = None
  BY <1>4, <1>5, <1>6 DEF CarryOf
<1>7. ASSUME diarized[s] \/ snapshots[s].applied, NEW v \in Voices
      PROVE  Heard(s, v) \/ meant'[s][v] = None
  BY <1>7 DEF CarryOf, Considerate
<1>8. ASSUME ~snapshots[s].applied
      PROVE  Holds(s)'
  <2> DEFINE records == snapshots[s].labels
  <2>1. Holds(s)
    BY <1>8 DEF CarryOf
  <2>2. ~diarized[s] /\ \A v \in Voices : meant'[s][v] = meant[s][v]
    BY <2>1, NothingHeard DEF Base, Holds, Considerate
  <2>3. /\ \A l \in Labels : records[l].id # None => records[l].hears \in stood[<<s, l>>]
        /\ \A k, l \in Labels : records[k].id # None /\ records[l].id # None
              /\ records[k].hears = records[l].hears => k = l
        /\ \A l \in Labels : records[l].id \in created' \union {None}
        /\ \A l \in Labels : records[l].pinned => records[l].id # None
    BY <2>1 DEF Holds, Considerate
  <2>4. ASSUME NEW v \in Voices, ~Shares(s, v)
        PROVE  /\ \A l \in Labels : records[l].pinned /\ records[l].hears = v =>
                    \/ meant'[s][v] = records[l].id
                    \/ <<s, v>> \in dropped /\ meant'[s][v] \notin speakers'
               /\ meant'[s][v] \in speakers' =>
                    \E l \in Labels : records[l].pinned /\ records[l].hears = v
    BY <1>3, <2>1, <2>2, <2>4 DEF Holds
  <2>5. snapshots'[s].labels = records /\ ~diarized'[s]
    BY <1>1, <2>2
  <2> HIDE DEF records
  <2> QED BY <1>1, <1>2, <2>3, <2>4, <2>5 DEF Holds
<1>9. ASSUME NEW v \in Voices, ~Shares(s, v)
      PROVE  Follows(s, v)'
  <2> SUFFICES ASSUME NEW l \in Labels, prints[<<s, l>>].hears = v, meant'[s][v] \in speakers'
               PROVE  pins'[<<s, l>>] = meant'[s][v]
    BY <1>1 DEF Follows
  <2>1. <<s, l>> \in Printed
    BY <1>1, PrintedIsHeard, Domains DEF Base
  <2>2. CASE AsSaid(<<s, l>>)
    BY <1>1, <2>2 DEF AsSaid
  <2>3. CASE Untouched(<<s, l>>)
    <3>1. meant'[s][v] = meant[s][v]
      BY <1>1, <2>3 DEF Untouched, Said
    <3>2. pins[<<s, l>>] = meant[s][v]
      BY <1>3, <1>9, <3>1 DEF CarryOf, Follows
    <3> QED BY <2>3, <3>1, <3>2 DEF Untouched
  <2> QED BY <1>5, <2>1, <2>2, <2>3
<1>10. ASSUME NEW v \in Voices, ~Shares(s, v), <<s, v>> \notin dropped
       PROVE  Clean(s, v)'
  <2> SUFFICES ASSUME NEW l \in Labels, v \in stood[<<s, l>>], pins'[<<s, l>>] # None
               PROVE  /\ pins'[<<s, l>>] = meant'[s][v]
                      /\ diarized[s] => prints[<<s, l>>].hears = v
                      /\ ~diarized[s] => /\ ~snapshots[s].applied
                                         /\ snapshots[s].labels[l].pinned
                                         /\ snapshots[s].labels[l].hears = v
    BY <1>1 DEF Clean
  <2>1. Clean(s, v) /\ stood[<<s, l>>] = {v}
    BY <1>10 DEF CarryOf, Shares
  <2>2. CASE <<s, l>> \notin Printed
    <3>1. pins'[<<s, l>>] = pins[<<s, l>>] /\ pins[<<s, l>>] # None
      BY <1>4, <2>2
    <3>2. prints[<<s, l>>].hears # v
      BY <1>1, <2>2, PrintedIsHeard, Domains DEF Base
    <3>3. ~diarized[s]
      BY <2>1, <3>1, <3>2 DEF Clean
    <3>4. meant'[s][v] = meant[s][v]
      BY <3>3, NothingHeard DEF Base, Considerate
    <3> QED BY <2>1, <3>1, <3>3, <3>4 DEF Clean
  <2>3. CASE <<s, l>> \in Printed
    <3>1. prints[<<s, l>>].hears = v /\ diarized[s]
      BY <1>5, <2>1, <2>3
    <3>2. CASE AsSaid(<<s, l>>)
      BY <1>1, <3>1, <3>2 DEF AsSaid
    <3>3. CASE Untouched(<<s, l>>)
      BY <1>1, <2>1, <3>1, <3>3 DEF Untouched, Said, Clean
    <3> QED BY <1>5, <2>3, <3>1, <3>2, <3>3
  <2> QED BY <2>2, <2>3
<1> QED BY <1>1, <1>2, <1>6, <1>7, <1>8, <1>9, <1>10 DEF CarryOf

LEMMA ConsiderateReassign ==
  ASSUME Base, NEW a \in Addresses, NEW to \in Ids, Reassign(a, to)
  PROVE  Considerate
<1>1. PICK gone : /\ pins' = Cascade(gone, Pin(pins, a, to))
                  /\ speakers' = (speakers \union {to}) \ gone
  BY DEF Reassign
<1>2. /\ a \in Printed /\ created' = created \union {to} /\ to \in speakers \union (Ids \ created)
      /\ meant' = [meant EXCEPT ![a[1]][prints[a].hears] = to]
  BY FreshIsNew DEF Reassign, Base, TypeOK
<1>3. \A b \in Addresses : pins'[b] = IF (IF b = a THEN to ELSE pins[b]) \in gone THEN None
                                      ELSE IF b = a THEN to ELSE pins[b]
  BY <1>1 DEF Cascade, Pin, Base, TypeOK
<1>4. /\ a[1] \in Sessions /\ prints[a].hears \in Voices /\ Heard(a[1], prints[a].hears)
  BY <1>2, PrintedIsSomewhere
<1>5. meant \in [Sessions -> [Voices -> created \union {None}]]
  BY DEF Base, TypeOK
<1>6. \A s \in Sessions, v \in Voices : ~Heard(s, v) => meant'[s][v] = meant[s][v]
  BY <1>2, <1>4, <1>5
<1>7. \A b \in Addresses \ Printed : pins'[b] \in {pins[b], None}
  BY <1>2, <1>3
<1>8. created \subseteq created' /\ speakers' \intersect created \subseteq speakers
  BY <1>1, <1>2
<1>9. ASSUME NEW b \in Printed
      PROVE  Untouched(b) \/ AsSaid(b)
  <2>1. b \in Addresses /\ b[1] \in Sessions /\ prints[b].hears \in Voices
    BY PrintedIsSomewhere
  <2>2. CASE b = a
    <3>1. meant'[a[1]][prints[a].hears] = to
      BY <1>2, <1>4, <1>5
    <3> QED BY <1>1, <1>3, <2>1, <2>2, <3>1 DEF AsSaid
  <2>3. CASE b # a
    <3>1. b[1] # a[1] \/ prints[b].hears # prints[a].hears
      BY <1>2, <2>3, OneAddress
    <3>2. meant'[b[1]][prints[b].hears] = Said(b)
      BY <1>2, <1>4, <1>5, <2>1, <3>1 DEF Said
    <3>3. pins'[b] = IF pins[b] \in gone THEN None ELSE pins[b]
      BY <1>3, <2>1, <2>3
    <3>4. pins[b] \in speakers \union {None} /\ None \notin speakers \union {to}
      BY <2>1, Domains DEF Base, TypeOK
    <3>5. pins'[b] = IF pins[b] \in speakers' THEN pins[b] ELSE None
      BY <1>1, <3>3, <3>4
    <3> QED BY <3>2, <3>5 DEF Untouched
  <2> QED BY <2>2, <2>3
<1> QED BY <1>6, <1>7, <1>8, <1>9 DEF Considerate

LEMMA ConsiderateUnpin ==
  ASSUME Base, NEW a \in Addresses, Unpin(a)
  PROVE  Considerate
<1>1. /\ a \in Printed /\ pins' = [pins EXCEPT ![a] = None]
      /\ meant' = [meant EXCEPT ![a[1]][prints[a].hears] = None]
      /\ UNCHANGED <<speakers, created>>
  BY DEF Unpin, Pin
<1>2. /\ a[1] \in Sessions /\ prints[a].hears \in Voices /\ Heard(a[1], prints[a].hears)
  BY <1>1, PrintedIsSomewhere
<1>3. /\ meant \in [Sessions -> [Voices -> created \union {None}]]
      /\ pins \in [Addresses -> speakers \union {None}] /\ None \notin speakers
  BY Domains DEF Base, TypeOK
<1>4. \A s \in Sessions, v \in Voices : ~Heard(s, v) => meant'[s][v] = meant[s][v]
  BY <1>1, <1>2, <1>3
<1>5. \A b \in Addresses \ Printed : pins'[b] \in {pins[b], None}
  BY <1>1, <1>3
<1>6. ASSUME NEW b \in Printed
      PROVE  Untouched(b) \/ AsSaid(b)
  <2>1. b \in Addresses /\ b[1] \in Sessions /\ prints[b].hears \in Voices
    BY PrintedIsSomewhere
  <2>2. CASE b = a
    <3>1. meant'[a[1]][prints[a].hears] = None
      BY <1>1, <1>2, <1>3
    <3> QED BY <1>1, <1>3, <2>1, <2>2, <3>1 DEF AsSaid
  <2>3. CASE b # a
    <3>1. b[1] # a[1] \/ prints[b].hears # prints[a].hears
      BY <1>1, <2>3, OneAddress
    <3>2. meant'[b[1]][prints[b].hears] = Said(b)
      BY <1>1, <1>2, <1>3, <2>1, <3>1 DEF Said
    <3>3. pins'[b] = IF pins[b] \in speakers' THEN pins[b] ELSE None
      BY <1>1, <1>3, <2>1, <2>3
    <3> QED BY <3>2, <3>3 DEF Untouched
  <2> QED BY <2>2, <2>3
<1> QED BY <1>1, <1>4, <1>5, <1>6 DEF Considerate

LEMMA ConsiderateMerge ==
  ASSUME Base, NEW loser \in Ids, NEW survivor \in Ids, Merge(loser, survivor)
  PROVE  Considerate
<1> DEFINE both == Members(loser) \union Members(survivor)
           Told(s, v) == \E a \in both : a[1] = s /\ prints[a].hears = v
<1>1. /\ pins' = Cascade({loser}, PinMembersOf(PinMembersOf(pins, loser, survivor), survivor, survivor))
      /\ meant' = [s \in Sessions |-> [v \in Voices |->
                            IF Told(s, v) THEN survivor ELSE meant[s][v]]]
      /\ speakers' = speakers \ {loser} /\ created' = created
      /\ {loser, survivor} \subseteq speakers /\ loser # survivor
  BY DEF Merge
<1>2. both \subseteq Printed
  BY DEF Members
<1>3. \A b \in Addresses : pins'[b] = IF b \in both THEN survivor
                                      ELSE IF pins[b] = loser THEN None ELSE pins[b]
  BY <1>1 DEF Cascade, PinMembersOf
<1>4. \A s \in Sessions, v \in Voices : Told(s, v) => Heard(s, v)
  BY <1>2, PrintedIsSomewhere
<1>5. \A s \in Sessions, v \in Voices : ~Heard(s, v) => meant'[s][v] = meant[s][v]
  <2> HIDE DEF Told
  <2> QED BY <1>1, <1>4
<1>6. \A b \in Addresses \ Printed : pins'[b] \in {pins[b], None}
  <2> HIDE DEF both
  <2> QED BY <1>2, <1>3
<1>7. ASSUME NEW b \in Printed
      PROVE  Untouched(b) \/ AsSaid(b)
  <2>1. b \in Addresses /\ b[1] \in Sessions /\ prints[b].hears \in Voices
    BY PrintedIsSomewhere
  <2>2. Told(b[1], prints[b].hears) <=> b \in both
    BY <1>2, OneAddress
  <2> HIDE DEF Told, both
  <2>3. meant'[b[1]][prints[b].hears] = IF b \in both THEN survivor ELSE Said(b)
    BY <1>1, <2>1, <2>2 DEF Said
  <2>4. pins[b] \in speakers \union {None} /\ None \notin speakers
    BY <2>1, Domains DEF Base, TypeOK
  <2>5. CASE b \in both
    BY <1>1, <1>3, <2>1, <2>3, <2>5 DEF AsSaid
  <2>6. CASE b \notin both
    BY <1>1, <1>3, <2>1, <2>3, <2>4, <2>6 DEF Untouched
  <2> QED BY <2>5, <2>6
<1> HIDE DEF both, Told
<1> QED BY <1>1, <1>5, <1>6, <1>7 DEF Considerate

LEMMA ConsiderateWrite ==
  ASSUME Base, RebuildWrite
  PROVE  Considerate
<1>1. /\ created \subseteq created' /\ (speakers' \ speakers) \intersect created = {}
      /\ pins' = [a \in Addresses |-> IF pins[a] \in speakers' THEN pins[a] ELSE None]
      /\ meant' = meant
  BY WrittenIs DEF Base, RebuildWrite
<1>2. \A b \in Printed : b \in Addresses
  BY DEF Printed
<1> QED BY <1>1, <1>2 DEF Considerate, Untouched, Said

LEMMA CarryQuiet ==
  ASSUME Base, CarryInv, Base', SameSpeech, Curate \/ Rebuild
  PROVE  CarryInv'
<1>1. ASSUME UNCHANGED <<pins, speakers, created, meant>>
      PROVE  Considerate
  <2>1. \A b \in Printed : b \in Addresses
    BY DEF Printed
  <2>2. pins \in [Addresses -> speakers \union {None}]
    BY DEF Base, TypeOK
  <2> QED BY <1>1, <2>1, <2>2 DEF Considerate, Untouched, Said
<1>2. ASSUME NEW id \in Ids, Name(id) PROVE Considerate
  BY <1>1, <1>2 DEF Name
<1>3. RebuildRead \/ RebuildFails => Considerate
  BY <1>1 DEF RebuildRead, RebuildFails
<1>4. Considerate
  BY <1>2, <1>3, ConsiderateReassign, ConsiderateUnpin, ConsiderateMerge, ConsiderateWrite
     DEF Curate, Rebuild
<1> QED BY <1>4, QuietCarry DEF CarryInv

----------------------------------------------------------------------------
(* The snapshot, and what is made of it.                                   *)

\* A diarization of one session is nothing to another.
SameAt(r) ==
    /\ \A l \in Labels : /\ prints'[<<r, l>>] = prints[<<r, l>>] /\ pins'[<<r, l>>] = pins[<<r, l>>]
                         /\ stood'[<<r, l>>] = stood[<<r, l>>]
    /\ \A v \in Voices : <<r, v>> \in dropped' <=> <<r, v>> \in dropped
    /\ meant'[r] = meant[r] /\ snapshots'[r] = snapshots[r] /\ diarized'[r] = diarized[r]
    /\ speakers' = speakers /\ created' = created

LEMMA CarryElsewhere ==
  ASSUME NEW r \in Sessions, CarryOf(r), SameAt(r)
  PROVE  CarryOf(r)'
<1>1. \A v \in Voices : Heard(r, v)' = Heard(r, v) /\ Shares(r, v)' = Shares(r, v)
  BY DEF Heard, Shares, SameAt
<1>2. \A v \in Voices : Follows(r, v) => Follows(r, v)'
  BY DEF Follows, SameAt
<1>3. \A v \in Voices : Clean(r, v) => Clean(r, v)'
  BY DEF Clean, SameAt
<1>4. Holds(r) => Holds(r)'
  BY <1>1 DEF Holds, SameAt
<1> QED BY <1>1, <1>2, <1>3, <1>4 DEF CarryOf, SameAt

\* What the records of a session say.
LEMMA IdentityIs ==
  ASSUME Base, NEW s \in Sessions, NEW l \in Labels
  PROVE  LET a == <<s, l>>
             record == Identities(s)[l]
         IN  /\ record.id # None => /\ a \in Printed /\ record.hears = prints[a].hears
                                    /\ record.id \in created
             /\ record.pinned => record.id # None /\ record.id = pins[a]
             /\ a \in Printed /\ pins[a] # None => record.pinned /\ record.hears = prints[a].hears
             /\ a \notin Printed => record = NoRecord
<1> DEFINE a == <<s, l>>
           id == IF pins[a] # None THEN pins[a] ELSE prints[a].owner
           record == Identities(s)[l]
<1>1. a \in Addresses
  BY DEF Addresses
<1>2. id \in created \union {None}
  BY <1>1 DEF Base, TypeOK
<1>3. record = IF a \in Printed /\ id # None
               THEN [id |-> id, pinned |-> pins[a] # None, hears |-> prints[a].hears]
               ELSE NoRecord
  BY DEF Identities
<1> HIDE DEF record
<1>4. CASE a \in Printed /\ id # None
  <2>1. record.id = id /\ record.pinned = (pins[a] # None) /\ record.hears = prints[a].hears
    BY <1>3, <1>4
  <2> QED BY <1>2, <1>4, <2>1 DEF record
<1>5. CASE ~(a \in Printed /\ id # None)
  <2>1. record = NoRecord /\ record.id = None /\ record.pinned = FALSE
    BY <1>3, <1>5 DEF NoRecord
  <2>2. ~(a \in Printed /\ pins[a] # None)
    BY <1>5
  <2> QED BY <2>1, <2>2 DEF record
<1> QED BY <1>4, <1>5

\* The snapshot that a rerun takes: while one awaits its use nothing is heard, and so
\* it is kept.
LEMMA SnapshotIs ==
  ASSUME Base, NEW s \in Sessions, CarryOf(s)
  PROVE  /\ ~snapshots[s].applied => ~diarized[s] /\ Snapshot(s) = snapshots[s]
         /\ snapshots[s].applied => Snapshot(s) = [applied |-> FALSE, labels |-> Identities(s)]
<1>1. ASSUME ~snapshots[s].applied
      PROVE  ~diarized[s] /\ Snapshot(s) = snapshots[s]
  <2>1. ~diarized[s]
    BY <1>1 DEF CarryOf, Holds
  <2>2. \A l \in Labels : <<s, l>> \notin Printed
    BY <2>1, NothingHeard, PrintedIsHeard DEF Base
  <2>3. \A l \in Labels : Identities(s)[l] = NoRecord
    BY <2>2, IdentityIs
  <2> QED BY <1>1, <2>1, <2>3 DEF Snapshot
<1>2. snapshots[s].applied => Snapshot(s) = [applied |-> FALSE, labels |-> Identities(s)]
  BY DEF Snapshot
<1> QED BY <1>1, <1>2

LEMMA CarryRediarize ==
  ASSUME Base, CarryInv, NEW s \in Sessions, NEW carry \in BOOLEAN, Rediarize(s, carry), Base'
  PROVE  CarryInv'
<1> DEFINE lost == IF carry \/ ~snapshots[s].applied THEN {} ELSE Voices
<1>1. /\ prints' = FreshPrints(s, Silence)
      /\ diarized' = [diarized EXCEPT ![s] = FALSE]
      /\ snapshots' = IF carry THEN [snapshots EXCEPT ![s] = Snapshot(s)] ELSE snapshots
      /\ Forget(s, lost)
      /\ UNCHANGED <<pins, speakers, named, created, view, stood>>
  BY DEF Rediarize
<1>2. /\ dropped \subseteq dropped'
      /\ \A r \in Sessions : r # s => meant'[r] = meant[r]
      /\ \A r \in Sessions, v \in Voices : r # s => (<<r, v>> \in dropped' <=> <<r, v>> \in dropped)
      /\ \A v \in Voices : meant'[s][v] = IF v \in lost THEN None ELSE meant[s][v]
      /\ \A v \in lost : <<s, v>> \in dropped' \/ meant[s][v] = None
      /\ lost = {} => dropped' = dropped
  <2>1. lost \in SUBSET Voices
    OBVIOUS
  <2> HIDE DEF lost
  <2> QED BY <1>1, <2>1, Forgotten DEF Base
<1>3. \A r \in Sessions, l \in Labels : prints'[<<r, l>>] = IF r = s THEN [hears |-> Nobody, owner |-> None]
                                                           ELSE prints[<<r, l>>]
  BY <1>1, NewPrints, SilenceIsHeard DEF Silence, Addresses, Base
<1>4. ASSUME NEW r \in Sessions, r # s PROVE CarryOf(r)'
  <2>1. snapshots'[r] = snapshots[r] /\ diarized'[r] = diarized[r]
    BY <1>1, <1>4 DEF Base, TypeOK
  <2>2. SameAt(r)
    <3> HIDE DEF lost
    <3> QED BY <1>1, <1>2, <1>3, <1>4, <2>1 DEF SameAt
  <2> QED BY <2>2, CarryElsewhere DEF CarryInv
<1>5. /\ CarryOf(s) /\ None \notin speakers /\ speakers \subseteq created
      /\ \A v \in Voices : v # Nobody
  BY Domains DEF CarryInv, Base, TypeOK
<1>6. ~diarized'[s] /\ (snapshots'[s] = IF carry THEN Snapshot(s) ELSE snapshots[s])
  BY <1>1 DEF Base, TypeOK
<1>7. \A v \in Voices : Shares(s, v)' = Shares(s, v)
  BY <1>1 DEF Shares
<1>8. ASSUME snapshots'[s].applied, NEW v \in Voices PROVE meant'[s][v] = None
  <2>1. ~carry /\ snapshots[s].applied
    BY <1>5, <1>6, <1>8, SnapshotIs
  <2> QED BY <1>2, <2>1
\* A snapshot that is kept.
<1>9. ASSUME ~snapshots[s].applied
      PROVE  /\ Holds(s) /\ snapshots'[s] = snapshots[s] /\ dropped' = dropped
             /\ \A v \in Voices : meant'[s][v] = meant[s][v]
  BY <1>2, <1>5, <1>6, <1>9, SnapshotIs DEF CarryOf
\* One that is taken.
<1>10. ASSUME snapshots[s].applied, ~snapshots'[s].applied
       PROVE  /\ snapshots'[s].labels = Identities(s) /\ dropped' = dropped
              /\ \A v \in Voices : meant'[s][v] = meant[s][v]
  <2>1. carry /\ lost = {}
    BY <1>6, <1>10
  <2> HIDE DEF lost
  <2> QED BY <1>2, <1>5, <1>6, <1>10, <2>1, SnapshotIs
<1>11. ASSUME ~snapshots'[s].applied PROVE Holds(s)'
  <2>1. CASE ~snapshots[s].applied
    <3> HIDE DEF lost
    <3> QED BY <1>1, <1>6, <1>7, <1>9, <2>1 DEF Holds
  <2>2. CASE snapshots[s].applied
    <3> DEFINE records == Identities(s)
    <3>1. /\ snapshots'[s].labels = records /\ dropped' = dropped
          /\ \A v \in Voices : meant'[s][v] = meant[s][v]
      BY <1>10, <1>11, <2>2
    <3>2. \A l \in Labels :
             /\ <<s, l>> \in Printed => /\ prints[<<s, l>>].hears \in stood[<<s, l>>]
                                        /\ prints[<<s, l>>].hears # Nobody
             /\ \A v \in Voices : prints[<<s, l>>].hears = v => <<s, l>> \in Printed
      BY <1>5, PrintedIsSomewhere, PrintedIsHeard DEF Addresses, Base
    <3>3. ASSUME NEW l \in Labels
          PROVE  /\ records[l].id # None => /\ <<s, l>> \in Printed
                                            /\ records[l].hears = prints[<<s, l>>].hears
                                            /\ records[l].id \in created
                 /\ records[l].pinned => records[l].id # None /\ records[l].id = pins[<<s, l>>]
                 /\ <<s, l>> \in Printed /\ pins[<<s, l>>] # None =>
                       records[l].pinned /\ records[l].hears = prints[<<s, l>>].hears
      BY IdentityIs
    <3> HIDE DEF records, lost
    <3>4. /\ \A l \in Labels : records[l].id # None => records[l].hears \in stood[<<s, l>>]
          /\ \A l \in Labels : records[l].id \in created \union {None}
          /\ \A l \in Labels : records[l].pinned => records[l].id # None
      BY <3>2, <3>3
    <3>5. ASSUME NEW k \in Labels, NEW l \in Labels, records[k].id # None, records[l].id # None,
                 records[k].hears = records[l].hears
          PROVE  k = l
      <4>1. prints[<<s, k>>].hears = prints[<<s, l>>].hears /\ prints[<<s, k>>].hears # Nobody
        BY <3>2, <3>3, <3>5
      <4> QED BY <4>1 DEF Base, HearingInv
    <3>6. ASSUME NEW v \in Voices, ~Shares(s, v)
          PROVE  /\ \A l \in Labels : records[l].pinned /\ records[l].hears = v =>
                      \/ meant[s][v] = records[l].id
                      \/ <<s, v>> \in dropped /\ meant[s][v] \notin speakers
                 /\ meant[s][v] \in speakers =>
                      \E l \in Labels : records[l].pinned /\ records[l].hears = v
      <4>1. Follows(s, v) /\ (<<s, v>> \notin dropped => Clean(s, v))
        BY <1>5, <3>6 DEF CarryOf
      <4>2. ASSUME NEW l \in Labels, records[l].pinned, records[l].hears = v
            PROVE  \/ meant[s][v] = records[l].id
                   \/ <<s, v>> \in dropped /\ meant[s][v] \notin speakers
        <5>1. /\ prints[<<s, l>>].hears = v /\ v \in stood[<<s, l>>]
              /\ pins[<<s, l>>] = records[l].id /\ pins[<<s, l>>] # None
          BY <3>2, <3>3, <4>2
        <5> QED BY <4>1, <5>1 DEF Follows, Clean
      <4>3. ASSUME meant[s][v] \in speakers
            PROVE  \E l \in Labels : records[l].pinned /\ records[l].hears = v
        <5>1. Heard(s, v)
          BY <1>5, <2>2, <4>3 DEF CarryOf
        <5>2. PICK l \in Labels : prints[<<s, l>>].hears = v
          BY <5>1 DEF Heard
        <5>3. <<s, l>> \in Printed /\ pins[<<s, l>>] # None
          BY <1>5, <3>2, <4>1, <4>3, <5>2 DEF Follows
        <5> QED BY <3>3, <5>2, <5>3
      <4> QED BY <4>2, <4>3
    <3> QED BY <1>1, <1>6, <1>7, <3>1, <3>4, <3>5, <3>6 DEF Holds
  <2> QED BY <2>1, <2>2
<1>12. \A v \in Voices : Follows(s, v)'
  BY <1>3, <1>5 DEF Follows
<1>13. ASSUME NEW v \in Voices, ~Shares(s, v), <<s, v>> \notin dropped'
       PROVE  Clean(s, v)'
  <2> SUFFICES ASSUME NEW l \in Labels, v \in stood[<<s, l>>], pins[<<s, l>>] # None
               PROVE  /\ pins[<<s, l>>] = meant'[s][v]
                      /\ ~snapshots'[s].applied
                      /\ snapshots'[s].labels[l].pinned
                      /\ snapshots'[s].labels[l].hears = v
    BY <1>1, <1>6 DEF Clean
  <2>1. Clean(s, v)
    BY <1>2, <1>5, <1>13 DEF CarryOf
  <2>2. pins[<<s, l>>] = meant[s][v] /\ meant[s][v] # None
    BY <2>1 DEF Clean
  <2>3. v \notin lost
    <3> HIDE DEF lost
    <3> QED BY <1>2, <1>13, <2>2
  <2>4. CASE ~snapshots[s].applied
    BY <1>9, <2>1, <2>2, <2>4 DEF Clean, Holds
  <2>5. CASE snapshots[s].applied
    <3>1. diarized[s] /\ prints[<<s, l>>].hears = v
      BY <2>1, <2>5 DEF Clean
    <3>2. <<s, l>> \in Printed
      BY <1>5, <3>1, PrintedIsHeard DEF Addresses, Base
    <3>3. carry /\ ~snapshots'[s].applied
      BY <1>5, <1>6, <2>3, <2>5, SnapshotIs
    <3>4. snapshots'[s].labels = Identities(s) /\ meant'[s][v] = meant[s][v]
      BY <1>10, <2>5, <3>3
    <3>5. Identities(s)[l].pinned /\ Identities(s)[l].hears = v
      BY <2>2, <3>1, <3>2, IdentityIs
    <3> QED BY <2>2, <3>3, <3>4, <3>5
  <2> QED BY <2>4, <2>5
<1>14. \A l \in Labels : stood'[<<s, l>>] = {} => pins'[<<s, l>>] = None
  BY <1>1, <1>5 DEF CarryOf
<1>15. CarryOf(s)'
  <2> HIDE DEF lost
  <2> QED BY <1>6, <1>7, <1>8, <1>11, <1>12, <1>13, <1>14 DEF CarryOf
<1> QED BY <1>4, <1>15 DEF CarryInv

----------------------------------------------------------------------------
(* The carry, record by record.                                            *)

Moves(s, k) ==
    LET record == snapshots[s].labels[k]
    IN  record.pinned /\ record.id \in speakers

\* One record moves its pin, or none.
LEMMA CarryIs ==
  ASSUME Base, NEW s \in Sessions, NEW hears \in Hearings, NEW n \in Labels, NEW acc,
         Kept(s, FreshPrints(s, hears), acc),
         snapshots[s].labels[n].id # None => snapshots[s].labels[n].hears # Nobody
  PROVE  LET record == snapshots[s].labels[n]
             more == Carry(s, FreshPrints(s, hears), acc, n)
         IN  \/ /\ more.pins = acc.pins
                /\ Moves(s, n) => \A t \in Labels : hears[t] # record.hears
             \/ /\ Moves(s, n)
                /\ \E t \in Labels :
                      /\ hears[t] = record.hears
                      /\ more.pins = Rekey(acc.pins, <<s, n>>, <<s, t>>, record.id)
<1> DEFINE fresh == FreshPrints(s, hears)
           record == snapshots[s].labels[n]
           targets == TargetsOf(s, fresh, n)
           more == Carry(s, fresh, acc, n)
<1>1. \A t \in Labels : fresh[<<s, t>>].hears = hears[t]
  BY DEF FreshPrints, Addresses
<1>2. \A t \in targets : t \in Labels /\ hears[t] = record.hears
  BY <1>1 DEF TargetsOf
<1>3. ASSUME record.id \in speakers, targets = {}, NEW t \in Labels
      PROVE  hears[t] # record.hears
  <2>1. record.hears # Nobody
    BY <1>3, Domains DEF Base, TypeOK
  <2>2. fresh[<<s, t>>].hears = record.hears => fresh[<<s, t>>] # NoPrint
    BY <2>1 DEF NoPrint
  <2> QED BY <1>1, <1>3, <2>2 DEF TargetsOf
<1> HIDE DEF fresh, targets
<1>4. CASE record.id \notin speakers \/ targets = {}
  <2>1. more = acc
    BY <1>4, CarryCases DEF targets
  <2> QED BY <1>3, <1>4, <2>1 DEF Moves, fresh
<1>5. CASE record.id \in speakers /\ targets # {} /\ ~record.pinned
  <2>1. more = [acc EXCEPT !.prints = Move(@, <<s, Min(targets)>>, record.id)]
    BY <1>5, CarryCases DEF targets
  <2>2. more.pins = acc.pins
    BY <2>1 DEF Kept
  <2> QED BY <1>5, <2>2 DEF Moves, fresh
<1>6. CASE record.id \in speakers /\ targets # {} /\ record.pinned
  <2>1. PICK t \in targets : more = [acc EXCEPT !.pins = Rekey(@, <<s, n>>, <<s, t>>, record.id)]
    <3>1. /\ Min(targets) \in targets
          /\ more = [acc EXCEPT !.pins = Rekey(@, <<s, n>>, <<s, Min(targets)>>, record.id)]
      BY <1>6, CarryCases DEF targets
    <3> HIDE DEF more, record
    <3> QED BY <3>1
  <2>2. more.pins = Rekey(acc.pins, <<s, n>>, <<s, t>>, record.id)
    BY <2>1 DEF Kept
  <2> QED BY <1>2, <1>6, <2>2 DEF Moves, fresh
<1> QED BY <1>4, <1>5, <1>6

\* A label that, counting this diarization, has stood for one voice at most.
Alone(s, hears, l) ==
    \A u, v \in stood[<<s, l>>] \union ({hears[l]} \ {Nobody}) : u = v

\* After n records such a label, if it is heard, has the pin of the record of its
\* voice, or, if there is none, its own; if it is not, its own or none, and none once
\* its record has moved.
Rekeyed(s, hears, acc, n) ==
    \A l \in Labels : Alone(s, hears, l) =>
        /\ hears[l] # Nobody =>
              /\ \A k \in 1..n : Moves(s, k) /\ snapshots[s].labels[k].hears = hears[l] =>
                    acc.pins[<<s, l>>] = snapshots[s].labels[k].id
              /\ (\A k \in 1..n : ~(Moves(s, k) /\ snapshots[s].labels[k].hears = hears[l])) =>
                    acc.pins[<<s, l>>] = pins[<<s, l>>]
        /\ hears[l] = Nobody => acc.pins[<<s, l>>] \in {pins[<<s, l>>], None}
        /\ hears[l] = Nobody /\ l \in 1..n /\ Moves(s, l)
              /\ (\E t \in Labels : hears[t] = snapshots[s].labels[l].hears) =>
                    acc.pins[<<s, l>>] = None

LEMMA RekeyedByOneMore ==
  ASSUME Base, NEW s \in Sessions, Holds(s), NEW hears \in Hearings, NEW n \in Labels,
         NEW acc, Kept(s, FreshPrints(s, hears), acc), Rekeyed(s, hears, acc, n - 1)
  PROVE  Rekeyed(s, hears, Carry(s, FreshPrints(s, hears), acc, n), n)
<1> DEFINE records == snapshots[s].labels
           more == Carry(s, FreshPrints(s, hears), acc, n)
<1>1. /\ \A l \in Labels : records[l].id # None => records[l].hears \in stood[<<s, l>>]
      /\ \A k, l \in Labels : records[k].id # None /\ records[l].id # None
            /\ records[k].hears = records[l].hears => k = l
  BY DEF Holds
<1>2. /\ None \notin speakers
      /\ \A l \in Labels : \A v \in stood[<<s, l>>] : v \in Voices /\ v # Nobody
  BY Domains DEF Base, TypeOK, Addresses
<1>3. \A k, l \in Labels : k # l /\ hears[k] # Nobody => hears[k] # hears[l]
  BY DEF Hearings
<1>4. /\ n \in Nat /\ n \in 1..n /\ 1..n \subseteq Labels
      /\ \A k \in 1..n : k # n => k \in 1..n - 1
      /\ \A k \in 1..n - 1 : k \in 1..n
  BY Domains DEF Labels
<1>5. \A k \in Labels : Moves(s, k) => /\ records[k].id # None /\ records[k].hears # Nobody
                                       /\ records[k].hears \in stood[<<s, k>>]
  BY <1>1, <1>2 DEF Moves
<1>6. \/ /\ more.pins = acc.pins
         /\ Moves(s, n) => \A t \in Labels : hears[t] # records[n].hears
      \/ /\ Moves(s, n)
         /\ \E t \in Labels : /\ hears[t] = records[n].hears
                              /\ more.pins = Rekey(acc.pins, <<s, n>>, <<s, t>>, records[n].id)
  BY <1>1, <1>2, CarryIs
<1> HIDE DEF more
<1> SUFFICES ASSUME NEW l \in Labels, Alone(s, hears, l)
             PROVE
        /\ hears[l] # Nobody =>
              /\ \A k \in 1..n : Moves(s, k) /\ records[k].hears = hears[l] =>
                    more.pins[<<s, l>>] = records[k].id
              /\ (\A k \in 1..n : ~(Moves(s, k) /\ records[k].hears = hears[l])) =>
                    more.pins[<<s, l>>] = pins[<<s, l>>]
        /\ hears[l] = Nobody => more.pins[<<s, l>>] \in {pins[<<s, l>>], None}
        /\ hears[l] = Nobody /\ l \in 1..n /\ Moves(s, l)
              /\ (\E t \in Labels : hears[t] = records[l].hears) =>
                    more.pins[<<s, l>>] = None
  BY DEF Rekeyed, more
<1>7. /\ hears[l] # Nobody =>
              /\ \A k \in 1..n - 1 : Moves(s, k) /\ records[k].hears = hears[l] =>
                    acc.pins[<<s, l>>] = records[k].id
              /\ (\A k \in 1..n - 1 : ~(Moves(s, k) /\ records[k].hears = hears[l])) =>
                    acc.pins[<<s, l>>] = pins[<<s, l>>]
      /\ hears[l] = Nobody => acc.pins[<<s, l>>] \in {pins[<<s, l>>], None}
      /\ hears[l] = Nobody /\ l \in 1..n - 1 /\ Moves(s, l)
            /\ (\E t \in Labels : hears[t] = records[l].hears) =>
                  acc.pins[<<s, l>>] = None
  BY DEF Rekeyed
<1> HIDE DEF records
\* The record says nothing of this label.
<1>8. ASSUME more.pins[<<s, l>>] = acc.pins[<<s, l>>],
             ~(Moves(s, n) /\ records[n].hears = hears[l]),
             l = n => ~Moves(s, n) \/ \A t \in Labels : hears[t] # records[n].hears
      PROVE  /\ hears[l] # Nobody =>
                 /\ \A k \in 1..n : Moves(s, k) /\ records[k].hears = hears[l] =>
                       more.pins[<<s, l>>] = records[k].id
                 /\ (\A k \in 1..n : ~(Moves(s, k) /\ records[k].hears = hears[l])) =>
                       more.pins[<<s, l>>] = pins[<<s, l>>]
             /\ hears[l] = Nobody => more.pins[<<s, l>>] \in {pins[<<s, l>>], None}
             /\ hears[l] = Nobody /\ l \in 1..n /\ Moves(s, l)
                   /\ (\E t \in Labels : hears[t] = records[l].hears) =>
                         more.pins[<<s, l>>] = None
  BY <1>4, <1>7, <1>8
<1>9. CASE /\ more.pins = acc.pins
           /\ Moves(s, n) => \A t \in Labels : hears[t] # records[n].hears
  BY <1>8, <1>9
<1>10. ASSUME Moves(s, n), NEW t \in Labels, hears[t] = records[n].hears,
              more.pins = Rekey(acc.pins, <<s, n>>, <<s, t>>, records[n].id)
       PROVE  /\ hears[l] # Nobody =>
                 /\ \A k \in 1..n : Moves(s, k) /\ records[k].hears = hears[l] =>
                       more.pins[<<s, l>>] = records[k].id
                 /\ (\A k \in 1..n : ~(Moves(s, k) /\ records[k].hears = hears[l])) =>
                       more.pins[<<s, l>>] = pins[<<s, l>>]
              /\ hears[l] = Nobody => more.pins[<<s, l>>] \in {pins[<<s, l>>], None}
              /\ hears[l] = Nobody /\ l \in 1..n /\ Moves(s, l)
                    /\ (\E u \in Labels : hears[u] = records[l].hears) =>
                          more.pins[<<s, l>>] = None
  <2>1. more.pins[<<s, l>>] = IF l = t THEN records[n].id
                              ELSE IF l = n THEN None ELSE acc.pins[<<s, l>>]
    BY <1>10 DEF Rekey, Addresses
  <2>2. /\ records[n].id # None /\ records[n].hears # Nobody
        /\ records[n].hears \in stood[<<s, n>>]
    BY <1>5, <1>10
  <2>3. CASE l = t
    <3>1. hears[l] = records[n].hears /\ hears[l] # Nobody
      BY <1>10, <2>2, <2>3
    <3>2. \A k \in 1..n : Moves(s, k) /\ records[k].hears = hears[l] => k = n
      <4>1. \A k \in 1..n : k \in Labels /\ (Moves(s, k) => records[k].id # None)
        BY <1>4, <1>5
      <4> QED BY <1>1, <2>2, <3>1, <4>1 DEF records
    <3> QED BY <1>4, <1>10, <2>1, <2>3, <3>1, <3>2
  <2>4. CASE l # t /\ l = n
    <3>1. hears[l] = Nobody
      <4>1. SUFFICES ASSUME hears[l] # Nobody PROVE FALSE
        OBVIOUS
      <4>2. hears[l] = records[n].hears
        BY <2>2, <2>4, <4>1 DEF Alone
      <4> QED BY <1>3, <1>10, <2>4, <4>1, <4>2
    <3> QED BY <2>1, <2>4, <3>1
  <2>5. CASE l # t /\ l # n
    <3>1. hears[l] # records[n].hears
      BY <1>3, <1>10, <2>2, <2>5
    <3> QED BY <1>8, <2>1, <2>5, <3>1
  <2> QED BY <2>3, <2>4, <2>5
<1> QED BY <1>6, <1>9, <1>10 DEF records

LEMMA RekeyedAtTheEnd ==
  ASSUME Base, NEW s \in Sessions, Holds(s), NEW hears \in Hearings
  PROVE  Rekeyed(s, hears, Carrying(s, FreshPrints(s, hears))[NumLabels], NumLabels)
<1> DEFINE fresh == FreshPrints(s, hears)
           Good == {n \in 0..NumLabels : Rekeyed(s, hears, Carrying(s, fresh)[n], n)}
<1> HIDE DEF fresh
<1>0. NumLabels \in Nat /\ hears \in [Labels -> Voices \union {Nobody}]
  BY Domains DEF Hearings
<1>1. /\ Carrying(s, fresh)[0] = [pins |-> pins, prints |-> fresh]
      /\ \A n \in 1..NumLabels : Carrying(s, fresh)[n] = Carry(s, fresh, Carrying(s, fresh)[n - 1], n)
  <2> DEFINE C == Carrying(s, fresh)
  <2>1. C = [k \in 0..NumLabels |-> IF k = 0 THEN [pins |-> pins, prints |-> fresh]
                                    ELSE Carry(s, fresh, C[k - 1], k)]
    BY <1>0, CarryingSteps
  <2> HIDE DEF C
  <2>2. /\ C[0] = [pins |-> pins, prints |-> fresh]
        /\ \A n \in 1..NumLabels : C[n] = Carry(s, fresh, C[n - 1], n)
    BY <1>0, <2>1
  <2> QED BY <2>2 DEF C
<1>2. \A n \in 0..NumLabels : Kept(s, fresh, Carrying(s, fresh)[n])
  <2>1. /\ fresh \in [Addresses -> PrintType]
        /\ \A a \in Addresses : fresh[a].hears = Nobody => fresh[a].owner = None
    BY <1>0, NewPrints DEF fresh, Base
  <2> QED BY <2>1, AppliedKeeps DEF Base
<1>3. 0 \in Good
  <2>1. Carrying(s, fresh)[0].pins = pins
    BY <1>1
  <2>2. Rekeyed(s, hears, Carrying(s, fresh)[0], 0)
    BY <2>1 DEF Rekeyed
  <2> QED BY <1>0, <2>2
<1>4. ASSUME NEW n \in 1..NumLabels, n - 1 \in Good PROVE n \in Good
  <2>1. n \in Labels /\ n \in 0..NumLabels /\ n - 1 \in 0..NumLabels
    BY <1>0 DEF Labels
  <2> DEFINE acc == Carrying(s, fresh)[n - 1]
  <2>2. Kept(s, fresh, acc) /\ Rekeyed(s, hears, acc, n - 1)
    BY <1>2, <1>4, <2>1
  <2>3. Carrying(s, fresh)[n] = Carry(s, fresh, acc, n)
    BY <1>1
  <2> HIDE DEF acc
  <2>4. Rekeyed(s, hears, Carry(s, fresh, acc, n), n)
    BY <2>1, <2>2, RekeyedByOneMore DEF fresh
  <2> QED BY <2>1, <2>3, <2>4
<1>5. Rekeyed(s, hears, Carrying(s, fresh)[NumLabels], NumLabels)
  <2> HIDE DEF Good
  <2>1. 0..NumLabels \subseteq Good
    BY <1>0, <1>3, <1>4, UpTo
  <2>2. NumLabels \in 0..NumLabels
    BY <1>0
  <2> QED BY <2>1, <2>2 DEF Good
<1> QED BY <1>5 DEF fresh

LEMMA CarryPublish ==
  ASSUME Base, CarryInv, NEW s \in Sessions, Publish(s), Base'
  PROVE  CarryInv'
<1>1. PICK hears \in Hearings :
         /\ Kept(s, FreshPrints(s, hears), Applied(s, FreshPrints(s, hears)))
         /\ diarized[s] => \A l \in Labels : prints[<<s, l>>].hears = hears[l]
         /\ prints' = Applied(s, FreshPrints(s, hears)).prints
         /\ pins' = Applied(s, FreshPrints(s, hears)).pins
         /\ Forget(s, {v \in Voices : \A l \in Labels : hears[l] # v})
         /\ stood' = [a \in Addresses |->
                        stood[a] \union (IF a[1] = s THEN {hears[a[2]]} \ {Nobody} ELSE {})]
  BY PublishedIs DEF Base
<1>2. /\ snapshots' = [snapshots EXCEPT ![s].applied = TRUE]
      /\ diarized' = [diarized EXCEPT ![s] = TRUE]
      /\ UNCHANGED <<speakers, named, created, view>>
  BY DEF Publish
<1> DEFINE lost == {v \in Voices : \A l \in Labels : hears[l] # v}
<1>3. /\ dropped \subseteq dropped'
      /\ \A r \in Sessions : r # s => meant'[r] = meant[r]
      /\ \A r \in Sessions, v \in Voices : r # s => (<<r, v>> \in dropped' <=> <<r, v>> \in dropped)
      /\ \A v \in Voices : meant'[s][v] = IF v \in lost THEN None ELSE meant[s][v]
      /\ \A v \in lost : <<s, v>> \in dropped' \/ meant[s][v] = None
  <2>1. lost \in SUBSET Voices /\ Forget(s, lost)
    BY <1>1
  <2> HIDE DEF lost
  <2> QED BY <1>2, <2>1, Forgotten DEF Base
<1>4. /\ \A l \in Labels : /\ prints'[<<s, l>>].hears = hears[l]
                           /\ stood'[<<s, l>>] = stood[<<s, l>>] \union ({hears[l]} \ {Nobody})
      /\ \A r \in Sessions, l \in Labels : r # s =>
            /\ prints'[<<r, l>>] = prints[<<r, l>>] /\ pins'[<<r, l>>] = pins[<<r, l>>]
            /\ stood'[<<r, l>>] = stood[<<r, l>>]
  <2>1. TypeOK /\ s \in Sessions
    BY DEF Base
  <2>2. \A l \in Labels : prints'[<<s, l>>].hears = hears[l]
    BY <1>1, <2>1, PublishedSpeech
  <2>3. ASSUME NEW r \in Sessions, NEW l \in Labels, r # s
        PROVE  prints'[<<r, l>>] = prints[<<r, l>>] /\ pins'[<<r, l>>] = pins[<<r, l>>]
    BY <1>1, <2>1, <2>3, PublishedSpeech
  <2>4. ASSUME NEW r \in Sessions, NEW l \in Labels
        PROVE  stood'[<<r, l>>] = stood[<<r, l>>] \union (IF r = s THEN {hears[l]} \ {Nobody} ELSE {})
    <3>1. <<r, l>> \in Addresses /\ <<r, l>>[1] = r /\ <<r, l>>[2] = l
      BY DEF Addresses
    <3> QED BY <1>1, <3>1
  <2>5. \A l \in Labels : stood'[<<s, l>>] = stood[<<s, l>>] \union ({hears[l]} \ {Nobody})
    BY <2>4
  <2>6. ASSUME NEW r \in Sessions, NEW l \in Labels, r # s
        PROVE  stood'[<<r, l>>] = stood[<<r, l>>]
    <3>1. stood'[<<r, l>>] = stood[<<r, l>>] \union {}
      BY <2>4, <2>6
    <3> QED BY <3>1
  <2> QED BY <2>2, <2>3, <2>5, <2>6
<1>5. ASSUME NEW r \in Sessions, r # s PROVE CarryOf(r)'
  <2>1. snapshots'[r] = snapshots[r] /\ diarized'[r] = diarized[r]
    BY <1>2, <1>5 DEF Base, TypeOK
  <2>2. SameAt(r)
    <3> HIDE DEF lost
    <3>1. \A l \in Labels : /\ prints'[<<r, l>>] = prints[<<r, l>>] /\ pins'[<<r, l>>] = pins[<<r, l>>]
                            /\ stood'[<<r, l>>] = stood[<<r, l>>]
      BY <1>4, <1>5
    <3>2. /\ \A v \in Voices : <<r, v>> \in dropped' <=> <<r, v>> \in dropped
          /\ meant'[r] = meant[r]
      BY <1>3, <1>5
    <3> QED BY <1>2, <2>1, <3>1, <3>2 DEF SameAt
  <2> QED BY <2>2, CarryElsewhere DEF CarryInv
<1>6. /\ CarryOf(s) /\ None \notin speakers
      /\ \A v \in Voices : v # Nobody
      /\ \A l \in Labels : hears[l] \in Voices \union {Nobody}
      /\ diarized'[s] = TRUE /\ snapshots'[s].applied = TRUE
  BY <1>2, Domains DEF CarryInv, Base, TypeOK, Hearings
<1>7. \A l \in Labels : stood'[<<s, l>>] = stood[<<s, l>>] \union ({hears[l]} \ {Nobody})
  BY <1>4
\* A voice that shares no label after this diarization did not before.
<1>8. ASSUME NEW v \in Voices, ~Shares(s, v)'
      PROVE  /\ ~Shares(s, v)
             /\ \A l \in Labels : v \in stood'[<<s, l>>] =>
                   /\ Alone(s, hears, l) /\ hears[l] \in {v, Nobody}
                   /\ stood[<<s, l>>] \in {{v}, {}}
  <2>1. \A l \in Labels : v \in stood'[<<s, l>>] => stood'[<<s, l>>] = {v}
    BY <1>8 DEF Shares
  <2>2. \A l \in Labels : v \in stood'[<<s, l>>] =>
           stood[<<s, l>>] \union ({hears[l]} \ {Nobody}) = {v}
    BY <1>7, <2>1
  <2>3. \A l \in Labels : v \in stood[<<s, l>>] => v \in stood'[<<s, l>>]
    BY <1>7
  <2>4. ~Shares(s, v)
    BY <2>2, <2>3 DEF Shares
  <2>5. ASSUME NEW l \in Labels, v \in stood'[<<s, l>>]
        PROVE  /\ Alone(s, hears, l) /\ hears[l] \in {v, Nobody}
               /\ stood[<<s, l>>] \in {{v}, {}}
    <3>1. stood[<<s, l>>] \union ({hears[l]} \ {Nobody}) = {v}
      BY <2>2, <2>5
    <3> QED BY <3>1 DEF Alone
  <2> QED BY <2>4, <2>5
\* The pins: as they were, or as the records have it.
<1>9. snapshots[s].applied => pins' = pins
  BY <1>1 DEF Applied
<1>10. ~snapshots[s].applied => Holds(s) /\ Rekeyed(s, hears, [pins |-> pins', prints |-> prints'], NumLabels)
  <2>1. SUFFICES ASSUME ~snapshots[s].applied
                 PROVE  Holds(s) /\ Rekeyed(s, hears, [pins |-> pins', prints |-> prints'], NumLabels)
    OBVIOUS
  <2>2. Holds(s)
    BY <2>1 DEF CarryOf, CarryInv
  <2> DEFINE acc == Carrying(s, FreshPrints(s, hears))[NumLabels]
  <2>3. Rekeyed(s, hears, acc, NumLabels)
    BY <2>2, RekeyedAtTheEnd
  <2>4. pins' = acc.pins
    BY <1>1, <2>1 DEF Applied
  <2> HIDE DEF acc
  <2> QED BY <2>2, <2>3, <2>4 DEF Rekeyed
<1>11. ASSUME NEW l \in Labels, stood'[<<s, l>>] = {}
       PROVE  pins'[<<s, l>>] = None
  <2>1. stood[<<s, l>>] = {} /\ hears[l] = Nobody /\ pins[<<s, l>>] = None
    BY <1>6, <1>7, <1>11 DEF CarryOf
  <2>2. CASE snapshots[s].applied
    BY <1>9, <2>1, <2>2
  <2>3. CASE ~snapshots[s].applied
    <3>1. Alone(s, hears, l)
      BY <2>1 DEF Alone
    <3> QED BY <1>10, <2>1, <2>3, <3>1 DEF Rekeyed
  <2> QED BY <2>2, <2>3
<1>12. \A v \in Voices : Heard(s, v)' \/ meant'[s][v] = None
  BY <1>3, <1>4 DEF Heard
<1>13. ASSUME NEW v \in Voices, ~Shares(s, v)'
       PROVE  Follows(s, v)'
  <2> SUFFICES ASSUME NEW l \in Labels, hears[l] = v, meant'[s][v] \in speakers
               PROVE  pins'[<<s, l>>] = meant'[s][v]
    BY <1>2, <1>4 DEF Follows
  <2>1. meant'[s][v] = meant[s][v] /\ v # Nobody /\ v \in stood'[<<s, l>>]
    BY <1>3, <1>6, <1>7
  <2>2. ~Shares(s, v) /\ Follows(s, v) /\ Alone(s, hears, l)
    BY <1>6, <1>8, <1>13, <2>1 DEF CarryOf
  <2>3. CASE snapshots[s].applied
    <3>1. diarized[s]
      <4>1. ~diarized[s] => ~Heard(s, v)
        BY NothingHeard DEF Base
      <4> QED BY <1>6, <2>1, <2>3, <4>1 DEF CarryOf
    <3> QED BY <1>1, <1>9, <2>1, <2>2, <2>3, <3>1 DEF Follows
  <2>4. CASE ~snapshots[s].applied
    <3>1. Holds(s) /\ meant[s][v] \in speakers
      BY <1>10, <2>1, <2>4
    <3>2. PICK k \in Labels : snapshots[s].labels[k].pinned /\ snapshots[s].labels[k].hears = v
      BY <2>2, <3>1 DEF Holds
    <3>3. snapshots[s].labels[k].id = meant[s][v]
      BY <2>2, <3>1, <3>2 DEF Holds
    <3>4. Moves(s, k) /\ k \in 1..NumLabels
      BY <3>1, <3>2, <3>3 DEF Moves, Labels
    <3> QED BY <1>10, <2>1, <2>2, <2>4, <3>2, <3>3, <3>4 DEF Rekeyed
  <2> QED BY <2>3, <2>4
<1>14. ASSUME NEW v \in Voices, ~Shares(s, v)', <<s, v>> \notin dropped'
       PROVE  Clean(s, v)'
  <2> SUFFICES ASSUME NEW l \in Labels, v \in stood'[<<s, l>>], pins'[<<s, l>>] # None
               PROVE  pins'[<<s, l>>] = meant'[s][v] /\ hears[l] = v
    BY <1>4, <1>6 DEF Clean
  <2>1. /\ Clean(s, v) /\ Alone(s, hears, l) /\ hears[l] \in {v, Nobody}
        /\ stood[<<s, l>>] \in {{v}, {}} /\ <<s, v>> \notin dropped
    BY <1>3, <1>6, <1>8, <1>14 DEF CarryOf
  <2>2. v \in lost => meant[s][v] = None
    <3> HIDE DEF lost
    <3> QED BY <1>3, <1>14
  <2>3. v \notin lost => meant'[s][v] = meant[s][v]
    BY <1>3
  <2>4. hears[l] = v => v \notin lost
    OBVIOUS
  <2>5. v \notin lost => \E t \in Labels : hears[t] = v
    OBVIOUS
  <2>6. stood[<<s, l>>] = {} => pins[<<s, l>>] = None
    BY <1>6 DEF CarryOf
  \* A pin that was there said what is meant.
  <2>7. pins[<<s, l>>] # None =>
           /\ pins[<<s, l>>] = meant[s][v] /\ v \notin lost
           /\ diarized[s] => prints[<<s, l>>].hears = v
           /\ ~diarized[s] => /\ ~snapshots[s].applied
                              /\ snapshots[s].labels[l].pinned /\ snapshots[s].labels[l].hears = v
    <3> HIDE DEF lost
    <3> QED BY <2>1, <2>2, <2>6 DEF Clean
  <2> HIDE DEF lost
  <2>8. CASE snapshots[s].applied
    <3>1. pins'[<<s, l>>] = pins[<<s, l>>]
      BY <1>9, <2>8
    <3>2. diarized[s] /\ prints[<<s, l>>].hears = v
      BY <2>7, <2>8, <3>1
    <3> QED BY <1>1, <2>3, <2>7, <3>1, <3>2
  <2>9. CASE ~snapshots[s].applied
    <3>1. Holds(s) /\ ~Shares(s, v)
      BY <1>8, <1>10, <1>14, <2>9
    \* The record under which it was, if it had a pin, moves.
    <3>2. pins[<<s, l>>] # None =>
             /\ Moves(s, l) /\ snapshots[s].labels[l].hears = v
             /\ snapshots[s].labels[l].id = meant[s][v]
      <4>1. SUFFICES ASSUME pins[<<s, l>>] # None
                     PROVE  /\ Moves(s, l) /\ snapshots[s].labels[l].hears = v
                            /\ snapshots[s].labels[l].id = meant[s][v]
        OBVIOUS
      <4>2. /\ snapshots[s].labels[l].pinned /\ snapshots[s].labels[l].hears = v
            /\ pins[<<s, l>>] = meant[s][v]
        BY <2>7, <3>1, <4>1 DEF Holds
      <4>3. snapshots[s].labels[l].id = meant[s][v]
        BY <2>1, <3>1, <4>2 DEF Holds
      <4>4. pins[<<s, l>>] \in speakers
        BY <4>1 DEF Base, TypeOK, Addresses
      <4> QED BY <4>2, <4>3, <4>4 DEF Moves
    <3>3. l \in 1..NumLabels /\ 1..NumLabels = Labels
      BY DEF Labels
    <3>4. CASE hears[l] = Nobody
      <4>1. pins'[<<s, l>>] = pins[<<s, l>>]
        BY <1>10, <2>1, <2>9, <3>4 DEF Rekeyed
      <4>2. \E t \in Labels : hears[t] = snapshots[s].labels[l].hears
        BY <2>5, <2>7, <3>2, <4>1
      <4>3. pins'[<<s, l>>] = None
        BY <1>10, <2>1, <2>9, <3>2, <3>3, <3>4, <4>1, <4>2 DEF Rekeyed
      <4> QED BY <4>3
    <3>5. CASE hears[l] = v
      <4>1. hears[l] # Nobody /\ meant'[s][v] = meant[s][v]
        BY <1>6, <2>3, <2>4, <3>5
      <4>2. CASE \E k \in Labels : Moves(s, k) /\ snapshots[s].labels[k].hears = v
        <5>1. PICK k \in Labels : Moves(s, k) /\ snapshots[s].labels[k].hears = v
          BY <4>2
        <5>2. pins'[<<s, l>>] = snapshots[s].labels[k].id
          BY <1>10, <2>1, <2>9, <3>3, <3>5, <4>1, <5>1 DEF Rekeyed
        <5>3. snapshots[s].labels[k].id = meant[s][v]
          BY <2>1, <3>1, <5>1 DEF Holds, Moves
        <5> QED BY <3>5, <4>1, <5>2, <5>3
      <4>3. CASE \A k \in Labels : ~(Moves(s, k) /\ snapshots[s].labels[k].hears = v)
        <5>1. pins'[<<s, l>>] = pins[<<s, l>>]
          BY <1>10, <2>1, <2>9, <3>3, <3>5, <4>1, <4>3 DEF Rekeyed
        <5> QED BY <3>2, <4>3, <5>1
      <4> QED BY <4>2, <4>3
    <3> QED BY <2>1, <3>4, <3>5
  <2> QED BY <2>8, <2>9
<1>15. CarryOf(s)'
  <2> HIDE DEF lost
  <2>1. \A v \in Voices : ~Shares(s, v)' => /\ Follows(s, v)'
                                            /\ <<s, v>> \notin dropped' => Clean(s, v)'
    BY <1>13, <1>14
  <2> QED BY <1>6, <1>11, <1>12, <2>1 DEF CarryOf
<1> QED BY <1>5, <1>15 DEF CarryInv

----------------------------------------------------------------------------
LEMMA CarryInit ==
  ASSUME Init
  PROVE  CarryInv
<1>1. \A s \in Sessions, l \in Labels :
         prints[<<s, l>>] = NoPrint /\ pins[<<s, l>>] = None /\ stood[<<s, l>>] = {}
  BY DEF Init, Addresses
<1>2. \A s \in Sessions : snapshots[s].applied /\ \A v \in Voices : meant[s][v] = None
  BY DEF Init, NoSnapshot
<1>3. \A v \in Voices : v # Nobody
  BY Domains
<1> QED BY <1>1, <1>2, <1>3 DEF CarryInv, CarryOf, Follows, Clean, NoPrint

\* The invariant says of every print what the property does.
LEMMA CarriedThen ==
  ASSUME Base, CarryInv
  PROVE  CurationIsCarried
<1> SUFFICES ASSUME NEW a \in Printed, ~Shares(a[1], prints[a].hears)
             PROVE  LET v == prints[a].hears
                        said == meant[a[1]][v]
                    IN  /\ said \in speakers => pins[a] = said
                        /\ <<a[1], v>> \notin dropped => pins[a] \in {None, said}
  BY DEF CurationIsCarried
<1>1. PICK s \in Sessions, l \in Labels : a = <<s, l>>
  BY PrintedIsSomewhere
<1>2. /\ a[1] = s /\ prints[<<s, l>>].hears \in Voices
      /\ prints[<<s, l>>].hears \in stood[<<s, l>>]
  BY <1>1, PrintedIsSomewhere
<1> DEFINE v == prints[<<s, l>>].hears
<1>3. Follows(s, v) /\ (<<s, v>> \notin dropped => Clean(s, v))
  BY <1>1, <1>2 DEF CarryInv, CarryOf
<1>4. meant[s][v] \in speakers => pins[<<s, l>>] = meant[s][v]
  BY <1>3 DEF Follows
<1>5. <<s, v>> \notin dropped => pins[<<s, l>>] \in {None, meant[s][v]}
  BY <1>2, <1>3 DEF Clean
<1> QED BY <1>1, <1>2, <1>4, <1>5

\* What the user said a voice is, its pin says after every rerun with --carry-labels,
\* under whichever label the voice is heard, an old one or a new one, and no pin says
\* what the user did not (services/label_carry.py).  The exceptions are those of
\* CurationIsCarried: voices that have shared a label, whose pins apply_labels may
\* lose when it re-keys one after the other, and pins that are left over from what
\* was dropped.
THEOREM LabelsAreCarried == Spec => []CurationIsCarried
<1> DEFINE Inv == Base /\ CarryInv
<1>1. Init => Inv
  BY TypeInit, CarryInit DEF Base
<1>2. Inv /\ [Next]_vars => Inv'
  <2> SUFFICES ASSUME Inv, [Next]_vars PROVE Inv'
    OBVIOUS
  <2>1. Base'
    BY BaseNext
  <2>2. CASE Curate \/ Rebuild
    BY <2>1, <2>2, QuietSteps, CarryQuiet
  <2>3. CASE Diarize
    BY <2>1, <2>3, CarryPublish, CarryRediarize DEF Diarize
  <2>4. CASE UNCHANGED vars
    <3>1. \A s \in Sessions : SameAt(s)
      BY <2>4 DEF vars, SameAt
    <3> QED BY <2>1, <3>1, CarryElsewhere DEF CarryInv
  <2> QED BY <2>2, <2>3, <2>4 DEF Next
<1>3. Inv => CurationIsCarried
  BY CarriedThen
<1> QED BY <1>1, <1>2, <1>3, PTL DEF Spec
=============================================================================
