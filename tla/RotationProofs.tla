--------------------------- MODULE RotationProofs ---------------------------
(***************************************************************************)
(* Whatever is done to the registry, the screen shows an app that is there *)
(* and enabled, and nobody's turn is cut short; and what was written down  *)
(* of the registry comes back with a restart: for any apps, any cap, any   *)
(* stored orders and any length of a turn.                                 *)
(***************************************************************************)
EXTENDS Rotation, Integers, TLAPS, SequenceTheorems, WellFoundedInduction

(* Induction over the natural numbers, from their being well-founded. *)
LEMMA SetInduction ==
  ASSUME NEW S \in SUBSET Nat, 0 \in S, \A n \in S : n + 1 \in S
  PROVE  \A n \in Nat : n \in S
<1> DEFINE T == Nat \ S
<1> SUFFICES ASSUME T # {} PROVE FALSE
  OBVIOUS
<1>1. PICK x \in T : \A y \in T : ~(<<y, x>> \in OpToRel(<, Nat))
  <2>1. T \subseteq Nat
    OBVIOUS
  <2> HIDE DEF T
  <2> QED
    BY <2>1, WFMin, NatLessThanWellFounded
<1>2. x # 0 /\ x \in Nat
  OBVIOUS
<1>3. x - 1 \in T
  BY <1>2
<1>4. <<x - 1, x>> \in OpToRel(<, Nat)
  BY <1>2 DEF OpToRel
<1> QED
  BY <1>1, <1>3, <1>4

-----------------------------------------------------------------------------
(* What is kept of a sequence, entry by entry: the function Kept chooses   *)
(* exists.                                                                 *)
Added(seq, places, f, n) ==
  IF n = 0 THEN <<>>
  ELSE IF n \in places THEN Append(f[n - 1], seq[n]) ELSE f[n - 1]

LEMMA Builds ==
  ASSUME NEW seq, NEW places
  PROVE  \A m \in Nat : \E f : f = [n \in 0..m |-> Added(seq, places, f, n)]
<1> DEFINE S == {m \in Nat : \E f : f = [n \in 0..m |-> Added(seq, places, f, n)]}
<1>1. 0 \in S
  <2> DEFINE f == [n \in 0..0 |-> <<>>]
  <2>1. f = [n \in 0..0 |-> Added(seq, places, f, n)]
    BY DEF Added
  <2> QED
    BY <2>1
<1>2. ASSUME NEW m \in S PROVE m + 1 \in S
  <2>1. PICK f : f = [n \in 0..m |-> Added(seq, places, f, n)]
    OBVIOUS
  <2> DEFINE g == [n \in 0..m + 1 |-> IF n <= m THEN f[n] ELSE Added(seq, places, f, n)]
  <2>2. ASSUME NEW n \in 0..m + 1 PROVE g[n] = Added(seq, places, g, n)
    <3>1. n = 0 \/ g[n - 1] = f[n - 1]
      OBVIOUS
    <3>2. g[n] = Added(seq, places, f, n)
      BY <2>1
    <3> HIDE DEF g
    <3> QED
      BY <3>1, <3>2 DEF Added
  <2>3. g = [n \in 0..m + 1 |-> Added(seq, places, g, n)]
    <3>1. DOMAIN g = 0..m + 1 /\ g = [n \in 0..m + 1 |-> g[n]]
      OBVIOUS
    <3> HIDE DEF g
    <3> QED
      BY <2>2, <3>1
  <2> HIDE DEF g
  <2> QED
    BY <2>3
<1> HIDE DEF S
<1>3. \A m \in Nat : m \in S
  <2>1. S \in SUBSET Nat
    BY DEF S
  <2> QED
    BY <1>1, <1>2, <2>1, SetInduction
<1> QED
  BY <1>3 DEF S

(* Kept, as the last of a row of sequences, one for each entry looked at.  *)
LEMMA KeptStepByStep ==
  ASSUME NEW seq, NEW places, Len(seq) \in Nat, places # DOMAIN seq
  PROVE  \E f : /\ f = [n \in 0..Len(seq) |-> Added(seq, places, f, n)]
                /\ C!Kept(seq, places) = f[Len(seq)]
<1> DEFINE f == CHOOSE f : f = [n \in 0..Len(seq) |-> Added(seq, places, f, n)]
<1>1. f = [n \in 0..Len(seq) |-> Added(seq, places, f, n)]
  BY Builds
<1>2. C!Kept(seq, places) = f[Len(seq)]
  BY DEF C!Kept, Added
<1> HIDE DEF f
<1> QED
  BY <1>1, <1>2
-----------------------------------------------------------------------------
(* A registry: apps, and no two of one id. *)
Distinct(seq) == \A i, j \in DOMAIN seq : seq[i].id = seq[j].id => i = j

Registry(seq) ==
  seq \in Seq(C!Apps(AppIds)) /\ Distinct(seq) /\ Len(seq) \in 0..MaxApps

(* The same of any records with ids. *)
List(R, seq) == seq \in Seq(R) /\ Distinct(seq)

(* Every entry of the one is an entry of the other, of the places given;   *)
(* and the other way round.                                                *)
From(part, seq, places) == \A i \in DOMAIN part : \E k \in places : part[i] = seq[k]
Onto(part, seq, places) == \A k \in places : \E i \in DOMAIN part : part[i] = seq[k]

(* What is kept of a sequence are the entries at those places; and of a    *)
(* list, a list.                                                           *)
LEMMA KeptOf ==
  ASSUME NEW R, NEW seq \in Seq(R), NEW places \in SUBSET DOMAIN seq
  PROVE  /\ C!Kept(seq, places) \in Seq(R) /\ Len(C!Kept(seq, places)) \in 0..Len(seq)
         /\ Distinct(seq) => Distinct(C!Kept(seq, places))
         /\ From(C!Kept(seq, places), seq, places)
         /\ Onto(C!Kept(seq, places), seq, places)
<1>0. seq \in Seq(R) /\ Len(seq) \in Nat /\ DOMAIN seq = 1..Len(seq)
  OBVIOUS
<1>1. CASE places = DOMAIN seq
  BY <1>0, <1>1 DEF C!Kept, From, Onto
<1>2. CASE places # DOMAIN seq
  <2>1. seq \in Seq(R) /\ Len(seq) \in Nat /\ DOMAIN seq = 1..Len(seq)
    BY <1>0
  <2>2. PICK f : /\ f = [n \in 0..Len(seq) |-> Added(seq, places, f, n)]
                 /\ C!Kept(seq, places) = f[Len(seq)]
    BY <1>2, <2>1, KeptStepByStep
  <2> DEFINE Good(s, n) == /\ s \in Seq(R) /\ Len(s) \in 0..n
                           /\ Distinct(seq) => Distinct(s)
                           /\ From(s, seq, places \cap 1..n)
                           /\ Onto(s, seq, places \cap 1..n)
             S == {n \in Nat : n <= Len(seq) => Good(f[n], n)}
  <2>3. 0 \in S
    <3>1. f[0] = <<>>
      BY <2>1, <2>2 DEF Added
    <3>2. <<>> \in Seq(R) /\ Len(<<>>) = 0 /\ DOMAIN <<>> = {}
      OBVIOUS
    <3>3. Distinct(<<>>) /\ From(<<>>, seq, places \cap 1..0)
      BY <3>2 DEF Distinct, From
    <3>5. Onto(<<>>, seq, places \cap 1..0)
      BY DEF Onto
    <3>4. Good(f[0], 0)
      BY <3>1, <3>2, <3>3, <3>5
    <3> QED
      BY <3>4
  <2>4. ASSUME NEW n \in S PROVE n + 1 \in S
    <3> SUFFICES ASSUME n + 1 <= Len(seq) PROVE Good(f[n + 1], n + 1)
      OBVIOUS
    <3>1. n \in Nat /\ Good(f[n], n)
      BY <2>1
    <3>2. f[n + 1] = IF n + 1 \in places THEN Append(f[n], seq[n + 1]) ELSE f[n]
      <4>1. n + 1 \in 0..Len(seq) /\ n + 1 # 0 /\ (n + 1) - 1 = n
        BY <2>1, <3>1
      <4>2. f[n + 1] = Added(seq, places, f, n + 1)
        BY <2>2, <4>1
      <4> QED
        BY <4>1, <4>2 DEF Added
    <3>3. CASE n + 1 \notin places
      <4>1. places \cap 1..(n + 1) = places \cap 1..n
        BY <3>1, <3>3
      <4>2. f[n + 1] = f[n]
        BY <3>2, <3>3
      <4>3. Len(f[n]) \in 0..(n + 1)
        BY <3>1
      <4> QED
        BY <3>1, <4>1, <4>2, <4>3
    <3>4. CASE n + 1 \in places
      <4> DEFINE s == f[n]
                 a == seq[n + 1]
                 t == Append(s, a)
      <4>1. a \in R /\ n + 1 \in DOMAIN seq
        BY <2>1, <3>1
      <4>2. s \in Seq(R) /\ Len(s) \in 0..n /\ DOMAIN s = 1..Len(s)
        BY <3>1
      <4> HIDE DEF a, s
      <4>3. /\ t \in Seq(R) /\ Len(t) = Len(s) + 1 /\ DOMAIN t = 1..Len(s) + 1
            /\ t[Len(s) + 1] = a /\ \A i \in 1..Len(s) : t[i] = s[i]
        BY <4>1, <4>2
      <4> HIDE DEF t
      <4>4. \A i \in 1..Len(s) : \E k \in places \cap 1..n : s[i] = seq[k]
        BY <3>1, <4>2 DEF From, s
      <4>5. ASSUME Distinct(seq) PROVE \A i \in 1..Len(s) : s[i].id # a.id
        <5> SUFFICES ASSUME NEW i \in 1..Len(s), s[i].id = a.id PROVE FALSE
          OBVIOUS
        <5>1. PICK k \in places \cap 1..n : s[i] = seq[k]
          BY <4>4
        <5>2. k \in DOMAIN seq /\ seq[k].id = seq[n + 1].id
          BY <5>1 DEF a
        <5>3. k = n + 1
          BY <4>1, <4>5, <5>2 DEF Distinct
        <5> QED
          BY <3>1, <5>3
      <4>6. ASSUME Distinct(seq) PROVE Distinct(s)
        BY <3>1, <4>6 DEF s
      <4>7. ASSUME Distinct(seq) PROVE Distinct(t)
        <5> SUFFICES ASSUME NEW i \in DOMAIN t, NEW j \in DOMAIN t, t[i].id = t[j].id
                     PROVE  i = j
          BY DEF Distinct
        <5>1. CASE i \in 1..Len(s) /\ j \in 1..Len(s)
          BY <4>2, <4>3, <4>6, <4>7, <5>1 DEF Distinct
        <5>2. CASE i = Len(s) + 1
          BY <4>2, <4>3, <4>5, <4>7, <5>2
        <5>3. CASE j = Len(s) + 1
          BY <4>2, <4>3, <4>5, <4>7, <5>3
        <5> QED
          BY <4>2, <4>3, <5>1, <5>2, <5>3
      <4>8. From(t, seq, places \cap 1..(n + 1))
        <5> SUFFICES ASSUME NEW i \in DOMAIN t
                     PROVE  \E k \in places \cap 1..(n + 1) : t[i] = seq[k]
          BY DEF From
        <5>1. CASE i \in 1..Len(s)
          <6>1. PICK k \in places \cap 1..n : s[i] = seq[k]
            BY <4>4, <5>1
          <6>2. k \in 1..(n + 1)
            BY <3>1
          <6> QED
            BY <4>3, <5>1, <6>1, <6>2
        <5>2. CASE i = Len(s) + 1
          BY <3>1, <3>4, <4>3, <5>2 DEF a
        <5> QED
          BY <4>2, <4>3, <5>1, <5>2
      <4>11. Onto(t, seq, places \cap 1..(n + 1))
        <5> SUFFICES ASSUME NEW k \in places \cap 1..(n + 1)
                     PROVE  \E i \in DOMAIN t : t[i] = seq[k]
          BY DEF Onto
        <5>1. CASE k = n + 1
          BY <4>2, <4>3, <5>1 DEF a
        <5>2. CASE k # n + 1
          <6>1. k \in places \cap 1..n
            BY <3>1, <5>2
          <6>2. PICK i \in 1..Len(s) : s[i] = seq[k]
            BY <3>1, <4>2, <6>1 DEF Onto, s
          <6> QED
            BY <4>2, <4>3, <6>2
        <5> QED
          BY <5>1, <5>2
      <4>9. f[n + 1] = t
        BY <3>2, <3>4 DEF t, s, a
      <4>10. Len(t) \in 0..(n + 1)
        BY <3>1, <4>2, <4>3
      <4> QED
        BY <4>3, <4>7, <4>8, <4>9, <4>10, <4>11
    <3> QED
      BY <3>3, <3>4
  <2> HIDE DEF S
  <2>5. \A n \in Nat : n \in S
    <3>1. S \in SUBSET Nat
      BY DEF S
    <3> QED
      BY <2>3, <2>4, <3>1, SetInduction
  <2>6. Good(f[Len(seq)], Len(seq))
    <3>1. Len(seq) \in S /\ Len(seq) <= Len(seq)
      BY <2>1, <2>5
    <3> HIDE DEF Good
    <3> QED
      BY <3>1 DEF S
  <2>7. /\ f[Len(seq)] \in Seq(R) /\ Len(f[Len(seq)]) \in 0..Len(seq)
        /\ Distinct(seq) => Distinct(f[Len(seq)])
    BY <2>6
  <2>8. places \cap 1..Len(seq) = places
    BY <2>1
  <2>9. From(f[Len(seq)], seq, places) /\ Onto(f[Len(seq)], seq, places)
    BY <2>6, <2>8
  <2> QED
    BY <2>2, <2>7, <2>9
<1> QED
  BY <1>1, <1>2

(* What is kept of a registry is one too, and nothing that was not in it.  *)
LEMMA KeptIsPart ==
  ASSUME NEW seq, Registry(seq), NEW places \in SUBSET DOMAIN seq, MaxApps \in Nat
  PROVE  /\ Registry(C!Kept(seq, places))
         /\ From(C!Kept(seq, places), seq, places)
<1>1. List(C!Apps(AppIds), seq) /\ Len(seq) <= MaxApps /\ Len(seq) \in Nat
  BY DEF Registry, List
<1>2. /\ List(C!Apps(AppIds), C!Kept(seq, places)) /\ Len(C!Kept(seq, places)) \in 0..Len(seq)
      /\ From(C!Kept(seq, places), seq, places)
  BY <1>1, KeptOf DEF List
<1> QED
  BY <1>1, <1>2 DEF Registry, List

(* The entries between two places are gone, and the gap is closed. *)
Closed(R, new, seq, a, b) ==
  /\ new \in Seq(R) /\ Len(new) = Len(seq) - (b - a + 1)
  /\ \A i \in 1..Len(seq) - (b - a + 1) :
       new[i] = IF i < a THEN seq[i] ELSE seq[i + (b - a + 1)]

LEMMA AllButSome ==
  ASSUME NEW R, NEW seq \in Seq(R), NEW a \in 1..Len(seq), NEW b \in a..Len(seq),
         NEW places, places = DOMAIN seq \ a..b
  PROVE  Closed(R, C!Kept(seq, places), seq, a, b)
<1> DEFINE w == b - a + 1
           Cut(n) == IF n < a THEN n ELSE IF n <= b THEN a - 1 ELSE n - w
           Entry(i) == IF i < a THEN seq[i] ELSE seq[i + w]
<1>1. /\ Len(seq) \in Nat /\ DOMAIN seq = 1..Len(seq) /\ places # DOMAIN seq
      /\ a \in Nat /\ b \in Nat /\ 0 < a /\ a <= b /\ b <= Len(seq)
  <2>1. Len(seq) \in Nat /\ DOMAIN seq = 1..Len(seq)
    OBVIOUS
  <2>2. a \in Nat /\ b \in Nat /\ 0 < a /\ a <= b /\ b <= Len(seq)
    BY <2>1
  <2>3. a \in DOMAIN seq /\ a \notin places
    BY <2>1, <2>2
  <2> QED
    BY <2>1, <2>2, <2>3
<1>2. PICK f : /\ f = [n \in 0..Len(seq) |-> Added(seq, places, f, n)]
               /\ C!Kept(seq, places) = f[Len(seq)]
  BY <1>1, KeptStepByStep
<1> DEFINE Good(s, n) == /\ s \in Seq(R) /\ Len(s) = Cut(n)
                         /\ \A i \in 1..Cut(n) : s[i] = Entry(i)
           S == {n \in Nat : n <= Len(seq) => Good(f[n], n)}
<1>3. 0 \in S
  <2>1. f[0] = <<>>
    BY <1>1, <1>2 DEF Added
  <2>2. <<>> \in Seq(R) /\ Len(<<>>) = 0 /\ Cut(0) = 0
    BY <1>1
  <2>3. Good(f[0], 0)
    BY <2>1, <2>2
  <2> QED
    BY <2>3
<1>4. ASSUME NEW n \in S PROVE n + 1 \in S
  <2> SUFFICES ASSUME n + 1 <= Len(seq) PROVE Good(f[n + 1], n + 1)
    OBVIOUS
  <2>1. n \in Nat /\ n <= Len(seq) /\ Good(f[n], n)
    BY <1>1
  <2>2. f[n + 1] = IF n + 1 \in places THEN Append(f[n], seq[n + 1]) ELSE f[n]
    <3>1. n + 1 \in 0..Len(seq) /\ n + 1 # 0 /\ (n + 1) - 1 = n
      BY <1>1, <2>1
    <3>2. f[n + 1] = Added(seq, places, f, n + 1)
      BY <1>2, <3>1
    <3> QED
      BY <3>1, <3>2 DEF Added
  <2>3. CASE n + 1 \in a..b
    <3>1. f[n + 1] = f[n] /\ Cut(n + 1) = a - 1 /\ Cut(n) = a - 1
      BY <1>1, <2>1, <2>2, <2>3
    <3> HIDE DEF Cut, Entry
    <3> QED
      BY <2>1, <3>1
  <2>4. CASE n + 1 \notin a..b
    <3> DEFINE s == f[n]
               e == seq[n + 1]
    <3>1. n + 1 \in places /\ e \in R
      BY <1>1, <2>1, <2>4
    <3>2. f[n + 1] = Append(s, e)
      BY <2>2, <3>1
    <3>3. Cut(n + 1) = Cut(n) + 1 /\ Cut(n) \in Nat /\ Entry(Cut(n) + 1) = e
      BY <1>1, <2>1, <2>4
    <3>4. Good(s, n)
      BY <2>1
    <3> HIDE DEF Cut, Entry, s, e
    <3>5. /\ Append(s, e) \in Seq(R) /\ Len(Append(s, e)) = Cut(n) + 1
          /\ Append(s, e)[Cut(n) + 1] = e
          /\ \A i \in 1..Cut(n) : Append(s, e)[i] = s[i]
      BY <3>1, <3>3, <3>4
    <3>6. \A i \in 1..Cut(n) + 1 : i \in 1..Cut(n) \/ i = Cut(n) + 1
      BY <3>3
    <3> QED
      BY <3>2, <3>3, <3>4, <3>5, <3>6
  <2> QED
    BY <2>3, <2>4
<1> HIDE DEF S
<1>5. \A n \in Nat : n \in S
  <2>1. S \in SUBSET Nat
    BY DEF S
  <2> QED
    BY <1>3, <1>4, <2>1, SetInduction
<1>6. Good(f[Len(seq)], Len(seq))
  <2>1. Len(seq) \in S /\ Len(seq) <= Len(seq)
    BY <1>1, <1>5
  <2> HIDE DEF Good
  <2> QED
    BY <2>1 DEF S
<1>7. Cut(Len(seq)) = Len(seq) - w
  BY <1>1
<1>8. Len(seq) - w = Len(seq) - (b - a + 1)
  OBVIOUS
<1> HIDE DEF Cut
<1> QED
  BY <1>2, <1>6, <1>7, <1>8 DEF Closed

(* One entry left out: the ones behind it move up. *)
LEMMA AllButOne ==
  ASSUME NEW R, NEW seq \in Seq(R), NEW p \in DOMAIN seq,
         NEW rest, rest = C!Kept(seq, DOMAIN seq \ {p})
  PROVE  /\ rest \in Seq(R) /\ Len(rest) = Len(seq) - 1
         /\ \A i \in 1..Len(seq) - 1 : rest[i] = IF i < p THEN seq[i] ELSE seq[i + 1]
<1>1. PICK a \in 1..Len(seq) : a = p
  OBVIOUS
<1>2. PICK b \in a..Len(seq) : b = a
  BY <1>1
<1>3. b - a + 1 = 1 /\ a..b = {p}
  BY <1>1, <1>2
<1> DEFINE places == DOMAIN seq \ {p}
<1>4. rest = C!Kept(seq, places) /\ places = DOMAIN seq \ a..b
  BY <1>3
<1> HIDE DEF places
<1>5. Closed(R, C!Kept(seq, places), seq, a, b)
  BY <1>4, AllButSome
<1> QED
  BY <1>1, <1>3, <1>4, <1>5 DEF Closed

(* What is left when the entries from some place on are: those before it.  *)
LEMMA OnlyTheFirst ==
  ASSUME NEW R, NEW seq \in Seq(R), NEW m \in 0..Len(seq),
         NEW rest, rest = C!Kept(seq, 1..m)
  PROVE  rest \in Seq(R) /\ Len(rest) = m /\ \A i \in 1..m : rest[i] = seq[i]
<1>0. Len(seq) \in Nat /\ DOMAIN seq = 1..Len(seq)
  OBVIOUS
<1>3. m = Len(seq) \/ m < Len(seq)
  <2>1. ASSUME NEW l \in Nat, NEW k \in 0..l PROVE k = l \/ k < l
    OBVIOUS
  <2> QED
    BY <1>0, <2>1
<1>1. CASE m = Len(seq)
  <2>1. rest = seq
    BY <1>0, <1>1 DEF C!Kept
  <2> QED
    BY <1>0, <1>1, <2>1
<1>2. CASE m < Len(seq)
  <2>1. PICK a \in 1..Len(seq) : a = m + 1
    BY <1>0, <1>2
  <2>6. Len(seq) \in a..Len(seq)
    BY <1>0, <1>2, <2>1
  <2>2. PICK b \in a..Len(seq) : b = Len(seq)
    BY <2>6
  <2> DEFINE places == 1..m
  <2>3. rest = C!Kept(seq, places) /\ places = DOMAIN seq \ a..b
    BY <1>0, <2>1, <2>2
  <2> HIDE DEF places
  <2>4. Closed(R, C!Kept(seq, places), seq, a, b)
    BY <2>3, AllButSome
  <2>5. Len(seq) - (b - a + 1) = m /\ \A i \in 1..m : i < a
    BY <1>0, <2>1, <2>2
  <2> QED
    BY <2>3, <2>4, <2>5 DEF Closed
<1> QED
  BY <1>1, <1>2, <1>3
-----------------------------------------------------------------------------
LEMMA Caps == MaxApps \in Nat \ {0} /\ Turn \in Nat \ {0} /\ None \notin AppIds
  BY RotationAssumption DEF RotationAssumption, C!MaxAppsAssumption, C!CarouselAssumption

LEMMA OwnPushed ==
  /\ Pushed \subseteq AppIds /\ ScriptIds \subseteq AppIds
  /\ Orders \subseteq Seq([id: AppIds, enabled: BOOLEAN])
  BY RotationAssumption DEF RotationAssumption, C!CarouselAssumption

LEMMA RegistryIs ==
  ASSUME NEW seq, Registry(seq)
  PROVE  /\ seq \in Seq(C!Apps(AppIds)) /\ Len(seq) \in Nat /\ Len(seq) <= MaxApps
         /\ DOMAIN seq = 1..Len(seq)
         /\ \A i \in DOMAIN seq :
              /\ seq[i] \in C!Apps(AppIds)
              /\ seq[i].id \in AppIds /\ seq[i].source \in C!Sources
              /\ seq[i].enabled \in BOOLEAN /\ seq[i].deadline \in C!Deadlines
<1>1. seq \in Seq(C!Apps(AppIds)) /\ Len(seq) \in Nat /\ Len(seq) <= MaxApps
  BY Caps DEF Registry
<1>2. DOMAIN seq = 1..Len(seq) /\ \A i \in DOMAIN seq : seq[i] \in C!Apps(AppIds)
  BY <1>1
<1> QED
  BY <1>1, <1>2 DEF C!Apps

LEMMA ListIs ==
  ASSUME NEW R, NEW seq, List(R, seq)
  PROVE  /\ seq \in Seq(R) /\ Len(seq) \in Nat /\ DOMAIN seq = 1..Len(seq)
         /\ \A i \in DOMAIN seq : seq[i] \in R
         /\ \A i, j \in DOMAIN seq : seq[i].id = seq[j].id => i = j
<1>1. seq \in Seq(R) /\ Distinct(seq)
  BY DEF List
<1>2. Len(seq) \in Nat /\ DOMAIN seq = 1..Len(seq) /\ \A i \in DOMAIN seq : seq[i] \in R
  BY <1>1
<1> QED
  BY <1>1, <1>2 DEF Distinct

LEMMA PlaceIs ==
  ASSUME NEW R, NEW seq, List(R, seq), NEW id
  PROVE  /\ id \notin C!Ids(seq) => C!PositionOf(seq, id) = 0
         /\ id \in C!Ids(seq) => /\ C!PositionOf(seq, id) \in DOMAIN seq
                                 /\ seq[C!PositionOf(seq, id)].id = id
<1>1. CASE id \in C!Ids(seq)
  <2>1. \E i \in DOMAIN seq : seq[i].id = id
    BY <1>1 DEF C!Ids
  <2> QED
    BY <1>1, <2>1 DEF C!PositionOf
<1> QED
  BY <1>1 DEF C!PositionOf

LEMMA FoundIn ==
  ASSUME NEW R, NEW seq, List(R, seq), NEW id \in C!Ids(seq)
  PROVE  /\ C!Find(seq, id) \in R /\ C!Find(seq, id).id = id
         /\ \E p \in DOMAIN seq : C!Find(seq, id) = seq[p]
<1>1. C!PositionOf(seq, id) \in DOMAIN seq /\ seq[C!PositionOf(seq, id)].id = id
  BY PlaceIs
<1> QED
  BY <1>1, ListIs DEF C!Find

(* Without an app there is one place less. *)
LEMMA WithoutIs ==
  ASSUME NEW R, NEW seq, List(R, seq), NEW p \in DOMAIN seq, NEW rest,
         rest = C!Without(seq, seq[p].id)
  PROVE  /\ rest \in Seq(R) /\ Len(rest) = Len(seq) - 1
         /\ \A i \in 1..Len(seq) - 1 : rest[i] = IF i < p THEN seq[i] ELSE seq[i + 1]
<1> DEFINE places == {i \in DOMAIN seq : seq[i].id # seq[p].id}
<1>1. places = DOMAIN seq \ {p}
  BY ListIs
<1>2. rest = C!Kept(seq, DOMAIN seq \ {p})
  BY <1>1 DEF C!Without
<1> QED
  BY <1>2, AllButOne, ListIs

-----------------------------------------------------------------------------
(* An entry put in at a place: the ones from there on move back. *)
Inserted(R, new, seq, p, e) ==
  /\ new \in Seq(R) /\ Len(new) = Len(seq) + 1
  /\ \A i \in 1..Len(seq) + 1 :
       new[i] = IF i < p THEN seq[i] ELSE IF i = p THEN e ELSE seq[i - 1]

LEMMA InsertAtIs ==
  ASSUME NEW R, NEW seq \in Seq(R), NEW e \in R, NEW p \in 1..Len(seq) + 1,
         NEW new, new = C!InsertAt(seq, p, e)
  PROVE  Inserted(R, new, seq, p, e)
<1> DEFINE a == SubSeq(seq, 1, p - 1)
           b == SubSeq(seq, p, Len(seq))
<1>1. Len(seq) \in Nat /\ p \in Nat /\ p >= 1 /\ p <= Len(seq) + 1
  OBVIOUS
<1>2. /\ a \in Seq(R) /\ Len(a) = p - 1 /\ \A i \in 1..p - 1 : a[i] = seq[i]
  BY <1>1
<1>3. /\ b \in Seq(R) /\ Len(b) = Len(seq) - p + 1
      /\ \A i \in 1..Len(seq) - p + 1 : b[i] = seq[p + i - 1]
  BY <1>1
<1>4. <<e>> \in Seq(R) /\ Len(<<e>>) = 1 /\ <<e>>[1] = e
  OBVIOUS
<1>5. new = a \o <<e>> \o b
  BY DEF C!InsertAt
<1> HIDE DEF a, b
<1> DEFINE c == a \o <<e>>
<1>6. /\ c \in Seq(R) /\ Len(c) = p /\ \A i \in 1..p - 1 : c[i] = seq[i]
      /\ c[p] = e
  BY <1>1, <1>2, <1>4
<1> HIDE DEF c
<1>7. /\ c \o b \in Seq(R) /\ Len(c \o b) = Len(seq) + 1
      /\ \A i \in 1..p : (c \o b)[i] = c[i]
      /\ \A i \in (p + 1)..(Len(seq) + 1) : (c \o b)[i] = b[i - p]
  <2>1. c \o b \in Seq(R) /\ Len(c \o b) = Len(c) + Len(b)
    BY <1>3, <1>6, ConcatProperties
  <2>2. \A i \in 1..Len(c) + Len(b) :
          (c \o b)[i] = IF i <= Len(c) THEN c[i] ELSE b[i - Len(c)]
    BY <1>3, <1>6, ConcatProperties
  <2> QED
    BY <1>1, <1>3, <1>6, <2>1, <2>2
<1>8. ASSUME NEW i \in 1..Len(seq) + 1
      PROVE  (c \o b)[i] = IF i < p THEN seq[i] ELSE IF i = p THEN e ELSE seq[i - 1]
  <2>1. CASE i < p
    BY <1>1, <1>6, <1>7, <2>1
  <2>2. CASE i = p
    BY <1>1, <1>6, <1>7, <2>2
  <2>3. CASE i > p
    <3>1. i - p \in 1..Len(seq) - p + 1 /\ p + (i - p) - 1 = i - 1
      BY <1>1, <2>3
    <3>2. b[i - p] = seq[i - 1]
      BY <1>3, <3>1
    <3>3. i \in (p + 1)..(Len(seq) + 1)
      BY <1>1, <2>3
    <3>4. (c \o b)[i] = b[i - p]
      BY <1>7, <3>3
    <3> QED
      BY <1>1, <2>3, <3>2, <3>4
  <2>4. i < p \/ i = p \/ i > p
    BY <1>1
  <2> HIDE DEF c
  <2> QED
    BY <2>1, <2>2, <2>3, <2>4
<1> QED
  BY <1>5, <1>7, <1>8 DEF c, Inserted

(* A way to put n entries in another order: where each of them was. *)
Shuffle(was, n) ==
  /\ was \in [1..n -> 1..n]
  /\ \A i, j \in 1..n : was[i] = was[j] => i = j
  /\ \A q \in 1..n : \E i \in 1..n : was[i] = q

(* A list put in another order, each entry at a place of its own, is a list*)
(* of the same apps.                                                       *)
LEMMA Rearranged ==
  ASSUME NEW R, NEW seq, List(R, seq), NEW new \in Seq(R), Len(new) = Len(seq),
         NEW was, Shuffle(was, Len(seq)),
         \A i \in 1..Len(seq) : new[i] = seq[was[i]]
  PROVE  List(R, new) /\ C!Ids(new) = C!Ids(seq)
<1>1. DOMAIN new = 1..Len(seq) /\ DOMAIN seq = 1..Len(seq)
  BY ListIs
<1>2. Distinct(new)
  <2> SUFFICES ASSUME NEW i \in 1..Len(seq), NEW j \in 1..Len(seq), new[i].id = new[j].id
               PROVE  i = j
    BY <1>1 DEF Distinct
  <2>1. was[i] \in DOMAIN seq /\ was[j] \in DOMAIN seq
    BY <1>1 DEF Shuffle
  <2>2. seq[was[i]].id = seq[was[j]].id
    OBVIOUS
  <2>3. was[i] = was[j]
    BY <2>1, <2>2 DEF List, Distinct
  <2> QED
    BY <2>3 DEF Shuffle
<1>3. C!Ids(new) = C!Ids(seq)
  <2>1. ASSUME NEW i \in DOMAIN new PROVE new[i].id \in C!Ids(seq)
    BY <1>1 DEF C!Ids, Shuffle
  <2>2. ASSUME NEW q \in DOMAIN seq PROVE seq[q].id \in C!Ids(new)
    BY <1>1 DEF C!Ids, Shuffle
  <2>3. C!Ids(new) \subseteq C!Ids(seq)
    <3> SUFFICES ASSUME NEW x \in C!Ids(new) PROVE x \in C!Ids(seq)
      OBVIOUS
    <3>1. PICK i \in DOMAIN new : x = new[i].id
      BY DEF C!Ids
    <3> QED
      BY <2>1, <3>1
  <2>4. C!Ids(seq) \subseteq C!Ids(new)
    <3> SUFFICES ASSUME NEW x \in C!Ids(seq) PROVE x \in C!Ids(new)
      OBVIOUS
    <3>1. PICK q \in DOMAIN seq : x = seq[q].id
      BY DEF C!Ids
    <3> QED
      BY <2>2, <3>1
  <2> QED
    BY <2>3, <2>4
<1> QED
  BY <1>2, <1>3 DEF List

(* Moving an app to the front takes it to its place, and changes nothing   *)
(* before that.                                                            *)
ToTheFront(new, seq, p, place) ==
  place <= p => new[place] = seq[p] /\ \A i \in 1..place - 1 : new[i] = seq[i]

LEMMA MoveIs ==
  ASSUME NEW R, NEW seq, List(R, seq), NEW p \in DOMAIN seq, NEW place \in DOMAIN seq,
         NEW new, new = C!Move(seq, seq[p].id, place)
  PROVE  /\ List(R, new) /\ Len(new) = Len(seq) /\ C!Ids(new) = C!Ids(seq)
         /\ ToTheFront(new, seq, p, place)
<1> DEFINE rest == C!Without(seq, seq[p].id)
           n == Len(seq)
<1>1. n \in Nat /\ DOMAIN seq = 1..n /\ p \in 1..n /\ place \in 1..n /\ seq \in Seq(R)
  BY ListIs
<1>2. /\ rest \in Seq(R) /\ Len(rest) = n - 1
      /\ \A i \in 1..n - 1 : rest[i] = IF i < p THEN seq[i] ELSE seq[i + 1]
  BY WithoutIs
<1>3. C!Find(seq, seq[p].id) = seq[p] /\ seq[p].id \in C!Ids(seq) /\ seq[p] \in R
  <2>1. seq[p].id \in C!Ids(seq) /\ seq[p] \in R
    BY ListIs DEF C!Ids
  <2>2. C!PositionOf(seq, seq[p].id) = p
    BY <2>1, PlaceIs, ListIs
  <2> QED
    BY <2>1, <2>2 DEF C!Find
<1>4. new = C!InsertAt(rest, place, seq[p])
  BY <1>1, <1>3 DEF C!Move
<1> HIDE DEF rest, n
<1>5. /\ new \in Seq(R) /\ Len(new) = n
      /\ \A i \in 1..n :
           new[i] = IF i < place THEN rest[i] ELSE IF i = place THEN seq[p] ELSE rest[i - 1]
  <2>1. place \in 1..Len(rest) + 1 /\ Len(rest) + 1 = n
    BY <1>1, <1>2
  <2>2. PICK q \in 1..Len(rest) + 1 : q = place
    BY <2>1
  <2>3. PICK e \in R : e = seq[p]
    BY <1>3
  <2>4. rest \in Seq(R) /\ new = C!InsertAt(rest, q, e)
    BY <1>2, <1>4, <2>2, <2>3
  <2>5. Inserted(R, new, rest, q, e)
    BY <2>4, InsertAtIs
  <2> QED
    BY <2>1, <2>2, <2>3, <2>5 DEF Inserted
<1> DEFINE Back(j) == IF j < p THEN j ELSE j + 1
           was == [i \in 1..n |-> IF i < place THEN Back(i)
                                  ELSE IF i = place THEN p ELSE Back(i - 1)]
           Forth(j) == IF j < place THEN j ELSE j + 1
<1>6. was \in [1..n -> 1..n]
  BY <1>1
<1>7. \A i, j \in 1..n : was[i] = was[j] => i = j
  BY <1>1
<1>8. ASSUME NEW q \in 1..n PROVE \E i \in 1..n : was[i] = q
  <2>1. CASE q = p
    BY <1>1, <2>1
  <2>2. CASE q < p
    <3>1. Forth(q) \in 1..n /\ was[Forth(q)] = q
      BY <1>1, <2>2
    <3> QED
      BY <3>1
  <2>3. CASE q > p
    <3>1. Forth(q - 1) \in 1..n /\ was[Forth(q - 1)] = q
      BY <1>1, <2>3
    <3> QED
      BY <3>1
  <2>4. q = p \/ q < p \/ q > p
    BY <1>1
  <2> QED
    BY <2>1, <2>2, <2>3, <2>4
<1>9. ASSUME NEW i \in 1..n PROVE new[i] = seq[was[i]]
  <2>1. CASE i < place
    <3>1. i \in 1..n - 1 /\ new[i] = rest[i] /\ was[i] = Back(i)
      BY <1>1, <1>5, <2>1
    <3> QED
      BY <1>2, <3>1
  <2>2. CASE i = place
    BY <1>5, <2>2
  <2>3. CASE i > place
    <3>3. ~(i < place) /\ i # place
      BY <1>1, <2>3
    <3>2. i - 1 \in 1..n - 1
      BY <1>1, <2>3
    <3>1. i - 1 \in 1..n - 1 /\ new[i] = rest[i - 1] /\ was[i] = Back(i - 1)
      BY <1>5, <3>2, <3>3
    <3> QED
      BY <1>2, <3>1
  <2>4. i < place \/ i = place \/ i > place
    BY <1>1
  <2> QED
    BY <2>1, <2>2, <2>3, <2>4
<1>10. ASSUME place <= p
       PROVE  new[place] = seq[p] /\ \A i \in 1..place - 1 : new[i] = seq[i]
  <2>1. new[place] = seq[p]
    BY <1>1, <1>5
  <2>2. ASSUME NEW i \in 1..place - 1 PROVE new[i] = seq[i]
    <3>1. i \in 1..n /\ i \in 1..n - 1 /\ i < place /\ i < p
      BY <1>1, <1>10
    <3> QED
      BY <1>2, <1>5, <3>1
  <2> QED
    BY <2>1, <2>2
<1> HIDE DEF was
<1>11. List(R, new) /\ C!Ids(new) = C!Ids(seq)
  <2>1. Shuffle(was, n)
    BY <1>6, <1>7, <1>8 DEF Shuffle
  <2> QED
    BY <1>5, <1>9, <2>1, Rearranged DEF n
<1> QED
  BY <1>5, <1>10, <1>11 DEF n, ToTheFront

(* An app is put in its place, or behind the others, or not at all. *)
LEMMA PutIn ==
  ASSUME NEW R, NEW seq, List(R, seq), NEW app \in R, NEW new, new = C!Put(seq, app)
  PROVE  /\ List(R, new) /\ C!Ids(seq) \subseteq C!Ids(new)
         /\ Len(new) # Len(seq) => Len(seq) < MaxApps /\ Len(new) = Len(seq) + 1
<1>1. /\ seq \in Seq(R) /\ Len(seq) \in Nat /\ DOMAIN seq = 1..Len(seq)
      /\ \A i, j \in DOMAIN seq : seq[i].id = seq[j].id => i = j
  BY ListIs
<1>2. CASE app.id \in C!Ids(seq)
  <2>1. PICK p \in DOMAIN seq : p = C!PositionOf(seq, app.id) /\ seq[p].id = app.id
    BY <1>2, PlaceIs
  <2>2. new = [seq EXCEPT ![p] = app]
    BY <1>2, <2>1 DEF C!Put
  <2>3. new \in Seq(R) /\ Len(new) = Len(seq) /\ DOMAIN new = DOMAIN seq
    BY <1>1, <2>1, <2>2
  <2>4. \A i \in DOMAIN seq : new[i].id = seq[i].id
    BY <2>1, <2>2
  <2>5. Distinct(new)
    BY <1>1, <2>3, <2>4 DEF Distinct
  <2>6. C!Ids(seq) \subseteq C!Ids(new)
    BY <2>3, <2>4 DEF C!Ids
  <2> QED
    BY <2>3, <2>5, <2>6 DEF List
<1>3. CASE app.id \notin C!Ids(seq) /\ Len(seq) < MaxApps
  <2>1. new = Append(seq, app)
    BY <1>3 DEF C!Put
  <2>2. /\ new \in Seq(R) /\ Len(new) = Len(seq) + 1 /\ DOMAIN new = 1..Len(seq) + 1
        /\ new[Len(seq) + 1] = app /\ \A i \in 1..Len(seq) : new[i] = seq[i]
    BY <1>1, <2>1
  <2>3. \A i \in 1..Len(seq) : seq[i].id # app.id
    BY <1>1, <1>3 DEF C!Ids
  <2>4. Distinct(new)
    <3> SUFFICES ASSUME NEW i \in DOMAIN new, NEW j \in DOMAIN new, new[i].id = new[j].id
                 PROVE  i = j
      BY DEF Distinct
    <3>1. CASE i \in 1..Len(seq) /\ j \in 1..Len(seq)
      BY <1>1, <2>2, <3>1
    <3>2. CASE i = Len(seq) + 1
      BY <1>1, <2>2, <2>3, <3>2
    <3>3. CASE j = Len(seq) + 1
      BY <1>1, <2>2, <2>3, <3>3
    <3> QED
      BY <1>1, <2>2, <3>1, <3>2, <3>3
  <2>5. C!Ids(seq) \subseteq C!Ids(new)
    <3> SUFFICES ASSUME NEW i \in 1..Len(seq) PROVE seq[i].id \in C!Ids(new)
      BY <1>1 DEF C!Ids
    <3>1. i \in DOMAIN new /\ new[i] = seq[i]
      BY <1>1, <2>2
    <3> QED
      BY <3>1 DEF C!Ids
  <2> QED
    BY <1>3, <2>2, <2>4, <2>5 DEF List
<1>4. CASE app.id \notin C!Ids(seq) /\ ~(Len(seq) < MaxApps)
  <2>1. new = seq
    BY <1>4 DEF C!Put
  <2> QED
    BY <2>1
<1> QED
  BY <1>2, <1>3, <1>4

(* A move to a place there is, or to none. *)
LEMMA MovedIn ==
  ASSUME NEW R, NEW seq, List(R, seq), NEW id, NEW place, NEW new, new = C!Move(seq, id, place)
  PROVE  List(R, new) /\ Len(new) = Len(seq) /\ C!Ids(new) = C!Ids(seq)
<1>1. CASE place \in DOMAIN seq /\ id \in C!Ids(seq)
  <2>1. PICK p \in DOMAIN seq : seq[p].id = id
    BY <1>1 DEF C!Ids
  <2> QED
    BY <1>1, <2>1, MoveIs
<1>2. CASE ~(place \in DOMAIN seq /\ id \in C!Ids(seq))
  BY <1>2 DEF C!Move
<1> QED
  BY <1>1, <1>2

(* Only the app named is gone. *)
LEMMA LeftOut ==
  ASSUME NEW R, NEW seq, List(R, seq), NEW id, NEW new, new = C!Without(seq, id)
  PROVE  List(R, new) /\ C!Ids(new) = C!Ids(seq) \ {id}
<1> DEFINE places == {i \in DOMAIN seq : seq[i].id # id}
<1>1. new = C!Kept(seq, places) /\ places \in SUBSET DOMAIN seq /\ seq \in Seq(R)
  BY ListIs DEF C!Without
<1> HIDE DEF places
<1>2. List(R, new) /\ From(new, seq, places) /\ Onto(new, seq, places)
  BY <1>1, KeptOf DEF List
<1>3. C!Ids(new) \subseteq C!Ids(seq) \ {id}
  <2> SUFFICES ASSUME NEW i \in DOMAIN new PROVE new[i].id \in C!Ids(seq) \ {id}
    BY DEF C!Ids
  <2>1. PICK k \in places : new[i] = seq[k]
    BY <1>2 DEF From
  <2> QED
    BY <2>1 DEF C!Ids, places
<1>4. C!Ids(seq) \ {id} \subseteq C!Ids(new)
  <2> SUFFICES ASSUME NEW k \in DOMAIN seq, seq[k].id # id PROVE seq[k].id \in C!Ids(new)
    BY DEF C!Ids
  <2>1. PICK i \in DOMAIN new : new[i] = seq[k]
    BY <1>2 DEF Onto, places
  <2> QED
    BY <2>1 DEF C!Ids
<1> QED
  BY <1>2, <1>3, <1>4

-----------------------------------------------------------------------------
(* Of registries. *)
LEMMA PositionIs ==
  ASSUME NEW seq, Registry(seq), NEW id
  PROVE  /\ C!PositionOf(seq, id) \in 0..Len(seq)
         /\ id \notin C!Ids(seq) => C!PositionOf(seq, id) = 0
         /\ id \in C!Ids(seq) => /\ C!PositionOf(seq, id) \in DOMAIN seq
                                 /\ seq[C!PositionOf(seq, id)].id = id
<1>1. DOMAIN seq = 1..Len(seq) /\ Len(seq) \in Nat
  BY RegistryIs
<1>2. CASE id \in C!Ids(seq)
  <2>1. \E i \in DOMAIN seq : seq[i].id = id
    BY <1>2 DEF C!Ids
  <2> QED
    BY <1>1, <1>2, <2>1 DEF C!PositionOf
<1> QED
  BY <1>1, <1>2 DEF C!PositionOf

LEMMA FoundIs ==
  ASSUME NEW seq, Registry(seq), NEW id \in C!Ids(seq)
  PROVE  C!Find(seq, id) \in C!Apps(AppIds) /\ C!Find(seq, id).id = id
  BY PositionIs, RegistryIs DEF C!Find

LEMMA EnabledIs ==
  ASSUME NEW seq, Registry(seq), NEW id, C!IsEnabled(seq, id)
  PROVE  /\ id \in C!Ids(seq) /\ id \in AppIds
         /\ seq[C!PositionOf(seq, id)].enabled
<1>1. PICK i \in DOMAIN seq : seq[i].id = id /\ seq[i].enabled
  BY DEF C!IsEnabled
<1>2. id \in C!Ids(seq)
  BY <1>1 DEF C!Ids
<1>3. i = C!PositionOf(seq, id)
  BY <1>1, <1>2, PositionIs DEF Registry, Distinct
<1> QED
  BY <1>1, <1>2, <1>3, RegistryIs

-----------------------------------------------------------------------------
(* Every edit of a registry makes a registry. *)
LEMMA ExpireKeeps == ASSUME NEW seq, Registry(seq) PROVE Registry(C!Expire(seq))
  BY KeptIsPart, Caps DEF C!Expire

LEMMA ClearKeeps == ASSUME NEW seq, Registry(seq) PROVE Registry(C!SystemOnly(seq))
  BY KeptIsPart, Caps DEF C!SystemOnly

LEMMA WithoutKeeps ==
  ASSUME NEW seq, Registry(seq), NEW id PROVE Registry(C!Without(seq, id))
  BY KeptIsPart, Caps DEF C!Without

LEMMA PutKeeps ==
  ASSUME NEW seq, Registry(seq), NEW app \in C!Apps(AppIds)
  PROVE  Registry(C!Put(seq, app))
<1> DEFINE new == C!Put(seq, app)
<1>1. List(C!Apps(AppIds), seq) /\ Len(seq) \in Nat /\ Len(seq) <= MaxApps
  BY RegistryIs DEF Registry, List
<1>2. /\ List(C!Apps(AppIds), new)
      /\ Len(new) # Len(seq) => Len(seq) < MaxApps /\ Len(new) = Len(seq) + 1
  BY <1>1, PutIn
<1> HIDE DEF new
<1>3. Len(new) \in 0..MaxApps
  BY <1>1, <1>2, Caps
<1> QED
  BY <1>2, <1>3 DEF Registry, List, new

LEMMA MoveKeeps ==
  ASSUME NEW seq, Registry(seq), NEW id, NEW position
  PROVE  Registry(C!Move(seq, id, position))
<1>1. List(C!Apps(AppIds), seq)
  BY DEF Registry, List
<1>2. /\ List(C!Apps(AppIds), C!Move(seq, id, position))
      /\ Len(C!Move(seq, id, position)) = Len(seq)
  BY <1>1, MovedIn
<1> QED
  BY <1>2 DEF Registry, List

-----------------------------------------------------------------------------
(* The walk around the ring ends at an app that is enabled, or nowhere. *)
LEMMA SmallestOf == ASSUME NEW S \in SUBSET Nat, S # {} PROVE C!Min(S) \in S
<1>1. PICK x \in S : \A y \in S : ~(<<y, x>> \in OpToRel(<, Nat))
  BY WFMin, NatLessThanWellFounded
<1>2. ASSUME NEW y \in S PROVE x <= y
  <2>1. x \in Nat /\ y \in Nat
    OBVIOUS
  <2>2. ~(y < x)
    <3> SUFFICES ASSUME y < x PROVE FALSE
      OBVIOUS
    <3>1. <<y, x>> \in OpToRel(<, Nat)
      BY <2>1 DEF OpToRel
    <3> QED
      BY <1>1, <3>1
  <2> QED
    BY <2>1, <2>2
<1> QED
  BY <1>2 DEF C!Min

LEMMA WalkEndsWell ==
  ASSUME NEW seq, Registry(seq), NEW from \in Int, NEW direction \in {1, -1},
         NEW i, i = C!FirstEnabledAround(seq, from, direction)
  PROVE  /\ i \in 0..Len(seq)
         /\ i # 0 => i \in DOMAIN seq /\ seq[i].enabled
<1> DEFINE hits == {k \in DOMAIN seq : seq[C!Around(seq, from, direction * k)].enabled}
<1>1. Len(seq) \in Nat /\ DOMAIN seq = 1..Len(seq)
  BY RegistryIs
<1>2. CASE hits = {}
  BY <1>1, <1>2 DEF C!FirstEnabledAround
<1>3. CASE hits # {}
  <2> DEFINE k == C!Min(hits)
  <2>1. hits \in SUBSET Nat
    BY <1>1
  <2>2. k \in hits
    <3> HIDE DEF hits
    <3> QED
      BY <1>3, <2>1, SmallestOf
  <2>3. i = C!Around(seq, from, direction * k)
    BY <1>3 DEF C!FirstEnabledAround
  <2> HIDE DEF k
  <2>4. k \in 1..Len(seq) /\ seq[i].enabled
    BY <1>1, <2>2, <2>3
  <2>5. i \in 1..Len(seq)
    <3> DEFINE x == from - 1 + direction * k
    <3>1. x \in Int /\ Len(seq) > 0
      BY <1>1, <2>4
    <3>2. i = (x % Len(seq)) + 1
      BY <2>3 DEF C!Around
    <3> HIDE DEF x
    <3>3. x % Len(seq) \in 0..(Len(seq) - 1)
      BY <1>1, <3>1
    <3> QED
      BY <1>1, <3>2, <3>3
  <2> QED
    BY <1>1, <2>4, <2>5
<1> QED
  BY <1>2, <1>3
-----------------------------------------------------------------------------
(* NeverImpersonates alone is not inductive: a tick that finds the pin     *)
(* holding leaves the screen to whoever has it, and that is the pinned app *)
(* only because PinIsShown says so.                                        *)
CarouselInv == C!TypeOK /\ C!NeverImpersonates /\ C!PinIsShown

(* What FullTurn says of one step. *)
TurnIsFull ==
  activeId' # activeId
    => /\ dwell' = 0
       /\ \/ activeId = None
          \/ C!Navigate \/ C!Reset
          \/ ~C!IsEnabled(apps', activeId)
          \/ dwell >= Turn /\ ~paused /\ autoAdvance

LEMMA AppsAreARegistry == ASSUME C!TypeOK PROVE Registry(apps)
  BY Caps DEF C!TypeOK, Registry, Distinct

(* The type invariant after a step, from its parts. *)
LEMMA Typed ==
  ASSUME Registry(apps'),
         activeId' \in AppIds \cup {None}, lastIndex' \in 0..MaxApps, dwell' \in 0..Turn,
         paused' \in BOOLEAN, autoAdvance' \in BOOLEAN, pinnedId' \in AppIds \cup {None},
         inSettings' \in BOOLEAN, timing' \in BOOLEAN, unseen' \in BOOLEAN
  PROVE  C!TypeOK'
<1>1. apps' \in Seq(C!Apps(AppIds)) /\ Len(apps') <= MaxApps
  BY RegistryIs
<1>2. \A i, j \in DOMAIN apps' : apps'[i].id = apps'[j].id => i = j
  BY DEF Registry, Distinct
<1> QED
  BY <1>1, <1>2 DEF C!TypeOK

(* Activating an app that is enabled, or none. *)
LEMMA Activates ==
  ASSUME NEW reg, Registry(reg), NEW i \in 0..Len(reg), i # 0 => reg[i].enabled,
         C!ActivateIndex(reg, i)
  PROVE  /\ activeId' \in AppIds \cup {None} /\ lastIndex' \in 0..MaxApps /\ dwell' = 0
         /\ activeId' # None => C!IsEnabled(reg, activeId')
<1>1. Len(reg) \in Nat /\ Len(reg) <= MaxApps /\ DOMAIN reg = 1..Len(reg)
  BY RegistryIs
<1>2. lastIndex' \in 0..MaxApps /\ dwell' = 0
  BY <1>1, Caps DEF C!ActivateIndex
<1>3. CASE i = 0
  BY <1>2, <1>3 DEF C!ActivateIndex
<1>4. CASE i # 0
  <2>1. i \in DOMAIN reg /\ reg[i].enabled /\ reg[i].id \in AppIds
    BY <1>1, <1>4, RegistryIs
  <2>2. activeId' = reg[i].id
    BY <1>4 DEF C!ActivateIndex
  <2> QED
    BY <1>2, <2>1, <2>2 DEF C!IsEnabled
<1> QED
  BY <1>3, <1>4

-----------------------------------------------------------------------------
LEMMA TickKeeps ==
  ASSUME CarouselInv, NEW reg, Registry(reg), C!TickOn(reg)
  PROVE  CarouselInv' /\ TurnIsFull
<1> DEFINE live == C!Expire(reg)
           here == C!PositionOf(live, activeId)
<1>1. Registry(live)
  BY ExpireKeeps
<1>2. /\ apps' = live
      /\ pinnedId' = IF C!PinHolds(live) THEN pinnedId ELSE None
      /\ \/ /\ C!PinHolds(live)
            /\ IF activeId = pinnedId
               THEN UNCHANGED C!position
               ELSE C!ActivateIndex(live, C!PositionOf(live, pinnedId))
         \/ /\ ~C!PinHolds(live)
            /\ ~C!IsEnabled(live, activeId)
            /\ C!ActivateIndex(live, C!NextEnabled(live, C!ResumeFrom))
         \/ /\ ~C!PinHolds(live)
            /\ C!IsEnabled(live, activeId)
            /\ IF C!Advances
               THEN C!ActivateIndex(live, C!NextEnabled(live, here))
               ELSE UNCHANGED C!position
      /\ unseen' = FALSE
      /\ UNCHANGED C!settings /\ UNCHANGED C!modes
  BY DEF C!TickOn
<1>3. /\ activeId \in AppIds \cup {None} /\ lastIndex \in 0..MaxApps /\ dwell \in 0..Turn
      /\ paused \in BOOLEAN /\ autoAdvance \in BOOLEAN /\ pinnedId \in AppIds \cup {None}
      /\ inSettings \in BOOLEAN /\ timing \in BOOLEAN
  BY DEF CarouselInv, C!TypeOK
<1>4. /\ paused' = paused /\ autoAdvance' = autoAdvance /\ pinnedId' \in AppIds \cup {None}
      /\ inSettings' = inSettings /\ timing' = timing /\ unseen' \in BOOLEAN
  BY <1>2, <1>3 DEF C!settings, C!modes
<1>5. 0 \in 0..Turn
  BY Caps
<1> HIDE DEF live
<1>6. CASE C!PinHolds(live)
  <2>1. activeId = pinnedId /\ pinnedId # None /\ C!IsEnabled(live, pinnedId)
    BY <1>6 DEF CarouselInv, C!PinIsShown, C!PinHolds
  <2>2. UNCHANGED C!position /\ pinnedId' = pinnedId
    BY <1>2, <1>6, <2>1
  <2>3. activeId' = activeId /\ lastIndex' = lastIndex /\ dwell' = dwell
    BY <2>2 DEF C!position
  <2>4. C!TypeOK'
    BY <1>1, <1>2, <1>3, <1>4, <2>3, Typed
  <2>5. C!NeverImpersonates' /\ C!PinIsShown'
    BY <1>2, <2>1, <2>2, <2>3 DEF C!NeverImpersonates, C!PinIsShown, C!IsEnabled
  <2> QED
    BY <2>3, <2>4, <2>5 DEF CarouselInv, TurnIsFull
<1>7. ASSUME ~C!PinHolds(live), NEW i, C!ActivateIndex(live, i), i \in 0..Len(live),
             i # 0 => live[i].enabled,
             ~C!IsEnabled(live, activeId) \/ C!Advances
      PROVE  CarouselInv' /\ TurnIsFull
  <2>1. /\ activeId' \in AppIds \cup {None} /\ lastIndex' \in 0..MaxApps /\ dwell' = 0
        /\ activeId' # None => C!IsEnabled(live, activeId')
    BY <1>1, <1>7, Activates
  <2>2. C!TypeOK'
    BY <1>1, <1>2, <1>3, <1>4, <1>5, <2>1, Typed
  <2>3. C!NeverImpersonates' /\ C!PinIsShown'
    BY <1>2, <1>7, <2>1 DEF C!NeverImpersonates, C!PinIsShown, C!IsEnabled
  <2>4. TurnIsFull
    BY <1>2, <1>7, <2>1 DEF TurnIsFull, C!Advances
  <2> QED
    BY <2>2, <2>3, <2>4 DEF CarouselInv
<1>8. CASE ~C!PinHolds(live) /\ ~C!IsEnabled(live, activeId)
  <2> DEFINE i == C!NextEnabled(live, C!ResumeFrom)
  <2>1. C!ResumeFrom \in Int
    BY <1>3, Caps DEF C!ResumeFrom
  <2>2. i \in 0..Len(live) /\ (i # 0 => live[i].enabled)
    BY <1>1, <2>1, WalkEndsWell DEF C!NextEnabled
  <2>3. C!ActivateIndex(live, i)
    BY <1>2, <1>8
  <2> HIDE DEF i
  <2> QED
    BY <1>7, <1>8, <2>2, <2>3
<1>9. CASE ~C!PinHolds(live) /\ C!IsEnabled(live, activeId) /\ C!Advances
  <2> DEFINE i == C!NextEnabled(live, here)
  <2>1. here \in Int
    BY <1>1, PositionIs, RegistryIs
  <2>2. i \in 0..Len(live) /\ (i # 0 => live[i].enabled)
    BY <1>1, <2>1, WalkEndsWell DEF C!NextEnabled
  <2>3. C!ActivateIndex(live, i)
    BY <1>2, <1>9
  <2> HIDE DEF i
  <2> QED
    BY <1>7, <1>9, <2>2, <2>3
<1>10. CASE ~C!PinHolds(live) /\ C!IsEnabled(live, activeId) /\ ~C!Advances
  <2>1. activeId' = activeId /\ lastIndex' = lastIndex /\ dwell' = dwell
    BY <1>2, <1>10 DEF C!position
  <2>2. C!TypeOK'
    BY <1>1, <1>2, <1>3, <1>4, <2>1, Typed
  <2>3. C!NeverImpersonates' /\ C!PinIsShown'
    BY <1>2, <1>10, <2>1 DEF C!NeverImpersonates, C!PinIsShown, C!IsEnabled
  <2> QED
    BY <2>1, <2>2, <2>3 DEF CarouselInv, TurnIsFull
<1> QED
  BY <1>6, <1>8, <1>9, <1>10
-----------------------------------------------------------------------------
(* Steps that change neither the registry nor who is showing. *)
LEMMA ScreenIsKept ==
  ASSUME CarouselInv, apps' = apps, activeId' = activeId, lastIndex' = lastIndex,
         dwell' \in 0..Turn, paused' \in BOOLEAN, autoAdvance' \in BOOLEAN,
         inSettings' \in BOOLEAN, timing' \in BOOLEAN, unseen' = unseen,
         pinnedId' \in {pinnedId, None}
  PROVE  CarouselInv' /\ TurnIsFull
<1>1. Registry(apps)
  BY AppsAreARegistry DEF CarouselInv
<1>2. C!TypeOK'
  <2>1. /\ activeId' \in AppIds \cup {None} /\ lastIndex' \in 0..MaxApps
        /\ pinnedId' \in AppIds \cup {None} /\ unseen' \in BOOLEAN
    BY DEF CarouselInv, C!TypeOK
  <2> QED
    BY <1>1, <2>1, Typed
<1>3. C!NeverImpersonates' /\ C!PinIsShown'
  BY DEF CarouselInv, C!NeverImpersonates, C!PinIsShown, C!IsEnabled
<1> QED
  BY <1>2, <1>3 DEF CarouselInv, TurnIsFull

(* The user's hand on the knob, which may take the screen at any time. *)
LEMMA HandTakesTheScreen ==
  ASSUME CarouselInv, NEW i \in 0..Len(apps), i # 0 => apps[i].enabled, C!GoTo(i),
         pinnedId' = None \/ (i # 0 /\ pinnedId' = apps[i].id),
         C!Navigate
  PROVE  CarouselInv' /\ TurnIsFull
<1>0. /\ C!ActivateIndex(apps, i) /\ unseen' = FALSE
      /\ apps' = apps /\ paused' = paused /\ autoAdvance' = autoAdvance
      /\ inSettings' = inSettings /\ timing' = timing
  BY DEF C!GoTo, C!settings, C!modes
<1>1. Registry(apps)
  BY AppsAreARegistry DEF CarouselInv
<1>2. /\ activeId' \in AppIds \cup {None} /\ lastIndex' \in 0..MaxApps /\ dwell' = 0
      /\ activeId' # None => C!IsEnabled(apps, activeId')
  BY <1>0, <1>1, Activates
<1>3. i # 0 => activeId' = apps[i].id /\ apps[i].id \in AppIds
  BY <1>0, <1>1, RegistryIs DEF C!ActivateIndex
<1>4. C!TypeOK'
  <2>0. 0 \in 0..Turn
    BY Caps
  <2>1. /\ paused' \in BOOLEAN /\ autoAdvance' \in BOOLEAN
        /\ inSettings' \in BOOLEAN /\ timing' \in BOOLEAN /\ unseen' \in BOOLEAN
    BY <1>0 DEF CarouselInv, C!TypeOK
  <2>2. pinnedId' \in AppIds \cup {None}
    BY <1>3
  <2> QED
    BY <1>0, <1>1, <1>2, <2>0, <2>1, <2>2, Typed
<1>5. pinnedId' # None => activeId' = pinnedId'
  BY <1>3
<1>6. C!NeverImpersonates' /\ C!PinIsShown'
  BY <1>0, <1>2, <1>5 DEF C!NeverImpersonates, C!PinIsShown, C!IsEnabled
<1> QED
  BY <1>2, <1>4, <1>6 DEF CarouselInv, TurnIsFull

LEMMA NavigationKeeps ==
  ASSUME CarouselInv, C!Navigate
  PROVE  CarouselInv' /\ TurnIsFull
<1>1. Registry(apps) /\ DOMAIN apps = 1..Len(apps) /\ Len(apps) \in Nat
  BY AppsAreARegistry, RegistryIs DEF CarouselInv
<1>2. C!PositionOf(apps, activeId) \in Int
  BY <1>1, PositionIs
<1>3. CASE C!NextApp
  <2> DEFINE i == C!NextEnabled(apps, C!PositionOf(apps, activeId))
  <2>1. i \in 0..Len(apps) /\ (i # 0 => apps[i].enabled)
    BY <1>1, <1>2, WalkEndsWell DEF C!NextEnabled
  <2>2. C!GoTo(i) /\ pinnedId' = None
    BY <1>3 DEF C!NextApp
  <2> HIDE DEF i
  <2> QED
    BY <2>1, <2>2, HandTakesTheScreen
<1>4. CASE C!PreviousApp
  <2> DEFINE here == C!PositionOf(apps, activeId)
             i == C!PreviousEnabled(apps, IF here > 0 THEN here ELSE 1)
  <2>1. (IF here > 0 THEN here ELSE 1) \in Int
    BY <1>2
  <2>2. i \in 0..Len(apps) /\ (i # 0 => apps[i].enabled)
    BY <1>1, <2>1, WalkEndsWell DEF C!PreviousEnabled
  <2>3. C!GoTo(i) /\ pinnedId' = None
    BY <1>4 DEF C!PreviousApp
  <2> HIDE DEF i
  <2> QED
    BY <2>2, <2>3, HandTakesTheScreen
<1>5. ASSUME NEW id \in AppIds, C!Activate(id) \/ C!Pin(id)
      PROVE  CarouselInv' /\ TurnIsFull
  <2> DEFINE i == C!PositionOf(apps, id)
  <2>1. C!IsEnabled(apps, id)
    BY <1>5 DEF C!Activate, C!Pin
  <2>2. i \in DOMAIN apps /\ apps[i].id = id /\ apps[i].enabled
    BY <1>1, <2>1, EnabledIs, PositionIs
  <2>3. C!GoTo(i) /\ (pinnedId' = None \/ pinnedId' = id)
    BY <1>5 DEF C!Activate, C!Pin
  <2> HIDE DEF i
  <2>4. i \in 0..Len(apps) /\ i # 0
    BY <1>1, <2>2
  <2> QED
    BY <2>2, <2>3, <2>4, HandTakesTheScreen
<1> QED
  BY <1>3, <1>4, <1>5 DEF C!Navigate

LEMMA UserKeeps ==
  ASSUME CarouselInv, C!User
  PROVE  CarouselInv' /\ TurnIsFull
<1>1. CASE C!Navigate
  BY <1>1, NavigationKeeps
<1>2. CASE \/ C!Unpin \/ C!TogglePause \/ C!Configure
           \/ C!PressStopwatch \/ C!OpenMenu \/ C!CloseMenu
  <2>1. /\ apps' = apps /\ activeId' = activeId /\ lastIndex' = lastIndex
        /\ pinnedId' \in {pinnedId, None} /\ unseen' = unseen
    BY <1>2 DEF C!Unpin, C!TogglePause, C!Configure, C!PressStopwatch, C!OpenMenu, C!CloseMenu,
                C!position
  <2>2. dwell' \in 0..Turn
    BY <1>2, Caps DEF CarouselInv, C!TypeOK, C!Unpin, C!TogglePause, C!Configure,
                      C!PressStopwatch, C!OpenMenu, C!CloseMenu, C!position
  <2>3. paused' \in BOOLEAN /\ autoAdvance' \in BOOLEAN
    BY <1>2 DEF CarouselInv, C!TypeOK, C!Unpin, C!TogglePause, C!Configure,
                C!PressStopwatch, C!OpenMenu, C!CloseMenu, C!settings
  <2>4. inSettings' \in BOOLEAN /\ timing' \in BOOLEAN
    BY <1>2 DEF CarouselInv, C!TypeOK, C!Unpin, C!TogglePause, C!Configure,
                C!PressStopwatch, C!OpenMenu, C!CloseMenu, C!modes
  <2> QED
    BY <2>1, <2>2, <2>3, <2>4, ScreenIsKept
<1>3. CASE C!Reset
  <2>1. Registry(apps)
    BY AppsAreARegistry DEF CarouselInv
  <2>2. activeId' = None /\ lastIndex' = 0 /\ dwell' = 0 /\ apps' = apps /\ pinnedId' = None
    BY <1>3 DEF C!Reset, C!ActivateIndex
  <2>3. /\ paused' \in BOOLEAN /\ autoAdvance' \in BOOLEAN /\ unseen' \in BOOLEAN
        /\ inSettings' \in BOOLEAN /\ timing' \in BOOLEAN
    BY <1>3 DEF CarouselInv, C!TypeOK, C!Reset, C!modes
  <2>4. C!TypeOK'
    BY <2>1, <2>2, <2>3, Caps, Typed
  <2> QED
    BY <1>3, <2>2, <2>4 DEF CarouselInv, C!NeverImpersonates, C!PinIsShown, TurnIsFull
<1> QED
  BY <1>1, <1>2, <1>3 DEF C!User

LEMMA HandlerKeeps ==
  ASSUME CarouselInv, C!Handler
  PROVE  CarouselInv' /\ TurnIsFull
<1> USE AppsAreARegistry DEF CarouselInv
<1>1. ASSUME NEW id \in Pushed, NEW source \in {"remote", "temporary"}, NEW enabled \in BOOLEAN,
             C!Create(id, source, enabled)
      PROVE  CarouselInv' /\ TurnIsFull
  <2>1. C!NewApp(id, source, enabled) \in C!Apps(AppIds)
    BY OwnPushed DEF C!NewApp, C!Apps, C!Sources, C!Deadlines
  <2>2. C!TickOn(C!Put(apps, C!NewApp(id, source, enabled)))
    BY <1>1 DEF C!Create
  <2> QED
    BY <2>1, <2>2, PutKeeps, TickKeeps
<1>2. ASSUME NEW id \in AppIds, C!Delete(id) PROVE CarouselInv' /\ TurnIsFull
  <2>1. C!TickOn(C!Without(apps, id))
    BY <1>2 DEF C!Delete
  <2> QED
    BY <2>1, WithoutKeeps, TickKeeps
<1>3. ASSUME NEW id \in AppIds, NEW enabled \in BOOLEAN, NEW place, C!Edit(id, enabled, place)
      PROVE  CarouselInv' /\ TurnIsFull
  <2> DEFINE new == [C!Find(apps, id) EXCEPT !.enabled = enabled]
             changed == C!Put(apps, new)
             reg == IF place = 0 THEN changed ELSE C!Move(changed, id, place)
  <2>1. id \in C!Ids(apps) /\ C!TickOn(reg)
    BY <1>3 DEF C!Edit
  <2>2. new \in C!Apps(AppIds)
    BY <2>1, FoundIs DEF C!Apps
  <2> HIDE DEF new
  <2>3. Registry(changed)
    BY <2>2, PutKeeps
  <2> HIDE DEF changed
  <2>4. Registry(reg)
    BY <2>3, MoveKeeps
  <2> HIDE DEF reg
  <2> QED
    BY <2>1, <2>4, TickKeeps
<1>4. ASSUME NEW id \in AppIds, NEW enabled \in BOOLEAN, C!Replace(id, enabled)
      PROVE  CarouselInv' /\ TurnIsFull
  <2> DEFINE new == [C!Find(apps, id) EXCEPT !.enabled = enabled, !.deadline = "none"]
  <2>1. id \in C!Ids(apps) /\ C!TickOn(C!Put(apps, new))
    BY <1>4 DEF C!Replace
  <2>2. new \in C!Apps(AppIds)
    <3>1. C!Find(apps, id) \in C!Apps(AppIds) /\ "none" \in C!Deadlines
      BY <2>1, FoundIs DEF C!Deadlines
    <3> QED
      BY <3>1 DEF C!Apps
  <2> HIDE DEF new
  <2> QED
    BY <2>1, <2>2, PutKeeps, TickKeeps
<1>5. CASE C!FactoryReset
  BY <1>5, ClearKeeps, TickKeeps DEF C!FactoryReset
<1> QED
  BY <1>1, <1>2, <1>3, <1>4, <1>5 DEF C!Handler

(* The switch of an app changes neither its id nor anybody else. *)
LEMMA SwitchKeeps ==
  ASSUME NEW seq, Registry(seq), NEW id, NEW on \in BOOLEAN
  PROVE  Registry(C!SetEnabled(seq, id, on))
<1> DEFINE new == C!SetEnabled(seq, id, on)
<1>1. /\ seq \in Seq(C!Apps(AppIds)) /\ Len(seq) \in 0..MaxApps /\ Len(seq) \in Nat
      /\ DOMAIN seq = 1..Len(seq) /\ \A i \in DOMAIN seq : seq[i] \in C!Apps(AppIds)
      /\ \A i, j \in DOMAIN seq : seq[i].id = seq[j].id => i = j
  BY RegistryIs DEF Registry, Distinct
<1>2. /\ DOMAIN new = 1..Len(seq) /\ new = [i \in 1..Len(seq) |-> new[i]]
      /\ \A i \in 1..Len(seq) :
           new[i] = IF seq[i].id = id THEN [seq[i] EXCEPT !.enabled = on] ELSE seq[i]
  BY <1>1 DEF C!SetEnabled
<1> HIDE DEF new
<1>3. ASSUME NEW i \in 1..Len(seq) PROVE new[i] \in C!Apps(AppIds) /\ new[i].id = seq[i].id
  <2>1. seq[i] \in C!Apps(AppIds)
    BY <1>1
  <2>2. /\ [seq[i] EXCEPT !.enabled = on] \in C!Apps(AppIds)
        /\ [seq[i] EXCEPT !.enabled = on].id = seq[i].id
    BY <2>1 DEF C!Apps
  <2>3. new[i] = IF seq[i].id = id THEN [seq[i] EXCEPT !.enabled = on] ELSE seq[i]
    BY <1>2
  <2> QED
    BY <2>1, <2>2, <2>3
<1>4. new \in Seq(C!Apps(AppIds)) /\ Len(new) = Len(seq)
  BY <1>1, <1>2, <1>3
<1>5. Distinct(new)
  BY <1>1, <1>2, <1>3 DEF Distinct
<1> QED
  BY <1>1, <1>4, <1>5 DEF Registry, new

(* Applying an order, name by name. *)
Turned(reg, known, f, k) ==
  IF k = 0 THEN reg
  ELSE C!SetEnabled(C!Move(f[k - 1], known[k].id, k), known[k].id, known[k].enabled)

LEMMA Turns ==
  ASSUME NEW reg, NEW known
  PROVE  \A m \in Nat : \E f : f = [k \in 0..m |-> Turned(reg, known, f, k)]
<1> DEFINE S == {m \in Nat : \E f : f = [k \in 0..m |-> Turned(reg, known, f, k)]}
<1>1. 0 \in S
  <2> DEFINE f == [k \in 0..0 |-> reg]
  <2>1. f = [k \in 0..0 |-> Turned(reg, known, f, k)]
    BY DEF Turned
  <2> QED
    BY <2>1
<1>2. ASSUME NEW m \in S PROVE m + 1 \in S
  <2>1. PICK f : f = [k \in 0..m |-> Turned(reg, known, f, k)]
    OBVIOUS
  <2> DEFINE g == [k \in 0..m + 1 |-> IF k <= m THEN f[k] ELSE Turned(reg, known, f, k)]
  <2>2. ASSUME NEW k \in 0..m + 1 PROVE g[k] = Turned(reg, known, g, k)
    <3>1. k = 0 \/ g[k - 1] = f[k - 1]
      OBVIOUS
    <3>2. g[k] = Turned(reg, known, f, k)
      BY <2>1
    <3> HIDE DEF g
    <3> QED
      BY <3>1, <3>2 DEF Turned
  <2>3. g = [k \in 0..m + 1 |-> Turned(reg, known, g, k)]
    <3>1. DOMAIN g = 0..m + 1 /\ g = [k \in 0..m + 1 |-> g[k]]
      OBVIOUS
    <3> HIDE DEF g
    <3> QED
      BY <2>2, <3>1
  <2> HIDE DEF g
  <2> QED
    BY <2>3
<1> HIDE DEF S
<1>3. \A m \in Nat : m \in S
  <2>1. S \in SUBSET Nat
    BY DEF S
  <2> QED
    BY <1>1, <1>2, <2>1, SetInduction
<1> QED
  BY <1>3 DEF S

(* An order, whatever it names, leaves a registry. *)
LEMMA OrderKeeps ==
  ASSUME NEW reg, Registry(reg), NEW wanted \in Orders
  PROVE  Registry(C!ApplyOrder(reg, wanted))
<1> DEFINE known == C!Kept(wanted, {i \in DOMAIN wanted : wanted[i].id \in C!Ids(reg)})
           f == CHOOSE f : f = [k \in 0..Len(known) |-> Turned(reg, known, f, k)]
           S == {k \in Nat : k <= Len(known) => Registry(f[k])}
<1>1. /\ Len(known) \in Nat
      /\ \A k \in 1..Len(known) : known[k].enabled \in BOOLEAN
  <2> DEFINE places == {i \in DOMAIN wanted : wanted[i].id \in C!Ids(reg)}
  <2>1. wanted \in Seq([id: AppIds, enabled: BOOLEAN]) /\ places \in SUBSET DOMAIN wanted
    BY OwnPushed
  <2> HIDE DEF places
  <2>2. C!Kept(wanted, places) \in Seq([id: AppIds, enabled: BOOLEAN])
    BY <2>1, KeptOf
  <2>3. known \in Seq([id: AppIds, enabled: BOOLEAN])
    BY <2>2 DEF places
  <2> HIDE DEF known
  <2>4. Len(known) \in Nat
    BY <2>3
  <2>5. ASSUME NEW k \in 1..Len(known) PROVE known[k].enabled \in BOOLEAN
    <3>1. known[k] \in [id: AppIds, enabled: BOOLEAN]
      BY <2>3, <2>4, ElementOfSeq
    <3> QED
      BY <3>1
  <2> QED
    BY <2>4, <2>5
<1>2. C!ApplyOrder(reg, wanted) = f[Len(known)]
  BY DEF C!ApplyOrder, Turned
<1> HIDE DEF known
<1>3. f = [k \in 0..Len(known) |-> Turned(reg, known, f, k)]
  BY <1>1, Turns
<1> HIDE DEF f
<1>4. 0 \in S
  <2>1. f[0] = reg
    BY <1>1, <1>3 DEF Turned
  <2> QED
    BY <2>1
<1>5. ASSUME NEW n \in S PROVE n + 1 \in S
  <2> SUFFICES ASSUME n + 1 <= Len(known) PROVE Registry(f[n + 1])
    OBVIOUS
  <2>1. n \in Nat /\ Registry(f[n]) /\ n + 1 \in 1..Len(known)
    BY <1>1
  <2> DEFINE mid == C!Move(f[n], known[n + 1].id, n + 1)
  <2>2. f[n + 1] = C!SetEnabled(mid, known[n + 1].id, known[n + 1].enabled)
    <3>1. n + 1 \in 0..Len(known) /\ n + 1 # 0 /\ (n + 1) - 1 = n
      BY <1>1, <2>1
    <3>2. f[n + 1] = Turned(reg, known, f, n + 1)
      BY <1>3, <3>1
    <3> QED
      BY <3>1, <3>2 DEF Turned
  <2>3. Registry(mid)
    BY <2>1, MoveKeeps
  <2> HIDE DEF mid
  <2> QED
    BY <1>1, <2>1, <2>2, <2>3, SwitchKeeps
<1> HIDE DEF S
<1>6. Len(known) \in S
  <2>1. S \in SUBSET Nat
    BY DEF S
  <2> QED
    BY <1>1, <1>4, <1>5, <2>1, SetInduction
<1>7. Len(known) <= Len(known)
  BY <1>1
<1> QED
  BY <1>2, <1>6, <1>7 DEF S

(* An edit that no tick follows: who is showing is left as it was, and the *)
(* edit is remembered as not looked at.                                    *)
LEMMA UntickedKeeps ==
  ASSUME CarouselInv, C!Unticked
  PROVE  CarouselInv' /\ TurnIsFull
<1>1. Registry(apps)
  BY AppsAreARegistry DEF CarouselInv
<1>2. ASSUME Registry(apps'), unseen' = TRUE,
             UNCHANGED <<C!position, pinnedId, C!settings, C!modes>>
      PROVE  CarouselInv' /\ TurnIsFull
  <2>1. /\ activeId' = activeId /\ lastIndex' = lastIndex /\ dwell' = dwell
        /\ pinnedId' = pinnedId /\ paused' = paused /\ autoAdvance' = autoAdvance
        /\ inSettings' = inSettings /\ timing' = timing
    BY <1>2 DEF C!position, C!settings, C!modes
  <2>2. /\ activeId' \in AppIds \cup {None} /\ lastIndex' \in 0..MaxApps /\ dwell' \in 0..Turn
        /\ paused' \in BOOLEAN /\ autoAdvance' \in BOOLEAN
        /\ pinnedId' \in AppIds \cup {None}
        /\ inSettings' \in BOOLEAN /\ timing' \in BOOLEAN /\ unseen' \in BOOLEAN
    BY <1>2, <2>1 DEF CarouselInv, C!TypeOK
  <2>3. C!TypeOK'
    BY <1>2, <2>2, Typed
  <2>4. C!NeverImpersonates' /\ C!PinIsShown'
    BY <1>2, <2>1 DEF CarouselInv, C!NeverImpersonates, C!PinIsShown
  <2> QED
    BY <2>1, <2>3, <2>4 DEF CarouselInv, TurnIsFull
<1>3. ASSUME NEW id \in ScriptIds, C!PutScript(id) PROVE CarouselInv' /\ TurnIsFull
  <2>1. C!NewApp(id, "local", TRUE) \in C!Apps(AppIds)
    BY OwnPushed DEF C!NewApp, C!Apps, C!Sources, C!Deadlines
  <2>2. Registry(C!Put(apps, C!NewApp(id, "local", TRUE)))
    BY <1>1, <2>1, PutKeeps
  <2> QED
    BY <1>2, <1>3, <2>2 DEF C!PutScript
<1>4. ASSUME NEW id \in ScriptIds, C!DeleteScript(id) PROVE CarouselInv' /\ TurnIsFull
  BY <1>1, <1>2, <1>4, WithoutKeeps DEF C!DeleteScript
<1>5. ASSUME NEW wanted \in Orders, C!Reorder(wanted) PROVE CarouselInv' /\ TurnIsFull
  BY <1>1, <1>2, <1>5, OrderKeeps DEF C!Reorder
<1> QED
  BY <1>3, <1>4, <1>5 DEF C!Unticked

(* Only its deadline changes, and it is there until the next tick. *)
LEMMA OverdueKeeps ==
  ASSUME CarouselInv, NEW id \in AppIds, C!Overdue(id)
  PROVE  CarouselInv' /\ TurnIsFull
<1> DEFINE new == [C!Find(apps, id) EXCEPT !.deadline = "past"]
           p == C!PositionOf(apps, id)
<1>1. /\ id \in C!Ids(apps) /\ apps' = C!Put(apps, new)
      /\ UNCHANGED <<C!position, pinnedId, C!settings, C!modes, unseen>>
  BY DEF C!Overdue
<1>2. Registry(apps)
  BY AppsAreARegistry DEF CarouselInv
<1>3. C!Find(apps, id) \in C!Apps(AppIds) /\ C!Find(apps, id).id = id
  BY <1>1, <1>2, FoundIs
<1>4. new \in C!Apps(AppIds) /\ new.id = id /\ new.enabled = C!Find(apps, id).enabled
  BY <1>3 DEF C!Apps, C!Deadlines
<1>5. p \in DOMAIN apps /\ C!Find(apps, id) = apps[p]
  BY <1>1, <1>2, PositionIs DEF C!Find
<1> HIDE DEF new
<1>6. apps' = [apps EXCEPT ![p] = new]
  BY <1>1, <1>4 DEF C!Put
<1> HIDE DEF p
<1>7. ASSUME NEW x, C!IsEnabled(apps, x) PROVE C!IsEnabled(apps', x)
  <2>1. PICK i \in DOMAIN apps : apps[i].id = x /\ apps[i].enabled
    BY <1>7 DEF C!IsEnabled
  <2>2. i \in DOMAIN apps' /\ apps'[i].id = x /\ apps'[i].enabled
    BY <1>3, <1>4, <1>5, <1>6, <2>1
  <2> QED
    BY <2>2 DEF C!IsEnabled
<1>8. /\ activeId' = activeId /\ lastIndex' = lastIndex /\ dwell' = dwell
      /\ pinnedId' = pinnedId /\ paused' = paused /\ autoAdvance' = autoAdvance
      /\ inSettings' = inSettings /\ timing' = timing /\ unseen' = unseen
  BY <1>1 DEF C!position, C!settings, C!modes
<1>9. Registry(apps')
  BY <1>1, <1>2, <1>4, PutKeeps
<1>10. C!TypeOK'
  <2>1. /\ activeId' \in AppIds \cup {None} /\ lastIndex' \in 0..MaxApps /\ dwell' \in 0..Turn
        /\ paused' \in BOOLEAN /\ autoAdvance' \in BOOLEAN
        /\ pinnedId' \in AppIds \cup {None}
        /\ inSettings' \in BOOLEAN /\ timing' \in BOOLEAN /\ unseen' \in BOOLEAN
    BY <1>8 DEF CarouselInv, C!TypeOK
  <2> QED
    BY <1>9, <2>1, Typed
<1>11. C!NeverImpersonates' /\ C!PinIsShown'
  BY <1>7, <1>8 DEF CarouselInv, C!NeverImpersonates, C!PinIsShown
<1> QED
  BY <1>8, <1>10, <1>11 DEF CarouselInv, TurnIsFull

LEMMA CarouselInitially == C!Init => CarouselInv
<1> SUFFICES ASSUME C!Init PROVE CarouselInv
  OBVIOUS
<1>1. /\ SystemApps \in Seq(C!Apps(AppIds)) /\ Len(SystemApps) <= MaxApps
      /\ \A i, j \in DOMAIN SystemApps : SystemApps[i].id = SystemApps[j].id => i = j
  BY RotationAssumption DEF RotationAssumption, C!CarouselAssumption
<1>2. C!TypeOK
  <2>1. /\ apps = SystemApps /\ activeId = None /\ lastIndex = 0 /\ dwell = 0
        /\ paused = FALSE /\ pinnedId = None /\ autoAdvance \in BOOLEAN
        /\ inSettings = FALSE /\ timing = FALSE /\ unseen = FALSE
    BY DEF C!Init
  <2>2. 0 \in 0..MaxApps /\ 0 \in 0..Turn
    BY Caps
  <2> QED
    BY <1>1, <2>1, <2>2 DEF C!TypeOK
<1> QED
  BY <1>2 DEF C!Init, CarouselInv, C!NeverImpersonates, C!PinIsShown

LEMMA CarouselSteps ==
  ASSUME CarouselInv, [C!Next]_(C!vars)
  PROVE  CarouselInv' /\ [TurnIsFull]_(C!vars)
<1>1. CASE C!Tick
  BY <1>1, AppsAreARegistry, TickKeeps DEF C!Tick, CarouselInv
<1>2. CASE C!Elapse \/ C!RestartDwell
  <2>1. dwell' \in 0..Turn
    BY <1>2, Caps DEF CarouselInv, C!TypeOK, C!Elapse, C!RestartDwell
  <2>2. /\ paused' \in BOOLEAN /\ autoAdvance' \in BOOLEAN
        /\ inSettings' \in BOOLEAN /\ timing' \in BOOLEAN /\ unseen' = unseen
    BY <1>2 DEF CarouselInv, C!TypeOK, C!Elapse, C!RestartDwell, C!settings, C!modes
  <2>3. /\ apps' = apps /\ activeId' = activeId /\ lastIndex' = lastIndex
        /\ pinnedId' = pinnedId
    BY <1>2 DEF C!Elapse, C!RestartDwell
  <2> QED
    BY <2>1, <2>2, <2>3, ScreenIsKept
<1>3. CASE C!User
  BY <1>3, UserKeeps
<1>4. CASE C!Handler
  BY <1>4, HandlerKeeps
<1>5. ASSUME NEW id \in AppIds, C!Overdue(id) PROVE CarouselInv' /\ TurnIsFull
  BY <1>5, OverdueKeeps
<1>6. CASE C!Unticked
  BY <1>6, UntickedKeeps
<1>7. CASE UNCHANGED C!vars
  BY <1>7 DEF C!vars, CarouselInv, C!TypeOK, C!NeverImpersonates, C!PinIsShown, C!IsEnabled
<1> QED
  BY <1>1, <1>2, <1>3, <1>4, <1>5, <1>6, <1>7 DEF C!Next

LEMMA CarouselInvHolds == C!Spec => []CarouselInv
<1>1. CarouselInv /\ [C!Next]_(C!vars) => CarouselInv'
  BY CarouselSteps
<1> QED
  BY <1>1, CarouselInitially, PTL DEF C!Spec

(* The registry is an ordered set of apps within its cap, whatever is      *)
(* created, moved, replaced or expired (AppRegistry::put, move), and the   *)
(* carousel's memory of it is a place in it.                               *)
THEOREM RegistryIsASet == C!Spec => []C!TypeOK
  BY CarouselInvHolds, PTL DEF CarouselInv

(* Between any edits, the screen shows an app that exists and is enabled,  *)
(* but for an edit of the scripts or of the stored order that no tick of   *)
(* the carousel has looked at yet (Carousel::tick, next, activate).        *)
THEOREM NobodyIsImpersonated == C!Spec => []NeverImpersonates
<1>1. CarouselInv => NeverImpersonates
  BY DEF CarouselInv, NeverImpersonates
<1> QED
  BY <1>1, CarouselInvHolds, PTL

(* No tick and no edit of other apps takes the screen from an app before   *)
(* its turn is over (Carousel::activateIndex, tick).                       *)
THEOREM EveryTurnIsFull == C!Spec => FullTurn
<1>1. CarouselInv /\ [C!Next]_(C!vars) => [TurnIsFull]_(C!vars)
  BY CarouselSteps
<1> QED
  BY <1>1, CarouselInvHolds, PTL DEF C!Spec, FullTurn, C!FullTurn, TurnIsFull

-----------------------------------------------------------------------------
(* The registry is one: what AppOrder says of it is what Carousel says. *)
LEMMA SameKept == ASSUME NEW seq, NEW places PROVE O!Kept(seq, places) = C!Kept(seq, places)
  BY DEF O!Kept, C!Kept

LEMMA SameIds == ASSUME NEW seq PROVE O!Ids(seq) = C!Ids(seq)
  BY DEF O!Ids, C!Ids

LEMMA SamePosition ==
  ASSUME NEW seq, NEW id PROVE O!PositionOf(seq, id) = C!PositionOf(seq, id)
  BY SameIds DEF O!PositionOf, C!PositionOf

LEMMA SameFind == ASSUME NEW seq, NEW id PROVE O!Find(seq, id) = C!Find(seq, id)
  BY SamePosition DEF O!Find, C!Find

LEMMA SamePut == ASSUME NEW seq, NEW app PROVE O!Put(seq, app) = C!Put(seq, app)
  BY SameIds, SamePosition DEF O!Put, C!Put

LEMMA SameWithout == ASSUME NEW seq, NEW id PROVE O!Without(seq, id) = C!Without(seq, id)
  BY SameKept DEF O!Without, C!Without

LEMMA SameMove ==
  ASSUME NEW seq, NEW id, NEW place PROVE O!Move(seq, id, place) = C!Move(seq, id, place)
<1>1. O!InsertAt(C!Without(seq, id), place, C!Find(seq, id))
        = C!InsertAt(C!Without(seq, id), place, C!Find(seq, id))
  BY DEF O!InsertAt, C!InsertAt
<1> QED
  BY <1>1, SameIds, SameFind, SameWithout DEF O!Move, C!Move

LEMMA SameSwitch ==
  ASSUME NEW seq, NEW id, NEW on
  PROVE  O!SetEnabled(seq, id, on) = C!SetEnabled(seq, id, on)
  BY DEF O!SetEnabled, C!SetEnabled

-----------------------------------------------------------------------------
(* The apps that are kept over a restart or a record, as AppOrder has them.*)
Permanent ==
  {app \in [id: O!Installed \cup Pushed, source: C!Sources \ {"temporary"},
            enabled: BOOLEAN, deadline: C!Deadlines] :
     app.id \in O!Named(Builtins) => app.source = "system"}

LEMMA PermanentIs ==
  ASSUME NEW app \in Permanent
  PROVE  /\ app.id \in O!Installed \cup Pushed /\ app.source # "temporary"
         /\ app.enabled \in BOOLEAN
         /\ \A on \in BOOLEAN : /\ [app EXCEPT !.enabled = on] \in Permanent
                               /\ [app EXCEPT !.enabled = on].id = app.id
                               /\ [app EXCEPT !.enabled = on].enabled = on
<1>1. app.id \in O!Installed \cup Pushed /\ app.source # "temporary" /\ app.enabled \in BOOLEAN
  BY DEF Permanent
<1>2. ASSUME NEW on \in BOOLEAN PROVE [app EXCEPT !.enabled = on] \in Permanent
  BY DEF Permanent
<1>3. ASSUME NEW on \in BOOLEAN
      PROVE  [app EXCEPT !.enabled = on].id = app.id /\ [app EXCEPT !.enabled = on].enabled = on
  BY DEF Permanent
<1> QED
  BY <1>1, <1>2, <1>3

(* A switch changes the one app. *)
Switched(new, old, id, on) ==
  /\ new.id = old.id
  /\ old.id # id => new = old
  /\ old.id = id => new.enabled = on

LEMMA SwitchIs ==
  ASSUME NEW seq, List(Permanent, seq), NEW id, NEW on \in BOOLEAN,
         NEW new, new = C!SetEnabled(seq, id, on)
  PROVE  /\ List(Permanent, new) /\ Len(new) = Len(seq) /\ C!Ids(new) = C!Ids(seq)
         /\ \A i \in 1..Len(seq) : Switched(new[i], seq[i], id, on)
<1>1. /\ Len(seq) \in Nat /\ DOMAIN seq = 1..Len(seq) /\ DOMAIN new = DOMAIN seq
      /\ \A i \in DOMAIN seq : seq[i] \in Permanent
  BY ListIs DEF C!SetEnabled
<1>2. \A i \in DOMAIN seq :
        new[i] = IF seq[i].id = id THEN [seq[i] EXCEPT !.enabled = on] ELSE seq[i]
  BY DEF C!SetEnabled
<1>3. ASSUME NEW i \in DOMAIN seq
      PROVE  /\ new[i] \in Permanent /\ new[i].id = seq[i].id
             /\ seq[i].id # id => new[i] = seq[i]
             /\ seq[i].id = id => new[i].enabled = on
  <2>1. /\ seq[i] \in Permanent /\ [seq[i] EXCEPT !.enabled = on] \in Permanent
        /\ [seq[i] EXCEPT !.enabled = on].id = seq[i].id
        /\ [seq[i] EXCEPT !.enabled = on].enabled = on
    BY <1>1, PermanentIs
  <2>2. CASE seq[i].id = id
    BY <1>2, <2>1, <2>2
  <2>3. CASE seq[i].id # id
    BY <1>2, <2>1, <2>3
  <2> QED
    BY <2>2, <2>3
<1>4. new \in Seq(Permanent) /\ Len(new) = Len(seq)
  <2>1. new = [i \in 1..Len(seq) |-> new[i]]
    BY <1>1 DEF C!SetEnabled
  <2> QED
    BY <1>1, <1>3, <2>1
<1>5. Distinct(new)
  BY <1>1, <1>3, ListIs DEF Distinct
<1>6. C!Ids(new) = C!Ids(seq)
  BY <1>1, <1>3 DEF C!Ids
<1> QED
  BY <1>1, <1>3, <1>4, <1>5, <1>6 DEF List, Switched

-----------------------------------------------------------------------------
(* Applying an order, name by name. *)
Step(reg, known, f, k) ==
  IF k = 0 THEN reg
  ELSE O!SetEnabled(O!Move(f[k - 1], known[k].id, k), known[k].id, known[k].enabled)

LEMMA Steps ==
  ASSUME NEW reg, NEW known
  PROVE  \A m \in Nat : \E f : f = [k \in 0..m |-> Step(reg, known, f, k)]
<1> DEFINE S == {m \in Nat : \E f : f = [k \in 0..m |-> Step(reg, known, f, k)]}
<1>1. 0 \in S
  <2> DEFINE f == [k \in 0..0 |-> reg]
  <2>1. f = [k \in 0..0 |-> Step(reg, known, f, k)]
    BY DEF Step
  <2> QED
    BY <2>1
<1>2. ASSUME NEW m \in S PROVE m + 1 \in S
  <2>1. PICK f : f = [k \in 0..m |-> Step(reg, known, f, k)]
    OBVIOUS
  <2> DEFINE g == [k \in 0..m + 1 |-> IF k <= m THEN f[k] ELSE Step(reg, known, f, k)]
  <2>2. ASSUME NEW k \in 0..m + 1 PROVE g[k] = Step(reg, known, g, k)
    <3>1. k = 0 \/ g[k - 1] = f[k - 1]
      OBVIOUS
    <3>2. g[k] = Step(reg, known, f, k)
      BY <2>1
    <3> HIDE DEF g
    <3> QED
      BY <3>1, <3>2 DEF Step
  <2>3. g = [k \in 0..m + 1 |-> Step(reg, known, g, k)]
    <3>1. DOMAIN g = 0..m + 1 /\ g = [k \in 0..m + 1 |-> g[k]]
      OBVIOUS
    <3> HIDE DEF g
    <3> QED
      BY <2>2, <3>1
  <2> HIDE DEF g
  <2> QED
    BY <2>3
<1> HIDE DEF S
<1>3. \A m \in Nat : m \in S
  <2>1. S \in SUBSET Nat
    BY DEF S
  <2> QED
    BY <1>1, <1>2, <2>1, SetInduction
<1> QED
  BY <1>3 DEF S

(* The names of an order that apps answer to. *)
Known(reg, wanted) == O!Kept(wanted, {i \in DOMAIN wanted : wanted[i].id \in O!Ids(reg)})

LEMMA ApplyStepByStep ==
  ASSUME NEW reg, NEW wanted, NEW known, known = Known(reg, wanted), Len(known) \in Nat
  PROVE  \E f : /\ f = [k \in 0..Len(known) |-> Step(reg, known, f, k)]
                /\ O!ApplyOrder(reg, wanted) = f[Len(known)]
<1> DEFINE f == CHOOSE f : f = [k \in 0..Len(known) |-> Step(reg, known, f, k)]
<1>1. f = [k \in 0..Len(known) |-> Step(reg, known, f, k)]
  BY Steps
<1>4. O!ApplyOrder(reg, wanted) = f[Len(known)]
  BY DEF O!ApplyOrder, Step, Known
<1> HIDE DEF f
<1> QED
  BY <1>1, <1>4

LEMMA KnownIs ==
  ASSUME NEW reg, NEW wanted \in Seq(O!Preferences), NEW known, known = Known(reg, wanted)
  PROVE  /\ known \in Seq(O!Preferences) /\ Len(known) \in Nat
         /\ Distinct(wanted) => Distinct(known)
         /\ From(known, wanted, {i \in DOMAIN wanted : wanted[i].id \in C!Ids(reg)})
         /\ Onto(known, wanted, {i \in DOMAIN wanted : wanted[i].id \in C!Ids(reg)})
         /\ \A k \in 1..Len(known) : known[k].id \in C!Ids(reg) /\ known[k].enabled \in BOOLEAN
<1> DEFINE places == {i \in DOMAIN wanted : wanted[i].id \in C!Ids(reg)}
<1>1. known = C!Kept(wanted, places)
  BY SameKept, SameIds DEF Known
<1>2. places \in SUBSET DOMAIN wanted
  OBVIOUS
<1> HIDE DEF places
<1>3. /\ known \in Seq(O!Preferences) /\ Len(known) \in 0..Len(wanted)
      /\ Distinct(wanted) => Distinct(known)
      /\ From(known, wanted, places) /\ Onto(known, wanted, places)
  BY <1>1, <1>2, KeptOf
<1>4. Len(known) \in Nat /\ DOMAIN known = 1..Len(known)
  BY <1>3
<1>5. ASSUME NEW k \in 1..Len(known)
      PROVE  known[k].id \in C!Ids(reg) /\ known[k].enabled \in BOOLEAN
  <2>1. known[k] \in O!Preferences
    BY <1>3, <1>4
  <2>2. PICK i \in places : known[k] = wanted[i]
    BY <1>3, <1>4 DEF From
  <2> QED
    BY <2>1, <2>2 DEF O!Preferences, places
<1> QED
  BY <1>3, <1>4, <1>5 DEF places

(* The first k entries are those named, with the switches named. *)
Placed(seq, known, k) ==
  /\ k \in 0..Len(seq)
  /\ \A j \in 1..k : seq[j].id = known[j].id /\ seq[j].enabled = known[j].enabled

LEMMA StepIs ==
  ASSUME NEW seq, List(Permanent, seq), NEW known \in Seq(O!Preferences),
         NEW k \in 1..Len(known),
         NEW new,
         new = O!SetEnabled(O!Move(seq, known[k].id, k), known[k].id, known[k].enabled)
  PROVE  /\ List(Permanent, new) /\ Len(new) = Len(seq) /\ C!Ids(new) = C!Ids(seq)
         /\ Distinct(known) /\ known[k].id \in C!Ids(seq) /\ Placed(seq, known, k - 1)
              => Placed(new, known, k)
<1> DEFINE id == known[k].id
           on == known[k].enabled
           mid == C!Move(seq, id, k)
<1>1. new = C!SetEnabled(mid, id, on)
  BY SameMove, SameSwitch
<1>2. on \in BOOLEAN /\ k \in Nat /\ k > 0 /\ DOMAIN known = 1..Len(known)
  <2>1. known[k] \in O!Preferences /\ Len(known) \in Nat /\ DOMAIN known = 1..Len(known)
    OBVIOUS
  <2> QED
    BY <2>1 DEF O!Preferences
<1>3. Len(seq) \in Nat /\ DOMAIN seq = 1..Len(seq)
  BY ListIs
<1>4. ASSUME k \in DOMAIN seq, id \in C!Ids(seq)
      PROVE  \E p \in DOMAIN seq :
               /\ seq[p].id = id
               /\ List(Permanent, mid) /\ Len(mid) = Len(seq) /\ C!Ids(mid) = C!Ids(seq)
               /\ ToTheFront(mid, seq, p, k)
  <2>1. PICK p \in DOMAIN seq : seq[p].id = id
    BY <1>4 DEF C!Ids
  <2>2. PICK q \in DOMAIN seq : q = k
    BY <1>4
  <2>3. mid = C!Move(seq, seq[p].id, q)
    BY <2>1, <2>2
  <2> HIDE DEF mid, id
  <2>4. /\ List(Permanent, mid) /\ Len(mid) = Len(seq) /\ C!Ids(mid) = C!Ids(seq)
        /\ ToTheFront(mid, seq, p, q)
    BY <2>3, MoveIs
  <2> QED
    BY <2>1, <2>2, <2>4
<1>5. List(Permanent, mid) /\ Len(mid) = Len(seq) /\ C!Ids(mid) = C!Ids(seq)
  <2>1. CASE k \in DOMAIN seq /\ id \in C!Ids(seq)
    <3> HIDE DEF mid, id
    <3> QED
      BY <1>4, <2>1
  <2>2. CASE ~(k \in DOMAIN seq /\ id \in C!Ids(seq))
    <3>1. mid = seq
      BY <2>2 DEF C!Move
    <3> QED
      BY <3>1
  <2> QED
    BY <2>1, <2>2
<1> HIDE DEF mid, on
<1>6. /\ List(Permanent, new) /\ Len(new) = Len(mid) /\ C!Ids(new) = C!Ids(mid)
      /\ \A i \in 1..Len(mid) : Switched(new[i], mid[i], id, on)
  BY <1>1, <1>2, <1>5, SwitchIs
<1>7. ASSUME Distinct(known), id \in C!Ids(seq), Placed(seq, known, k - 1)
      PROVE  Placed(new, known, k)
  <2>1. \A j \in 1..k - 1 : seq[j].id # id
    <3> SUFFICES ASSUME NEW j \in 1..k - 1, seq[j].id = id PROVE FALSE
      OBVIOUS
    <3>1. j \in DOMAIN known /\ k \in DOMAIN known /\ j # k
      BY <1>2
    <3>2. known[j].id = known[k].id
      BY <1>7 DEF Placed
    <3> QED
      BY <1>7, <3>1, <3>2 DEF Distinct
  <2>2. ASSUME NEW p \in 1..Len(seq), seq[p].id = id PROVE k <= p /\ k \in 1..Len(seq)
    <3>1. p \notin 1..k - 1
      BY <2>1, <2>2
    <3> QED
      BY <1>2, <1>3, <3>1
  <2>3. k \in 1..Len(seq)
    BY <1>3, <1>7, <2>2 DEF C!Ids
  <2>4. PICK p \in 1..Len(seq) : seq[p].id = id /\ ToTheFront(mid, seq, p, k)
    BY <1>3, <1>4, <1>7, <2>3
  <2>5. mid[k].id = id /\ \A i \in 1..k - 1 : mid[i] = seq[i]
    <3>1. k <= p
      BY <2>2, <2>4
    <3> QED
      BY <2>4, <3>1 DEF ToTheFront
  <2>6. ASSUME NEW j \in 1..k
        PROVE  new[j].id = known[j].id /\ new[j].enabled = known[j].enabled
    <3>0. j \in 1..Len(seq)
      BY <1>2, <1>3, <2>3
    <3>1. Switched(new[j], mid[j], id, on)
      BY <1>5, <1>6, <3>0
    <3>2. CASE j = k
      BY <2>5, <3>1, <3>2 DEF on, Switched
    <3>3. CASE j # k
      <4>1. j \in 1..k - 1
        BY <1>2, <3>3
      <4>2. mid[j] = seq[j] /\ seq[j].id # id
        BY <2>1, <2>5, <4>1
      <4>3. new[j] = seq[j]
        BY <3>1, <4>2 DEF Switched
      <4> QED
        BY <1>7, <4>1, <4>3 DEF Placed
    <3> QED
      BY <3>2, <3>3
  <2>7. k \in 0..Len(new)
    BY <1>2, <1>3, <1>5, <1>6, <2>3
  <2> QED
    BY <2>6, <2>7 DEF Placed
<1> QED
  BY <1>5, <1>6, <1>7

(* Applying an order costs no app, and puts those it names in front. *)
LEMMA ApplyIs ==
  ASSUME NEW reg, List(Permanent, reg), NEW wanted \in Seq(O!Preferences),
         NEW known, known = Known(reg, wanted), NEW new, new = O!ApplyOrder(reg, wanted)
  PROVE  /\ List(Permanent, new) /\ Len(new) = Len(reg) /\ C!Ids(new) = C!Ids(reg)
         /\ Distinct(wanted) => Placed(new, known, Len(known))
<1>1. /\ known \in Seq(O!Preferences) /\ Len(known) \in Nat
      /\ Distinct(wanted) => Distinct(known)
      /\ \A k \in 1..Len(known) : known[k].id \in C!Ids(reg)
  BY KnownIs
<1>2. PICK f : /\ f = [k \in 0..Len(known) |-> Step(reg, known, f, k)]
               /\ new = f[Len(known)]
  BY <1>1, ApplyStepByStep
<1> DEFINE Good(s, k) == /\ List(Permanent, s) /\ Len(s) = Len(reg) /\ C!Ids(s) = C!Ids(reg)
                         /\ Distinct(wanted) => Placed(s, known, k)
           S == {k \in Nat : k <= Len(known) => Good(f[k], k)}
<1>3. 0 \in S
  <2>1. f[0] = reg
    BY <1>1, <1>2 DEF Step
  <2>2. Placed(reg, known, 0)
    <3>1. Len(reg) \in Nat
      BY ListIs
    <3> QED
      BY <3>1 DEF Placed
  <2> QED
    BY <2>1, <2>2
<1>4. ASSUME NEW n \in S PROVE n + 1 \in S
  <2> SUFFICES ASSUME n + 1 <= Len(known) PROVE Good(f[n + 1], n + 1)
    OBVIOUS
  <2>1. n \in Nat /\ Good(f[n], n)
    BY <1>1
  <2>2. PICK k \in 1..Len(known) : k = n + 1 /\ k - 1 = n
    BY <1>1, <2>1
  <2>3. f[k] = O!SetEnabled(O!Move(f[n], known[k].id, k), known[k].id, known[k].enabled)
    <3>1. k \in 0..Len(known) /\ k # 0
      BY <1>1
    <3>2. f[k] = Step(reg, known, f, k)
      BY <1>2, <3>1
    <3> QED
      BY <2>2, <3>1, <3>2 DEF Step
  <2>4. /\ List(Permanent, f[k]) /\ Len(f[k]) = Len(f[n]) /\ C!Ids(f[k]) = C!Ids(f[n])
        /\ Distinct(known) /\ known[k].id \in C!Ids(f[n]) /\ Placed(f[n], known, k - 1)
             => Placed(f[k], known, k)
    BY <1>1, <2>1, <2>3, StepIs
  <2>5. Good(f[k], k)
    BY <1>1, <2>1, <2>2, <2>4
  <2> QED
    BY <2>2, <2>5
<1> HIDE DEF S
<1>5. \A n \in Nat : n \in S
  <2>1. S \in SUBSET Nat
    BY DEF S
  <2> QED
    BY <1>3, <1>4, <2>1, SetInduction
<1>6. Good(f[Len(known)], Len(known))
  <2>1. Len(known) \in S /\ Len(known) <= Len(known)
    BY <1>1, <1>5
  <2> HIDE DEF Good
  <2> QED
    BY <2>1 DEF S
<1> QED
  BY <1>2, <1>6

(* What is written down of apps that are all permanent names each of them. *)
LEMMA RecordedIs ==
  ASSUME NEW reg, List(Permanent, reg), NEW rec, rec = O!Recorded(reg)
  PROVE  /\ List(O!Preferences, rec) /\ Len(rec) = Len(reg) /\ C!Ids(rec) = C!Ids(reg)
         /\ \A i \in 1..Len(reg) : rec[i].id = reg[i].id /\ rec[i].enabled = reg[i].enabled
<1>1. /\ Len(reg) \in Nat /\ DOMAIN reg = 1..Len(reg)
      /\ \A i \in DOMAIN reg : reg[i] \in Permanent
  BY ListIs
<1>2. {i \in DOMAIN reg : reg[i].source # "temporary"} = DOMAIN reg
  BY <1>1, PermanentIs
<1>3. O!Kept(reg, DOMAIN reg) = reg
  BY DEF O!Kept
<1>4. rec = [i \in 1..Len(reg) |-> [id |-> reg[i].id, enabled |-> reg[i].enabled]]
  BY <1>1, <1>2, <1>3 DEF O!Recorded
<1>5. ASSUME NEW i \in 1..Len(reg)
      PROVE  /\ rec[i] \in O!Preferences
             /\ rec[i].id = reg[i].id /\ rec[i].enabled = reg[i].enabled
  <2>1. reg[i].id \in O!Installed \cup Pushed /\ reg[i].enabled \in BOOLEAN
    BY <1>1, PermanentIs
  <2> QED
    BY <1>4, <2>1 DEF O!Preferences
<1>6. rec \in Seq(O!Preferences) /\ Len(rec) = Len(reg) /\ DOMAIN rec = 1..Len(reg)
  BY <1>1, <1>4, <1>5
<1>7. Distinct(rec)
  BY <1>1, <1>5, <1>6, ListIs DEF Distinct
<1>8. C!Ids(rec) = C!Ids(reg)
  BY <1>1, <1>5, <1>6 DEF C!Ids
<1> QED
  BY <1>5, <1>6, <1>7, <1>8 DEF List

-----------------------------------------------------------------------------
(* What a restart makes: every app of the device's own, and no other. *)
Apart(a, b) == \A i \in DOMAIN a, j \in DOMAIN b : a[i].id # b[j].id

Joined(R, new, a, b) == List(R, new) /\ C!Ids(new) = C!Ids(a) \cup C!Ids(b)

LEMMA Appended ==
  ASSUME NEW R, NEW a, List(R, a), NEW b, List(R, b), Apart(a, b),
         NEW new, new = a \o b
  PROVE  Joined(R, new, a, b)
<1>1. /\ a \in Seq(R) /\ Len(a) \in Nat /\ DOMAIN a = 1..Len(a)
      /\ b \in Seq(R) /\ Len(b) \in Nat /\ DOMAIN b = 1..Len(b)
  BY ListIs
<1>2. /\ new \in Seq(R) /\ Len(new) = Len(a) + Len(b)
      /\ \A i \in 1..Len(a) + Len(b) : new[i] = IF i <= Len(a) THEN a[i] ELSE b[i - Len(a)]
  BY <1>1, ConcatProperties
<1>3. DOMAIN new = 1..Len(a) + Len(b)
  BY <1>2
<1>4. \A i \in 1..Len(a) : i \in DOMAIN new /\ new[i] = a[i]
  BY <1>1, <1>2, <1>3
<1>5. ASSUME NEW j \in 1..Len(b) PROVE j + Len(a) \in DOMAIN new /\ new[j + Len(a)] = b[j]
  <2>1. /\ j + Len(a) \in 1..Len(a) + Len(b) /\ ~(j + Len(a) <= Len(a))
        /\ (j + Len(a)) - Len(a) = j
    BY <1>1
  <2>2. new[j + Len(a)] = b[(j + Len(a)) - Len(a)]
    BY <1>2, <2>1
  <2> QED
    BY <1>3, <2>1, <2>2
<1>6. ASSUME NEW i \in DOMAIN new
      PROVE  i \in 1..Len(a) \/ \E j \in 1..Len(b) : i = j + Len(a)
  <2>1. i \in Int /\ 1 <= i /\ i <= Len(a) + Len(b)
    BY <1>1, <1>3
  <2>2. CASE i <= Len(a)
    BY <1>1, <2>1, <2>2
  <2>3. CASE i > Len(a)
    <3>1. i - Len(a) \in 1..Len(b) /\ i = (i - Len(a)) + Len(a)
      BY <1>1, <2>1, <2>3
    <3> QED
      BY <3>1
  <2> QED
    BY <1>1, <2>1, <2>2, <2>3
<1>7. Distinct(new)
  <2> SUFFICES ASSUME NEW i \in DOMAIN new, NEW j \in DOMAIN new, new[i].id = new[j].id
               PROVE  i = j
    BY DEF Distinct
  <2>1. CASE i \in 1..Len(a) /\ j \in 1..Len(a)
    BY <1>1, <1>4, <2>1, ListIs
  <2>2. ASSUME NEW k \in 1..Len(a), NEW l \in 1..Len(b), new[k].id = new[l + Len(a)].id
        PROVE  FALSE
    <3>1. a[k].id = b[l].id
      BY <1>4, <1>5, <2>2
    <3> QED
      BY <1>1, <3>1 DEF Apart
  <2>3. ASSUME NEW k \in 1..Len(b), NEW l \in 1..Len(b), i = k + Len(a), j = l + Len(a)
        PROVE  i = j
    <3>1. b[k].id = b[l].id
      BY <1>5, <2>3
    <3> QED
      BY <1>1, <2>3, <3>1, ListIs
  <2> QED
    BY <1>6, <2>1, <2>2, <2>3
<1>8. C!Ids(new) = C!Ids(a) \cup C!Ids(b)
  <2>1. C!Ids(a) \subseteq C!Ids(new)
    BY <1>1, <1>4 DEF C!Ids
  <2>2. C!Ids(b) \subseteq C!Ids(new)
    <3> SUFFICES ASSUME NEW j \in 1..Len(b) PROVE b[j].id \in C!Ids(new)
      BY <1>1 DEF C!Ids
    <3> QED
      BY <1>5 DEF C!Ids
  <2>3. C!Ids(new) \subseteq C!Ids(a) \cup C!Ids(b)
    <3> SUFFICES ASSUME NEW i \in DOMAIN new PROVE new[i].id \in C!Ids(a) \cup C!Ids(b)
      BY DEF C!Ids
    <3>1. CASE i \in 1..Len(a)
      BY <1>1, <1>4, <3>1 DEF C!Ids
    <3>2. ASSUME NEW j \in 1..Len(b), i = j + Len(a) PROVE new[i].id \in C!Ids(b)
      BY <1>1, <1>5, <3>2 DEF C!Ids
    <3> QED
      BY <1>6, <3>1, <3>2
  <2> QED
    BY <2>1, <2>2, <2>3
<1> QED
  BY <1>2, <1>7, <1>8 DEF List, Joined

LEMMA OwnIds ==
  /\ Builtins \in Seq(O!Installed) /\ Scripts \in Seq(O!Installed)
  /\ \A i, j \in DOMAIN Builtins : Builtins[i] = Builtins[j] => i = j
  /\ \A i, j \in DOMAIN Scripts : Scripts[i] = Scripts[j] => i = j
  /\ \A i \in DOMAIN Builtins, j \in DOMAIN Scripts : Builtins[i] # Scripts[j]
<1> DEFINE both == Builtins \o Scripts
<1>1. /\ Builtins \in Seq(O!Installed) /\ Scripts \in Seq(O!Installed)
      /\ \A i, j \in DOMAIN both : both[i] = both[j] => i = j
  BY RotationAssumption DEF RotationAssumption, O!AppOrderAssumption, O!IsInjective
<1>2. /\ Len(Builtins) \in Nat /\ DOMAIN Builtins = 1..Len(Builtins)
      /\ Len(Scripts) \in Nat /\ DOMAIN Scripts = 1..Len(Scripts)
  BY <1>1
<1>3. /\ DOMAIN both = 1..Len(Builtins) + Len(Scripts)
      /\ \A i \in 1..Len(Builtins) : both[i] = Builtins[i]
      /\ \A i \in 1..Len(Scripts) : both[i + Len(Builtins)] = Scripts[i]
  BY <1>1, <1>2
<1> HIDE DEF both
<1>4. \A i, j \in 1..Len(Builtins) : Builtins[i] = Builtins[j] => i = j
  BY <1>1, <1>2, <1>3
<1>5. ASSUME NEW i \in 1..Len(Scripts), NEW j \in 1..Len(Scripts), Scripts[i] = Scripts[j]
      PROVE  i = j
  <2>1. i + Len(Builtins) \in DOMAIN both /\ j + Len(Builtins) \in DOMAIN both
    BY <1>2, <1>3
  <2>2. i + Len(Builtins) = j + Len(Builtins)
    BY <1>1, <1>3, <1>5, <2>1
  <2> QED
    BY <1>2, <2>2
<1>6. ASSUME NEW i \in 1..Len(Builtins), NEW j \in 1..Len(Scripts), Builtins[i] = Scripts[j]
      PROVE  FALSE
  <2>1. i \in DOMAIN both /\ j + Len(Builtins) \in DOMAIN both
    BY <1>2, <1>3
  <2>2. i = j + Len(Builtins)
    BY <1>1, <1>3, <1>6, <2>1
  <2> QED
    BY <1>2, <2>2
<1> QED
  BY <1>1, <1>2, <1>4, <1>5, <1>6

(* Scripts, by their ids: no two of one id. *)
Ids(names) ==
  /\ names \in Seq(O!Named(Scripts))
  /\ \A i, j \in DOMAIN names : names[i] = names[j] => i = j

LEMMA FreshApps ==
  ASSUME NEW ids, Ids(ids)
  PROVE  /\ List(Permanent, O!BuiltinApps) /\ List(Permanent, O!ScriptApps(ids))
         /\ C!Ids(O!BuiltinApps) = O!Named(Builtins)
         /\ C!Ids(O!ScriptApps(ids)) = O!Named(ids)
<1>1. ASSUME NEW id \in O!Installed, NEW source \in {"system", "local"},
             id \in O!Named(Builtins) => source = "system"
      PROVE  O!NewApp(id, source, TRUE) \in Permanent /\ O!NewApp(id, source, TRUE).id = id
  BY <1>1 DEF O!NewApp, Permanent, C!Sources, C!Deadlines
<1>2. ASSUME NEW names \in Seq(O!Installed), NEW source \in {"system", "local"},
             \A i, j \in DOMAIN names : names[i] = names[j] => i = j,
             \A i \in DOMAIN names : names[i] \in O!Named(Builtins) => source = "system",
             NEW new, new = [i \in DOMAIN names |-> O!NewApp(names[i], source, TRUE)]
      PROVE  List(Permanent, new) /\ C!Ids(new) = O!Named(names)
  <2>1. Len(names) \in Nat /\ DOMAIN names = 1..Len(names)
    OBVIOUS
  <2>2. ASSUME NEW i \in DOMAIN names PROVE new[i] \in Permanent /\ new[i].id = names[i]
    <3>1. names[i] \in O!Installed /\ (names[i] \in O!Named(Builtins) => source = "system")
      BY <1>2
    <3>2. new[i] = O!NewApp(names[i], source, TRUE)
      BY <1>2
    <3> QED
      BY <1>1, <3>1, <3>2
  <2>3. DOMAIN new = DOMAIN names
    BY <1>2
  <2>4. new \in Seq(Permanent)
    <3>1. new = [i \in 1..Len(names) |-> new[i]]
      BY <1>2, <2>1
    <3> QED
      BY <2>1, <2>2, <3>1
  <2>5. Distinct(new)
    <3> SUFFICES ASSUME NEW i \in DOMAIN names, NEW j \in DOMAIN names, new[i].id = new[j].id
                 PROVE  i = j
      BY <2>3 DEF Distinct
    <3>1. names[i] = names[j]
      BY <2>2
    <3> QED
      BY <1>2, <3>1
  <2>6. C!Ids(new) = O!Named(names)
    BY <2>2, <2>3 DEF C!Ids, O!Named
  <2> QED
    BY <2>4, <2>5, <2>6 DEF List
<1>3. List(Permanent, O!BuiltinApps) /\ C!Ids(O!BuiltinApps) = O!Named(Builtins)
  BY <1>2, OwnIds DEF O!BuiltinApps
<1>4. List(Permanent, O!ScriptApps(ids)) /\ C!Ids(O!ScriptApps(ids)) = O!Named(ids)
  <2>1. /\ ids \in Seq(O!Named(Scripts)) /\ O!Named(Scripts) \subseteq O!Installed
        /\ \A i, j \in DOMAIN ids : ids[i] = ids[j] => i = j
    BY DEF Ids, O!Installed
  <2>2. ids \in Seq(O!Installed) /\ \A i \in DOMAIN ids : ids[i] \in O!Named(Scripts)
    BY <2>1
  <2>3. \A i \in DOMAIN ids : ids[i] \notin O!Named(Builtins)
    BY <2>2, OwnIds DEF O!Named
  <2> QED
    BY <1>2, <2>1, <2>2, <2>3 DEF O!ScriptApps
<1> QED
  BY <1>3, <1>4

LEMMA NamesAre ==
  ASSUME NEW ids, Ids(ids)
  PROVE  /\ Len(ids) \in Nat /\ DOMAIN ids = 1..Len(ids)
         /\ O!Named(ids) \subseteq O!Named(Scripts)
<1>1. Len(ids) \in Nat /\ DOMAIN ids = 1..Len(ids)
  BY DEF Ids
<1>2. \A i \in DOMAIN ids : ids[i] \in O!Named(Scripts)
  BY DEF Ids
<1> QED
  BY <1>1, <1>2 DEF O!Named

(* Both ways to come up are an order applied to all the device's own apps. *)
LEMMA BootedIs ==
  ASSUME NEW wanted \in Seq(O!Preferences), NEW ids, Ids(ids),
         NEW new, new = O!Booted(wanted, ids),
         NEW own, own = O!Named(Builtins) \cup O!Named(ids),
         NEW places \in SUBSET DOMAIN wanted,
         \A i \in DOMAIN wanted : i \in places <=> wanted[i].id \in own,
         NEW known, known = O!Kept(wanted, places)
  PROVE  /\ List(Permanent, new) /\ C!Ids(new) = own
         /\ Distinct(wanted) => Placed(new, known, Len(known))
<1> DEFINE first == O!ApplyOrder(O!BuiltinApps, wanted)
           all == first \o O!ScriptApps(ids)
<1>1. List(Permanent, first) /\ C!Ids(first) = O!Named(Builtins)
  BY FreshApps, ApplyIs
<1>2. ASSUME NEW reg, List(Permanent, reg), C!Ids(reg) = own,
             new = O!ApplyOrder(reg, wanted)
      PROVE  /\ List(Permanent, new) /\ C!Ids(new) = own
             /\ Distinct(wanted) => Placed(new, known, Len(known))
  <2>1. places = {i \in DOMAIN wanted : wanted[i].id \in own}
    OBVIOUS
  <2>2. known = Known(reg, wanted)
    BY <1>2, <2>1, SameIds DEF Known
  <2> QED
    BY <1>2, <2>2, ApplyIs
<1>3. CASE ids = <<>>
  <2>1. O!Named(Builtins) = own
    BY <1>3 DEF O!Named
  <2>2. new = O!ApplyOrder(O!BuiltinApps, wanted)
    BY <1>3 DEF O!Booted
  <2> QED
    BY <1>2, <2>1, <2>2, FreshApps
<1>4. CASE ids # <<>>
  <2>1. new = O!ApplyOrder(all, wanted)
    BY <1>4 DEF O!Booted
  <2> HIDE DEF first
  <2>2. Apart(first, O!ScriptApps(ids))
    <3> SUFFICES ASSUME NEW i \in DOMAIN first, NEW j \in DOMAIN O!ScriptApps(ids)
                 PROVE  first[i].id # O!ScriptApps(ids)[j].id
      BY DEF Apart
    <3>1. first[i].id \in O!Named(Builtins)
      BY <1>1 DEF C!Ids
    <3>2. O!ScriptApps(ids)[j].id \in O!Named(ids)
      BY FreshApps DEF C!Ids
    <3>3. O!Named(ids) \subseteq O!Named(Scripts)
      BY NamesAre
    <3> QED
      BY <3>1, <3>2, <3>3, OwnIds DEF O!Named
  <2>3. List(Permanent, all) /\ C!Ids(all) = C!Ids(first) \cup C!Ids(O!ScriptApps(ids))
    <3> DEFINE last == O!ScriptApps(ids)
    <3>1. List(Permanent, first) /\ List(Permanent, last) /\ Apart(first, last)
      BY <1>1, <2>2, FreshApps
    <3> HIDE DEF last
    <3>2. Joined(Permanent, first \o last, first, last)
      BY <3>1, Appended
    <3> QED
      BY <3>2 DEF last, Joined
  <2>4. C!Ids(all) = own
    BY <1>1, <2>3, FreshApps
  <2> HIDE DEF all
  <2> QED
    BY <1>2, <2>1, <2>3, <2>4
<1> QED
  BY <1>3, <1>4

(* The arrangement of the device's own apps, as a record of it has them,   *)
(* is the first part of what a restart from that record makes.             *)
LEMMA ArrangedAgain ==
  ASSUME List(Permanent, registry), stored = O!Recorded(registry),
         Ids(blob), registry' = O!Booted(stored, blob)
  PROVE  O!Own(O!Recorded(registry')) = O!Own(O!Recorded(registry))
<1> DEFINE W == stored
           N == O!Recorded(registry')
           own == O!Named(Builtins) \cup O!Named(blob)
           X == C!Ids(registry) \cap own
           places == {i \in DOMAIN W : W[i].id \in X}
           known == C!Kept(W, places)
           m == Len(known)
<1>1. /\ List(O!Preferences, W) /\ W \in Seq(O!Preferences) /\ Distinct(W)
      /\ C!Ids(W) = C!Ids(registry)
  BY RecordedIs DEF List
<1>2. /\ known \in Seq(O!Preferences) /\ m \in Nat /\ DOMAIN known = 1..m
      /\ From(known, W, places) /\ Onto(known, W, places)
  <2>1. places \in SUBSET DOMAIN W
    OBVIOUS
  <2> HIDE DEF places
  <2>2. /\ known \in Seq(O!Preferences) /\ Len(known) \in 0..Len(W)
        /\ From(known, W, places) /\ Onto(known, W, places)
    BY <1>1, <2>1, KeptOf
  <2>3. Len(known) \in Nat /\ DOMAIN known = 1..Len(known)
    BY <2>2
  <2> QED
    BY <2>2, <2>3
<1>4. O!Own(W) = known
  BY SameKept, SameIds DEF O!Own, O!Lasting
<1>5. O!Own(N) = C!Kept(N, {i \in DOMAIN N : N[i].id \in X})
  BY SameKept, SameIds DEF O!Own, O!Lasting
<1>6. /\ List(Permanent, registry') /\ Placed(registry', known, m)
  <2>1. own = O!Named(Builtins) \cup O!Named(blob)
    OBVIOUS
  <2>2. /\ stored \in Seq(O!Preferences) /\ Distinct(stored)
        /\ known = O!Kept(stored, places) /\ places \in SUBSET DOMAIN stored
        /\ \A i \in DOMAIN stored : i \in places <=> stored[i].id \in own
    BY <1>1, SameKept DEF C!Ids
  <2> HIDE DEF W, places, known, own
  <2>3. List(Permanent, registry') /\ Placed(registry', known, Len(known))
    BY <2>1, <2>2, BootedIs
  <2> QED
    BY <2>3
<1> HIDE DEF W, places, known
<1>7. /\ List(O!Preferences, N) /\ Len(N) = Len(registry')
      /\ \A i \in 1..Len(registry') : /\ N[i].id = registry'[i].id
                                     /\ N[i].enabled = registry'[i].enabled
  BY <1>6, RecordedIs
<1> HIDE DEF N
<1>8. /\ N \in Seq(O!Preferences) /\ Len(N) \in Nat /\ DOMAIN N = 1..Len(N) /\ m \in 0..Len(N)
      /\ \A i, j \in DOMAIN N : N[i].id = N[j].id => i = j
  BY <1>6, <1>7, ListIs DEF Placed
<1>9. ASSUME NEW j \in 1..m PROVE N[j] = known[j]
  <2>1. j \in 1..Len(N)
    BY <1>2, <1>8
  <2>2. N[j].id = known[j].id /\ N[j].enabled = known[j].enabled
    BY <1>6, <1>7, <2>1 DEF Placed
  <2>3. N[j] \in O!Preferences /\ known[j] \in O!Preferences
    BY <1>2, <1>8, <2>1
  <2> QED
    BY <2>2, <2>3 DEF O!Preferences
<1>10. {i \in DOMAIN N : N[i].id \in X} = 1..m
  <2>1. ASSUME NEW j \in 1..m PROVE j \in DOMAIN N /\ N[j].id \in X
    <3>1. PICK i \in places : known[j] = W[i]
      BY <1>2 DEF From
    <3>2. W[i].id \in X
      BY DEF places
    <3>3. j \in DOMAIN N
      BY <1>2, <1>8
    <3> QED
      BY <1>9, <3>1, <3>2, <3>3
  <2>2. ASSUME NEW i \in DOMAIN N, N[i].id \in X PROVE i \in 1..m
    <3>1. PICK q \in DOMAIN W : W[q].id = N[i].id
      BY <1>1, <2>2 DEF C!Ids
    <3>2. q \in places
      BY <2>2, <3>1 DEF places
    <3>3. PICK j \in 1..m : known[j] = W[q]
      BY <1>2, <3>2 DEF Onto
    <3>4. N[j].id = N[i].id /\ j \in DOMAIN N
      BY <1>9, <2>1, <3>1, <3>3
    <3> QED
      BY <1>8, <3>4
  <2> HIDE DEF X, m
  <2> QED
    BY <2>1, <2>2
<1> DEFINE rest == C!Kept(N, 1..m)
<1>11. rest \in Seq(O!Preferences) /\ Len(rest) = m /\ \A i \in 1..m : rest[i] = N[i]
  <2>1. N \in Seq(O!Preferences) /\ m \in 0..Len(N)
    BY <1>8
  <2> HIDE DEF m
  <2> QED
    BY <2>1, OnlyTheFirst
<1> HIDE DEF rest
<1>12. rest = known
  <2>1. DOMAIN rest = 1..m /\ \A i \in 1..m : rest[i] = known[i]
    BY <1>2, <1>9, <1>11
  <2> HIDE DEF m
  <2>2. rest = [i \in 1..m |-> rest[i]] /\ known = [i \in 1..m |-> known[i]]
    BY <1>2, <1>11, <2>1
  <2> QED
    BY <2>1, <2>2
<1> QED
  BY <1>4, <1>5, <1>10, <1>12 DEF rest, N, W

-----------------------------------------------------------------------------
(* Everything in the registry of AppOrder may be written down, and what is *)
(* written down is read back as it was.                                    *)
OrderInv ==
  /\ List(Permanent, registry)
  /\ order \in Seq(O!Preferences)
  /\ stored \in Seq(O!Preferences)
  /\ Ids(scripts) /\ Ids(blob)

(* What NoAppIsLost says of one app and one step. *)
Stays(id) ==
  \/ id \in C!Ids(registry')
  \/ /\ id \notin O!Named(Builtins)
     /\ O!DeleteScript(id) \/ O!FactoryReset \/ (O!Reboot /\ id \notin O!Named(blob))

AllStay == \A id \in O!Installed \cap C!Ids(registry) : Stays(id)

LEMMA FirstScripts == Ids(Scripts) /\ Ids(<<>>)
<1>1. Scripts \in Seq(O!Named(Scripts))
  <2>1. Len(Scripts) \in Nat /\ DOMAIN Scripts = 1..Len(Scripts)
    BY OwnIds
  <2>2. Scripts = [i \in 1..Len(Scripts) |-> Scripts[i]]
    BY <2>1, OwnIds
  <2> QED
    BY <2>1, <2>2 DEF O!Named
<1> QED
  BY <1>1, OwnIds DEF Ids

LEMMA OrderInitially == O!Init => OrderInv
<1> SUFFICES ASSUME O!Init PROVE OrderInv
  OBVIOUS
<1>1. <<>> \in Seq(O!Preferences)
  OBVIOUS
<1>2. List(Permanent, O!Booted(<<>>, Scripts))
  <2> DEFINE own == O!Named(Builtins) \cup O!Named(Scripts)
             W == <<>>
  <2>1. {} \in SUBSET DOMAIN W /\ \A i \in DOMAIN W : i \in {} <=> W[i].id \in own
    OBVIOUS
  <2>2. W \in Seq(O!Preferences) /\ Ids(Scripts)
    BY <1>1, FirstScripts
  <2> DEFINE new == O!Booted(W, Scripts)
             none == {}
             known == O!Kept(W, none)
  <2>3. /\ none \in SUBSET DOMAIN W /\ \A i \in DOMAIN W : i \in none <=> W[i].id \in own
        /\ new = O!Booted(W, Scripts) /\ own = O!Named(Builtins) \cup O!Named(Scripts)
        /\ known = O!Kept(W, none)
    BY <2>1
  <2> HIDE DEF own, W, new, none, known
  <2>4. List(Permanent, new)
    BY <2>2, <2>3, BootedIs
  <2> QED
    BY <2>4 DEF new, W
<1> QED
  BY <1>1, <1>2, FirstScripts DEF O!Init, OrderInv

(* A script more, a script less. *)
LEMMA ScriptAdded ==
  ASSUME Ids(scripts), NEW id \in O!Named(Scripts), id \notin O!Named(scripts)
  PROVE  Ids(Append(scripts, id))
<1>1. Len(scripts) \in Nat /\ DOMAIN scripts = 1..Len(scripts)
  BY NamesAre
<1>2. /\ Append(scripts, id) \in Seq(O!Named(Scripts))
      /\ DOMAIN Append(scripts, id) = 1..Len(scripts) + 1
      /\ \A i \in 1..Len(scripts) : Append(scripts, id)[i] = scripts[i]
      /\ Append(scripts, id)[Len(scripts) + 1] = id
  BY <1>1 DEF Ids
<1>3. \A i \in 1..Len(scripts) : scripts[i] # id
  BY <1>1 DEF O!Named
<1>4. \A i \in 1..Len(scripts) + 1 : i \in 1..Len(scripts) \/ i = Len(scripts) + 1
  BY <1>1
<1> QED
  BY <1>1, <1>2, <1>3, <1>4 DEF Ids

LEMMA ScriptLeftOut ==
  ASSUME Ids(scripts), NEW p \in DOMAIN scripts, NEW rest,
         rest = C!Kept(scripts, DOMAIN scripts \ {p})
  PROVE  Ids(rest)
<1>1. Len(scripts) \in Nat /\ DOMAIN scripts = 1..Len(scripts)
  BY NamesAre
<1>2. /\ rest \in Seq(O!Named(Scripts)) /\ Len(rest) = Len(scripts) - 1
      /\ \A i \in 1..Len(scripts) - 1 : rest[i] = IF i < p THEN scripts[i] ELSE scripts[i + 1]
  <2>1. PICK R : R = O!Named(Scripts)
    OBVIOUS
  <2>2. scripts \in Seq(R)
    BY <2>1 DEF Ids
  <2>3. /\ rest \in Seq(R) /\ Len(rest) = Len(scripts) - 1
        /\ \A i \in 1..Len(scripts) - 1 : rest[i] = IF i < p THEN scripts[i] ELSE scripts[i + 1]
    BY <2>2, AllButOne
  <2> QED
    BY <2>1, <2>3
<1>3. DOMAIN rest = 1..Len(scripts) - 1
  BY <1>2
<1>4. ASSUME NEW i \in DOMAIN rest, NEW j \in DOMAIN rest, rest[i] = rest[j] PROVE i = j
  <2> DEFINE at(k) == IF k < p THEN k ELSE k + 1
  <2>1. /\ i \in Int /\ j \in Int /\ p \in Int
        /\ at(i) \in DOMAIN scripts /\ at(j) \in DOMAIN scripts
    BY <1>1, <1>3
  <2>2. rest[i] = scripts[at(i)] /\ rest[j] = scripts[at(j)]
    BY <1>2, <1>3
  <2>3. at(i) = at(j)
    BY <1>4, <2>1, <2>2 DEF Ids
  <2> QED
    BY <2>1, <2>3
<1> QED
  BY <1>2, <1>4 DEF Ids

-----------------------------------------------------------------------------
LEMMA ChangesKeep ==
  ASSUME OrderInv, NEW reg, O!Change(reg), List(Permanent, reg), Ids(scripts'), blob' = blob
  PROVE  OrderInv'
  BY DEF OrderInv, O!Change

LEMMA EditsKeep ==
  ASSUME OrderInv, NEW reg, O!Edit(reg), List(Permanent, reg),
         O!Installed \cap C!Ids(registry) \subseteq C!Ids(reg)
  PROVE  OrderInv' /\ AllStay
<1>1. O!Change(reg) /\ scripts' = scripts /\ blob' = blob
  BY DEF O!Edit, O!library
<1>2. OrderInv'
  BY <1>1, ChangesKeep DEF OrderInv
<1>3. registry' = reg
  BY <1>1 DEF O!Change
<1> QED
  BY <1>2, <1>3 DEF AllStay, Stays

LEMMA PushKeeps ==
  ASSUME OrderInv, NEW id \in Pushed, O!Push(id) \/ O!Delete(id)
  PROVE  OrderInv' /\ AllStay
<1> USE DEF OrderInv
<1>0. id \notin O!Installed /\ id \notin O!Named(Builtins)
  BY RotationAssumption DEF RotationAssumption, O!AppOrderAssumption, O!Installed
<1>1. ASSUME O!Push(id) PROVE OrderInv' /\ AllStay
  <2> DEFINE app == IF id \in O!Ids(registry) THEN O!Find(registry, id)
                    ELSE O!NewApp(id, "remote", TRUE)
             reg == C!Put(registry, app)
  <2>1. app \in Permanent
    <3>1. CASE id \in O!Ids(registry)
      BY <3>1, SameIds, SameFind, FoundIn
    <3>2. CASE id \notin O!Ids(registry)
      BY <1>0, <3>2 DEF O!NewApp, Permanent, C!Sources, C!Deadlines
    <3> QED
      BY <3>1, <3>2
  <2>2. O!Edit(reg)
    BY <1>1, SamePut DEF O!Push
  <2> HIDE DEF app
  <2>3. List(Permanent, reg) /\ C!Ids(registry) \subseteq C!Ids(reg)
    BY <2>1, PutIn
  <2> HIDE DEF reg
  <2> QED
    BY <2>2, <2>3, EditsKeep
<1>2. ASSUME O!Delete(id) PROVE OrderInv' /\ AllStay
  <2> DEFINE reg == C!Without(registry, id)
  <2>1. O!Edit(reg)
    BY <1>2, SameWithout DEF O!Delete
  <2>3. List(Permanent, reg) /\ C!Ids(reg) = C!Ids(registry) \ {id}
    BY LeftOut
  <2> HIDE DEF reg
  <2>4. O!Installed \cap C!Ids(registry) \subseteq C!Ids(reg)
    BY <1>0, <2>3
  <2> QED
    BY <2>1, <2>3, <2>4, EditsKeep
<1> QED
  BY <1>1, <1>2

LEMMA PatchKeeps ==
  ASSUME OrderInv, NEW id \in O!Installed \cup Pushed, NEW enabled \in BOOLEAN,
         NEW place \in 0..MaxApps, O!Patch(id, enabled, place)
  PROVE  OrderInv' /\ AllStay
<1> USE DEF OrderInv
<1> DEFINE app == [C!Find(registry, id) EXCEPT !.enabled = enabled]
           put == C!Put(registry, app)
           reg == IF place = 0 THEN put ELSE C!Move(put, id, place)
<1>1. id \in C!Ids(registry) /\ O!Edit(reg)
  BY SameIds, SameFind, SamePut, SameMove DEF O!Patch
<1>2. app \in Permanent
  <2>1. C!Find(registry, id) \in Permanent
    BY <1>1, FoundIn
  <2> QED
    BY <2>1, PermanentIs
<1> HIDE DEF app
<1>3. List(Permanent, put) /\ C!Ids(registry) \subseteq C!Ids(put)
  BY <1>2, PutIn
<1> HIDE DEF put
<1>4. List(Permanent, reg) /\ C!Ids(reg) = C!Ids(put)
  BY <1>3, MovedIn
<1> HIDE DEF reg
<1>5. O!Installed \cap C!Ids(registry) \subseteq C!Ids(reg)
  BY <1>3, <1>4
<1> QED
  BY <1>1, <1>4, <1>5, EditsKeep

(* Scripts come with their apps, and take them along when they go. *)
LEMMA ScriptsKeep ==
  ASSUME OrderInv, NEW id \in O!Named(Scripts), O!PutScript(id) \/ O!DeleteScript(id)
  PROVE  OrderInv' /\ AllStay
<1> USE DEF OrderInv
<1>0. id \notin O!Named(Builtins) /\ id \in O!Installed
  BY OwnIds DEF O!Named, O!Installed
<1>1. CASE O!PutScript(id)
  <2> DEFINE app == O!NewApp(id, "local", TRUE)
             reg == C!Put(registry, app)
  <2>1. Ids(scripts') /\ blob' = blob
    BY <1>1, ScriptAdded DEF O!PutScript
  <2>2. CASE id \in O!Ids(registry)
    <3>1. registry' = registry /\ order' = order /\ stored' = stored
      BY <1>1, <2>2 DEF O!PutScript, O!arrangement
    <3> QED
      BY <2>1, <3>1 DEF AllStay, Stays
  <2>3. CASE id \notin O!Ids(registry)
    <3>1. O!Change(reg)
      BY <1>1, <2>3, SamePut DEF O!PutScript
    <3>2. app \in Permanent
      BY <1>0 DEF O!NewApp, Permanent, C!Sources, C!Deadlines
    <3> HIDE DEF app
    <3>3. List(Permanent, reg) /\ C!Ids(registry) \subseteq C!Ids(reg)
      BY <3>2, PutIn
    <3>4. registry' = reg
      BY <3>1 DEF O!Change
    <3> HIDE DEF reg
    <3> QED
      BY <2>1, <3>1, <3>3, <3>4, ChangesKeep DEF AllStay, Stays
  <2> QED
    BY <2>2, <2>3
<1>2. CASE O!DeleteScript(id)
  <2> DEFINE reg == C!Without(registry, id)
  <2>1. Ids(scripts') /\ blob' = blob
    <3>1. /\ scripts' = O!Kept(scripts, {i \in DOMAIN scripts : scripts[i] # id})
          /\ blob' = blob /\ id \in O!Named(scripts)
      BY <1>2 DEF O!DeleteScript
    <3>2. PICK p \in DOMAIN scripts : scripts[p] = id
      BY <3>1 DEF O!Named
    <3>3. {i \in DOMAIN scripts : scripts[i] # id} = DOMAIN scripts \ {p}
      BY <3>2 DEF OrderInv, Ids
    <3>4. scripts' = C!Kept(scripts, DOMAIN scripts \ {p})
      BY <3>1, <3>3, SameKept
    <3> QED
      BY <3>1, <3>2, <3>4, ScriptLeftOut DEF OrderInv
  <2>2. CASE id \in O!Ids(registry)
    <3>1. O!Change(reg)
      BY <1>2, <2>2, SameWithout DEF O!DeleteScript
    <3>2. List(Permanent, reg) /\ C!Ids(reg) = C!Ids(registry) \ {id}
      BY LeftOut
    <3>3. registry' = reg
      BY <3>1 DEF O!Change
    <3> HIDE DEF reg
    <3>4. OrderInv'
      BY <2>1, <3>1, <3>2, ChangesKeep
    <3> QED
      BY <1>0, <1>2, <3>2, <3>3, <3>4 DEF AllStay, Stays
  <2>3. CASE id \notin O!Ids(registry)
    <3>1. registry' = registry /\ order' = order /\ stored' = stored
      BY <1>2, <2>3 DEF O!DeleteScript, O!arrangement
    <3> QED
      BY <2>1, <3>1 DEF AllStay, Stays
  <2> QED
    BY <2>2, <2>3
<1> QED
  BY <1>1, <1>2

(* A factory reset leaves the apps that are built in. *)
LEMMA ResetKeeps ==
  ASSUME OrderInv, O!FactoryReset
  PROVE  OrderInv' /\ AllStay
<1> USE DEF OrderInv
<1> DEFINE places == {i \in DOMAIN registry : registry[i].source = "system"}
<1>1. registry' = C!Kept(registry, places)
  BY SameKept DEF O!FactoryReset, O!SystemOnly
<1>2. /\ registry \in Seq(Permanent) /\ Distinct(registry) /\ places \in SUBSET DOMAIN registry
      /\ \A i \in DOMAIN registry : registry[i] \in Permanent
  BY ListIs DEF List
<1>3. List(Permanent, registry') /\ Onto(registry', registry, places)
  <2> HIDE DEF places
  <2> QED
    BY <1>1, <1>2, KeptOf DEF List
<1>4. order' \in Seq(O!Preferences) /\ stored' \in Seq(O!Preferences)
  <2>1. <<>> \in Seq(O!Preferences)
    OBVIOUS
  <2> QED
    BY <2>1 DEF O!FactoryReset
<1>5. ASSUME NEW id \in C!Ids(registry), id \in O!Named(Builtins) PROVE id \in C!Ids(registry')
  <2>1. PICK i \in DOMAIN registry : registry[i].id = id
    BY DEF C!Ids
  <2>2. registry[i].source = "system"
    BY <1>2, <1>5, <2>1 DEF Permanent
  <2>3. PICK k \in DOMAIN registry' : registry'[k] = registry[i]
    BY <1>3, <2>2 DEF Onto
  <2> QED
    BY <2>1, <2>3 DEF C!Ids
<1>6. scripts' = scripts /\ blob' = blob
  BY DEF O!FactoryReset, O!library
<1> QED
  BY <1>3, <1>4, <1>5, <1>6 DEF AllStay, Stays

LEMMA RequestKeeps ==
  ASSUME OrderInv, O!Request
  PROVE  OrderInv' /\ AllStay
<1>1. ASSUME NEW wanted \in Restores, O!Restore(wanted) PROVE OrderInv' /\ AllStay
  <2>1. wanted \in Seq(O!Preferences)
    BY RotationAssumption DEF RotationAssumption, O!AppOrderAssumption
  <2>2. /\ registry' = registry /\ order' = wanted /\ stored' \in {stored, wanted}
        /\ scripts' = scripts /\ blob' = blob
    BY <1>1 DEF O!Restore, O!library
  <2> QED
    BY <2>1, <2>2 DEF OrderInv, AllStay, Stays
<1>2. CASE O!SaveSettings
  <2>1. /\ registry' = registry /\ order' = order /\ stored' = order
        /\ scripts' = scripts /\ blob' = blob
    BY <1>2 DEF O!SaveSettings, O!library
  <2> QED
    BY <2>1 DEF OrderInv, AllStay, Stays
<1>3. CASE O!ClearScripts
  <2>1. /\ registry' = registry /\ order' = order /\ stored' = stored
        /\ scripts' = <<>> /\ blob' = blob
    BY <1>3 DEF O!ClearScripts, O!arrangement
  <2> QED
    BY <2>1, FirstScripts DEF OrderInv, AllStay, Stays
<1> QED
  BY <1>1, <1>2, <1>3, PushKeeps, PatchKeeps, ScriptsKeep, ResetKeeps DEF O!Request

LEMMA TickOfOrder ==
  ASSUME OrderInv, O!Tick
  PROVE  OrderInv' /\ AllStay
<1>1. Ids(scripts') /\ Ids(blob')
  <2>1. scripts' = scripts /\ blob' \in {scripts, blob}
    BY DEF O!Tick, O!KeepScripts
  <2> QED
    BY <2>1 DEF OrderInv
<1>2. CASE O!Remember
  <2>1. O!Recorded(registry) \in Seq(O!Preferences)
    BY RecordedIs DEF OrderInv, List
  <2>2. /\ registry' = registry /\ order' = O!Recorded(registry)
        /\ stored' \in {stored, O!Recorded(registry)}
    BY <1>2 DEF O!Remember
  <2> QED
    BY <1>1, <2>1, <2>2 DEF OrderInv, AllStay, Stays
<1>3. CASE O!Reapply
  <2>1. registry' = O!ApplyOrder(registry, order) /\ order' = order /\ stored' = stored
    BY <1>3 DEF O!Reapply
  <2>2. List(Permanent, registry') /\ C!Ids(registry') = C!Ids(registry)
    BY <2>1, ApplyIs DEF OrderInv
  <2> QED
    BY <1>1, <2>1, <2>2 DEF OrderInv, AllStay, Stays
<1>4. CASE UNCHANGED O!arrangement
  <2>1. registry' = registry /\ order' = order /\ stored' = stored
    BY <1>4 DEF O!arrangement
  <2> QED
    BY <1>1, <2>1 DEF OrderInv, AllStay, Stays
<1> QED
  BY <1>2, <1>3, <1>4 DEF O!Tick

LEMMA RebootKeeps ==
  ASSUME OrderInv, O!Reboot
  PROVE  OrderInv' /\ AllStay
<1>1. /\ registry' = O!Booted(stored, blob) /\ order' = stored /\ stored' = stored
      /\ scripts' = blob /\ blob' = blob
  BY DEF O!Reboot
<1>2. /\ List(Permanent, registry')
      /\ C!Ids(registry') = O!Named(Builtins) \cup O!Named(blob)
  <2> DEFINE own == O!Named(Builtins) \cup O!Named(blob)
             places == {i \in DOMAIN stored : stored[i].id \in own}
  <2>1. /\ places \in SUBSET DOMAIN stored
        /\ \A i \in DOMAIN stored : i \in places <=> stored[i].id \in own
    OBVIOUS
  <2>2. stored \in Seq(O!Preferences) /\ Ids(blob)
    BY DEF OrderInv
  <2>3. own = O!Named(Builtins) \cup O!Named(blob)
    OBVIOUS
  <2> HIDE DEF own, places
  <2>4. List(Permanent, registry') /\ C!Ids(registry') = own
    BY <1>1, <2>1, <2>2, <2>3, BootedIs
  <2> QED
    BY <2>3, <2>4
<1> QED
  BY <1>1, <1>2 DEF OrderInv, AllStay, Stays

LEMMA OrderSteps ==
  ASSUME OrderInv, [O!Next]_(O!vars)
  PROVE  OrderInv' /\ [AllStay]_(O!vars)
<1>1. CASE UNCHANGED O!vars
  BY <1>1 DEF O!vars, OrderInv
<1> QED
  BY <1>1, RequestKeeps, TickOfOrder, RebootKeeps DEF O!Next

LEMMA OrderInvHolds == O!Spec => []OrderInv
<1>1. OrderInv /\ [O!Next]_(O!vars) => OrderInv'
  BY OrderSteps
<1> QED
  BY <1>1, OrderInitially, PTL DEF O!Spec

(* A built-in app is never lost, and the app of a script only when the     *)
(* script is deleted, when a factory reset includes the apps, or when the  *)
(* device restarts without the script in flash                             *)
(* (ApplicationHost::applyStoredAppOrder, loadScripts, ApiServer).         *)
THEOREM OwnAppsStay == O!Spec => O!NoAppIsLost
<1> DEFINE Lost(id) ==
      \/ id \in O!Ids(registry')
      \/ /\ id \notin O!Named(Builtins)
         /\ O!DeleteScript(id) \/ O!FactoryReset \/ (O!Reboot /\ id \notin O!Named(blob))
<1>1. OrderInv /\ [O!Next]_(O!vars)
        => [\A id \in O!Installed \cap O!Ids(registry) : Lost(id)]_(O!vars)
  BY OrderSteps, SameIds DEF AllStay, Stays
<1> QED
  BY <1>1, OrderInvHolds, PTL DEF O!Spec, O!NoAppIsLost

(* Restarting from a record of the registry brings back the device's own   *)
(* apps, as far as their scripts are in flash, in the places, and with the *)
(* switches, they had: the order is applied again when the apps of the     *)
(* scripts exist (ApplicationHost::loadScripts, applyStoredAppOrder).      *)
THEOREM ArrangementsSurvive == O!Spec => OrderSurvivesRestart
<1>1. OrderInv /\ [O!Next]_(O!vars)
        => [stored = O!Recorded(registry) /\ O!Reboot
              => O!Own(O!Recorded(registry')) = O!Own(O!Recorded(registry))]_(O!vars)
  <2> SUFFICES ASSUME OrderInv, stored = O!Recorded(registry), O!Reboot
               PROVE  O!Own(O!Recorded(registry')) = O!Own(O!Recorded(registry))
    OBVIOUS
  <2> QED
    BY ArrangedAgain DEF OrderInv, O!Reboot
<1> QED
  BY <1>1, OrderInvHolds, PTL DEF O!Spec, OrderSurvivesRestart, O!OrderSurvivesRestart
=============================================================================
