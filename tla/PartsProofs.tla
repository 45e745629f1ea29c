---------------------------- MODULE PartsProofs ----------------------------
(***************************************************************************)
(* Proofs about the parts that MCParts puts side by side and that have no  *)
(* module of proofs of their own: each for its own specification, with any *)
(* number of helpers, users, connections and messages, and then for the    *)
(* properties of MCParts that join several of them.                        *)
(***************************************************************************)
EXTENDS MCParts, TcpConnectionProofs, SequenceTheorems, FiniteSetTheorems, TLAPS

-----------------------------------------------------------------------------
(***************************************************************************)
(* SequentialSet.  The ids are handed out on a circle.  Since s was handed *)
(* out, take has visited the ids of Arc(s).  Each was handed out later     *)
(* than s, or it was skipped; then it was in use, and had been when s was  *)
(* handed out.  Old(i) are the ids of the second kind with those in use    *)
(* that are still to be visited: fewer than MaxUsed.  To come back to s,   *)
(* take must visit all the other ids, so at least MaxId - MaxUsed + 1 of   *)
(* them have been handed out since.                                        *)
(***************************************************************************)

\* The ids visited since s was handed out.
Arc(s) == IF s <= counter THEN (s + 1)..counter ELSE ((s + 1)..MaxId) \cup (0..counter)

\* The ids that were handed out later than the i-th.
Later(i) == {recent[j] : j \in (i + 1)..Len(recent)}

Old(i) == (Arc(recent[i]) \ Later(i)) \cup (used \ (Arc(recent[i]) \cup {recent[i]}))

FewOld == \A i \in 1..Len(recent) : Cardinality(Old(i)) < MaxUsed

WindowKept == recent = <<>> \/ Len(recent) <= Window

SetInv == TypeOK /\ WindowKept /\ FewOld

\* The ids that take visits from c on.
Passed(c, n) == {Nth(c, j) : j \in 1..n}
-----------------------------------------------------------------------------
\* Counting on from c wraps once.
LEMMA NthMeans ==
  ASSUME NEW c \in Ids, NEW n \in 1..(MaxId + 1)
  PROVE  /\ Nth(c, n) = IF c + n <= MaxId THEN c + n ELSE c + n - (MaxId + 1)
         /\ Nth(c, n) \in Ids
<1>1. MaxId \in Nat /\ c \in Nat /\ c <= MaxId /\ n \in Nat /\ n >= 1 /\ n <= MaxId + 1
  BY MaxIdAssumption DEF Ids
<1>2. c + n <= MaxId => (c + n) % (MaxId + 1) = c + n
  BY <1>1
<1>3. c + n > MaxId => (c + n) % (MaxId + 1) = c + n - (MaxId + 1)
  BY <1>1
<1> QED BY <1>1, <1>2, <1>3 DEF Nth, Ids

LEMMA PassedMeans ==
  ASSUME NEW c \in Ids, NEW n \in 0..(MaxId + 1)
  PROVE  Passed(c, n) = IF c + n <= MaxId THEN (c + 1)..(c + n)
                        ELSE ((c + 1)..MaxId) \cup (0..(c + n - (MaxId + 1)))
<1>1. MaxId \in Nat /\ c \in Nat /\ c <= MaxId /\ n \in Nat /\ n <= MaxId + 1
  BY MaxIdAssumption DEF Ids
<1>2. \A j \in 1..n : Nth(c, j) = IF c + j <= MaxId THEN c + j ELSE c + j - (MaxId + 1)
  <2>1. \A j \in 1..n : j \in 1..(MaxId + 1)
    BY <1>1
  <2> QED BY <2>1, NthMeans
<1>3. ASSUME NEW x \in Passed(c, n)
      PROVE  \/ c + n <= MaxId /\ x \in (c + 1)..(c + n)
             \/ c + n > MaxId /\ x \in ((c + 1)..MaxId) \cup (0..(c + n - (MaxId + 1)))
  BY <1>1, <1>2 DEF Passed
<1>4. ASSUME NEW x \in (c + 1)..MaxId, x <= c + n PROVE x \in Passed(c, n)
  <2>1. x - c \in 1..n /\ c + (x - c) = x
    BY <1>1, <1>4
  <2> QED BY <1>1, <1>2, <2>1 DEF Passed
<1>5. ASSUME NEW x \in 0..(c + n - (MaxId + 1)) PROVE x \in Passed(c, n)
  <2> DEFINE j == x + (MaxId + 1) - c
  <2>1. j \in 1..n /\ c + j = x + (MaxId + 1) /\ x \in Nat
    BY <1>1
  <2> HIDE DEF j
  <2>2. Nth(c, j) = x
    BY <1>1, <1>2, <2>1
  <2> QED BY <2>1, <2>2 DEF Passed
<1>6. c + n <= MaxId => \A x \in (c + 1)..(c + n) : x \in (c + 1)..MaxId /\ x <= c + n
  BY <1>1
<1>7. c + n > MaxId => \A x \in (c + 1)..MaxId : x <= c + n
  BY <1>1
<1>8. CASE c + n <= MaxId
  <2>1. ~(c + n > MaxId)
    BY <1>1, <1>8
  <2> QED BY <1>3, <1>4, <1>6, <1>8, <2>1
<1>9. CASE c + n > MaxId
  <2>1. ~(c + n <= MaxId)
    BY <1>1, <1>9
  <2> QED BY <1>3, <1>4, <1>5, <1>7, <1>9, <2>1
<1> QED BY <1>1, <1>8, <1>9

\* Who comes back to s has visited all other ids since s was handed out.
LEMMA CircleClosed ==
  ASSUME counter \in Ids, NEW s \in Ids, NEW n \in 1..(MaxId + 1), s = Nth(counter, n)
  PROVE  Ids \ {s} \subseteq Arc(s) \cup Passed(counter, n - 1)
<1>1. MaxId \in Nat /\ counter \in 0..MaxId /\ s \in 0..MaxId /\ n - 1 \in 0..(MaxId + 1)
  BY MaxIdAssumption DEF Ids
<1>2. s = IF counter + n <= MaxId THEN counter + n ELSE counter + n - (MaxId + 1)
  BY NthMeans
<1>3. Passed(counter, n - 1) =
        IF counter + (n - 1) <= MaxId THEN (counter + 1)..(counter + (n - 1))
        ELSE ((counter + 1)..MaxId) \cup (0..(counter + (n - 1) - (MaxId + 1)))
  BY <1>1, PassedMeans
<1> QED BY <1>1, <1>2, <1>3 DEF Arc, Ids

\* A take that does not pass over s adds to its arc what it visits.
LEMMA ArcGrows ==
  ASSUME counter \in Ids, NEW s \in Ids, NEW n \in 1..(MaxId + 1),
         s \notin Passed(counter, n), counter' = Nth(counter, n)
  PROVE  Arc(s)' = Arc(s) \cup Passed(counter, n)
<1>1. MaxId \in Nat /\ counter \in 0..MaxId /\ s \in 0..MaxId /\ n \in 0..(MaxId + 1)
  BY MaxIdAssumption DEF Ids
<1>2. counter' = IF counter + n <= MaxId THEN counter + n ELSE counter + n - (MaxId + 1)
  BY NthMeans
<1>3. Passed(counter, n) = IF counter + n <= MaxId THEN (counter + 1)..(counter + n)
                           ELSE ((counter + 1)..MaxId) \cup (0..(counter + n - (MaxId + 1)))
  BY <1>1, PassedMeans
<1> QED BY <1>1, <1>2, <1>3 DEF Arc

\* Sizes of the sets of the argument.
LEMMA LaterFew ==
  ASSUME recent \in Seq(Ids), NEW i \in 1..Len(recent)
  PROVE  /\ IsFiniteSet(Later(i)) /\ Cardinality(Later(i)) \in Nat
         /\ Cardinality(Later(i)) <= Len(recent) - i
<1> DEFINE J == (i + 1)..Len(recent)
           f == [j \in J |-> recent[j]]
<1>1. IsFiniteSet(J) /\ Cardinality(J) = Len(recent) - i
  <2>1. i + 1 \in Int /\ Len(recent) \in Int /\ i <= Len(recent)
    OBVIOUS
  <2> QED BY <2>1, FS_Interval
<1>2. f \in Surjection(J, Later(i))
  BY DEF Later, Surjection
<1>3. IsFiniteSet(Later(i)) /\ Cardinality(Later(i)) <= Cardinality(J)
  BY <1>1, <1>2, FS_Surjection
<1> QED BY <1>1, <1>3, FS_CardinalityType

LEMMA OldFinite ==
  ASSUME TypeOK, NEW i \in 1..Len(recent)
  PROVE  IsFiniteSet(Old(i)) /\ Cardinality(Old(i)) \in Nat
<1>1. IsFiniteSet(Ids)
  BY MaxIdAssumption, FS_Interval DEF Ids
<1>2. recent[i] \in Ids
  BY DEF TypeOK
<1>3. Arc(recent[i]) \subseteq Ids
  BY <1>2, MaxIdAssumption DEF Arc, Ids, TypeOK
<1>4. Old(i) \subseteq Ids
  BY <1>3 DEF Old, TypeOK
<1> QED BY <1>1, <1>4, FS_Subset, FS_CardinalityType

\* An id that came out not long ago is not met again by a take that skips ids in use.
LEMMA NotBackYet ==
  ASSUME SetInv, NEW i \in 1..Len(recent), Len(recent) - i <= Window - 2,
         NEW n \in 1..(MaxId + 1), Passed(counter, n - 1) \subseteq used
  PROVE  recent[i] \notin Passed(counter, n)
<1> SUFFICES ASSUME NEW j \in 1..n, recent[i] = Nth(counter, j) PROVE FALSE
  BY DEF Passed
<1> DEFINE s == recent[i]
<1>1. s \in Ids /\ counter \in Ids /\ MaxId \in Nat /\ MaxUsed \in Nat
  BY MaxIdAssumption, MaxUsedAssumption DEF SetInv, TypeOK
<1>2. Passed(counter, j - 1) \subseteq used
  BY <1>1 DEF Passed
<1>3. j \in 1..(MaxId + 1)
  BY <1>1
<1>4. Ids \ {s} \subseteq Arc(s) \cup Passed(counter, j - 1)
  BY <1>1, <1>3, CircleClosed
<1>5. Ids \ {s} \subseteq Later(i) \cup Old(i)
  BY <1>2, <1>4 DEF Old
<1>6. IsFiniteSet(Ids \ {s}) /\ Cardinality(Ids \ {s}) = MaxId
  <2>1. IsFiniteSet(Ids) /\ Cardinality(Ids) = MaxId + 1
    BY <1>1, FS_Interval DEF Ids
  <2>2. IsFiniteSet(Ids \ {s}) /\ Cardinality(Ids \ {s}) = Cardinality(Ids) - 1
    BY <1>1, <2>1, FS_RemoveElement
  <2> QED BY <1>1, <2>1, <2>2
<1>7. /\ IsFiniteSet(Later(i)) /\ Cardinality(Later(i)) \in Nat
      /\ Cardinality(Later(i)) <= Len(recent) - i
  BY LaterFew DEF SetInv, TypeOK
<1>8. /\ IsFiniteSet(Old(i)) /\ Cardinality(Old(i)) \in Nat
      /\ Cardinality(Old(i)) < MaxUsed
  BY OldFinite DEF SetInv, FewOld
<1>9. /\ IsFiniteSet(Later(i) \cup Old(i))
      /\ Cardinality(Later(i) \cup Old(i)) <= Cardinality(Later(i)) + Cardinality(Old(i))
  <2>1. IsFiniteSet(Later(i) \cap Old(i)) /\ Cardinality(Later(i) \cap Old(i)) \in Nat
    BY <1>7, FS_Subset, FS_CardinalityType
  <2>2. IsFiniteSet(Later(i) \cup Old(i)) /\
        Cardinality(Later(i) \cup Old(i)) =
          Cardinality(Later(i)) + Cardinality(Old(i)) - Cardinality(Later(i) \cap Old(i))
    BY <1>7, <1>8, FS_Union
  <2> QED BY <1>7, <1>8, <2>1, <2>2
<1>10. Cardinality(Ids \ {s}) <= Cardinality(Later(i) \cup Old(i))
  BY <1>5, <1>9, FS_Subset
<1>11. Cardinality(Later(i) \cup Old(i)) \in Nat
  BY <1>9, FS_CardinalityType
<1>12. Len(recent) - i <= MaxId - MaxUsed /\ Len(recent) \in Nat
  BY <1>1 DEF Window, SetInv, TypeOK
<1> QED BY <1>1, <1>6, <1>7, <1>8, <1>9, <1>10, <1>11, <1>12
-----------------------------------------------------------------------------
LEMMA SetInitInv == Init => SetInv
BY MaxIdAssumption DEF Init, SetInv, TypeOK, WindowKept, FewOld, Ids

\* A smaller set of old ids is still small.
LEMMA FewerOldLeft ==
  ASSUME TypeOK, NEW i \in 1..Len(recent), Cardinality(Old(i)) < MaxUsed,
         NEW U \in SUBSET Old(i)
  PROVE  Cardinality(U) < MaxUsed
<1>1. IsFiniteSet(Old(i)) /\ Cardinality(Old(i)) \in Nat
  BY OldFinite
<1>2. IsFiniteSet(U) /\ Cardinality(U) <= Cardinality(Old(i)) /\ Cardinality(U) \in Nat
  BY <1>1, FS_Subset, FS_CardinalityType
<1> QED BY <1>1, <1>2, MaxUsedAssumption

\* Giving ids back makes none of them new.
LEMMA GiveBackKeeps ==
  ASSUME SetInv, used' \subseteq used, UNCHANGED <<counter, recent>>
  PROVE  SetInv'
<1>1. TypeOK' /\ WindowKept'
  BY DEF SetInv, TypeOK, WindowKept
<1>2. ASSUME NEW i \in 1..Len(recent) PROVE Cardinality(Old(i)') < MaxUsed
  <2>1. Old(i)' \subseteq Old(i)
    BY DEF Old, Arc, Later
  <2> QED BY <2>1, FewerOldLeft DEF SetInv, FewOld
<1>3. FewOld'
  BY <1>2 DEF FewOld
<1> QED BY <1>1, <1>3 DEF SetInv

\* What recent remembers of a take: the newest, and all that came before it but the
\* oldest, when the window is full.
LEMMA Remembered ==
  ASSUME SetInv, NEW t \in Ids, recent' = Remember(t)
  PROVE  /\ recent' \in Seq(Ids) /\ WindowKept'
         /\ \A k \in 1..Len(recent') :
              \/ recent'[k] = t
              \/ \E i \in 1..Len(recent) :
                   /\ Len(recent) - i <= Window - 2
                   /\ recent'[k] = recent[i]
                   /\ (Later(i) \cup {t}) \subseteq Later(k)'
<1> DEFINE s == Append(recent, t)
<1>1. /\ recent \in Seq(Ids) /\ Len(recent) \in Nat /\ Window \in Int
      /\ s \in Seq(Ids) /\ s # <<>> /\ Len(s) = Len(recent) + 1
      /\ \A i \in 1..Len(recent) : s[i] = recent[i]
      /\ s[Len(recent) + 1] = t
  BY MaxIdAssumption, MaxUsedAssumption DEF SetInv, TypeOK, Window
<1>2. CASE Len(s) > Window
  <2>1. /\ recent' = Tail(s) /\ Tail(s) \in Seq(Ids) /\ Len(Tail(s)) = Len(recent)
        /\ \A k \in 1..Len(recent) : Tail(s)[k] = s[k + 1]
    <3>1. /\ Tail(s) \in Seq(Ids) /\ Len(Tail(s)) = Len(s) - 1
          /\ \A k \in 1..Len(Tail(s)) : Tail(s)[k] = s[k + 1]
      BY <1>1, HeadTailProperties
    <3> QED BY <1>1, <1>2, <3>1 DEF Remember
  <2> HIDE DEF s
  <2>2. WindowKept'
    BY <1>1, <2>1 DEF SetInv, WindowKept
  <2>3. ASSUME NEW k \in 1..Len(recent)
        PROVE  \/ recent'[k] = t
               \/ \E i \in 1..Len(recent) :
                    /\ Len(recent) - i <= Window - 2
                    /\ recent'[k] = recent[i]
                    /\ (Later(i) \cup {t}) \subseteq Later(k)'
    <3>1. CASE k = Len(recent)
      BY <1>1, <2>1, <3>1
    <3>2. CASE k # Len(recent)
      <4>1. k + 1 \in 1..Len(recent) /\ Len(recent) - (k + 1) <= Window - 2
        BY <1>1, <3>2 DEF SetInv, WindowKept
      <4>2. recent'[k] = recent[k + 1]
        BY <1>1, <2>1, <4>1
      <4>3. Later(k)' = {Tail(s)[j] : j \in (k + 1)..Len(recent)}
        BY <2>1 DEF Later
      <4>4. t \in Later(k)'
        <5>1. Len(recent) \in (k + 1)..Len(recent) /\ Tail(s)[Len(recent)] = t
          BY <1>1, <2>1, <4>1
        <5> QED BY <4>3, <5>1
      <4>5. ASSUME NEW x \in Later(k + 1) PROVE x \in Later(k)'
        <5>1. PICK j \in (k + 1 + 1)..Len(recent) : x = recent[j]
          BY DEF Later
        <5>2. j - 1 \in (k + 1)..Len(recent) /\ Tail(s)[j - 1] = s[j] /\ s[j] = recent[j]
          BY <1>1, <2>1
        <5> QED BY <4>3, <5>1, <5>2
      <4> QED BY <4>1, <4>2, <4>4, <4>5
    <3> QED BY <3>1, <3>2
  <2> QED BY <2>1, <2>2, <2>3
<1>3. CASE ~(Len(s) > Window)
  <2>1. recent' = s
    BY <1>3 DEF Remember
  <2> HIDE DEF s
  <2>2. WindowKept'
    BY <1>1, <1>3, <2>1 DEF WindowKept
  <2>3. ASSUME NEW k \in 1..(Len(recent) + 1)
        PROVE  \/ recent'[k] = t
               \/ \E i \in 1..Len(recent) :
                    /\ Len(recent) - i <= Window - 2
                    /\ recent'[k] = recent[i]
                    /\ (Later(i) \cup {t}) \subseteq Later(k)'
    <3>1. CASE k = Len(recent) + 1
      BY <1>1, <2>1, <3>1
    <3>2. CASE k # Len(recent) + 1
      <4>1. k \in 1..Len(recent) /\ Len(recent) - k <= Window - 2
        BY <1>1, <1>3, <3>2
      <4>2. recent'[k] = recent[k]
        BY <1>1, <2>1, <4>1
      <4>3. Later(k)' = {s[j] : j \in (k + 1)..(Len(recent) + 1)}
        BY <1>1, <2>1 DEF Later
      <4>4. t \in Later(k)'
        <5>1. Len(recent) + 1 \in (k + 1)..(Len(recent) + 1)
          BY <1>1, <4>1
        <5> QED BY <1>1, <4>3, <5>1
      <4>5. ASSUME NEW x \in Later(k) PROVE x \in Later(k)'
        <5>1. PICK j \in (k + 1)..Len(recent) : x = recent[j]
          BY DEF Later
        <5>2. j \in (k + 1)..(Len(recent) + 1) /\ s[j] = recent[j]
          BY <1>1
        <5> QED BY <4>3, <5>1, <5>2
      <4> QED BY <4>1, <4>2, <4>4, <4>5
    <3> QED BY <3>1, <3>2
  <2> QED BY <1>1, <2>1, <2>2, <2>3
<1> QED BY <1>2, <1>3

\* The number of steps of the loop of take: it skips ids in use only.
LEMMA TakeMeans ==
  ASSUME SetInv, Take
  PROVE  \E n \in 1..(MaxId + 1) :
           /\ Nth(counter, n) \notin used /\ counter' = Nth(counter, n)
           /\ Passed(counter, n - 1) \subseteq used
           /\ used' = used \cup {counter'} /\ recent' = Remember(counter')
BY DEF Take, Takes, Passed

LEMMA TakeKeeps == SetInv /\ Take => SetInv'
<1> SUFFICES ASSUME SetInv, Take PROVE SetInv'
  OBVIOUS
<1>1. PICK n \in 1..(MaxId + 1) :
        /\ Nth(counter, n) \notin used /\ counter' = Nth(counter, n)
        /\ Passed(counter, n - 1) \subseteq used
        /\ used' = used \cup {counter'} /\ recent' = Remember(counter')
  BY TakeMeans
<1>2. PICK t \in Ids : t = Nth(counter, n)
  BY NthMeans DEF SetInv, TypeOK
<1>3. counter' = t /\ used' = used \cup {t} /\ recent' = Remember(t) /\ t \notin used
  BY <1>1, <1>2
<1>4. TypeOK' /\ WindowKept'
  BY <1>2, <1>3, Remembered DEF SetInv, TypeOK
<1>5. ASSUME NEW x \in Passed(counter, n), x # t PROVE x \in used
  BY <1>1, <1>2, <1>5, MaxIdAssumption DEF Passed
<1>6. ASSUME NEW k \in 1..Len(recent') PROVE Cardinality(Old(k)') < MaxUsed
  <2>1. CASE recent'[k] = t
    <3>1. Arc(t)' = {}
      BY <1>2, <1>3, MaxIdAssumption DEF Arc, Ids
    <3>2. Old(k)' = used
      BY <1>3, <2>1, <3>1 DEF Old, Arc
    <3> QED BY <3>2 DEF Take
  <2>2. ASSUME NEW i \in 1..Len(recent), Len(recent) - i <= Window - 2,
               recent'[k] = recent[i], (Later(i) \cup {t}) \subseteq Later(k)'
        PROVE  Cardinality(Old(k)') < MaxUsed
    <3>1. PICK s \in Ids : s = recent[i]
      BY DEF SetInv, TypeOK
    <3>2. s \notin Passed(counter, n)
      BY <1>1, <2>2, <3>1, NotBackYet
    <3>3. Arc(s)' = Arc(s) \cup Passed(counter, n)
      BY <1>1, <3>2, ArcGrows DEF SetInv, TypeOK
    <3>4. t \in Passed(counter, n)
      <4>1. n \in 1..n
        BY MaxIdAssumption
      <4> QED BY <1>2, <4>1 DEF Passed
    <3>5. Old(k)' = (Arc(s)' \ Later(k)') \cup (used' \ (Arc(s)' \cup {s}))
      BY <2>2, <3>1 DEF Old, Arc
    <3>6. Old(i) = (Arc(s) \ Later(i)) \cup (used \ (Arc(s) \cup {s}))
      BY <3>1 DEF Old
    <3>7. Old(k)' \subseteq Old(i)
      BY <1>3, <1>5, <2>2, <3>2, <3>3, <3>4, <3>5, <3>6
    <3> QED BY <3>7, FewerOldLeft DEF SetInv, FewOld
  <2> QED BY <1>2, <1>3, <2>1, <2>2, Remembered
<1>7. FewOld'
  BY <1>6 DEF FewOld
<1> QED BY <1>4, <1>7 DEF SetInv

LEMMA SetNextInv == SetInv /\ [Next]_setVars => SetInv'
<1>2. ASSUME SetInv, NEW t \in used, Replace(t) PROVE SetInv'
  BY <1>2, GiveBackKeeps DEF Replace
<1>3. SetInv /\ Clear => SetInv'
  BY GiveBackKeeps DEF Clear
<1>4. SetInv /\ UNCHANGED setVars => SetInv'
  BY GiveBackKeeps DEF setVars
<1> QED BY <1>2, <1>3, <1>4, TakeKeeps DEF Next

\* Every step is one of IdFactory: take gives an id that is free and not recent.
LEMMA SetNextRefines == SetInv /\ [Next]_setVars => [Factory!Next]_<<used, recent>>
<1> SUFFICES ASSUME SetInv, [Next]_setVars PROVE [Factory!Next]_<<used, recent>>
  OBVIOUS
<1>1. CASE Take
  <2>1. PICK n \in 1..(MaxId + 1) :
          /\ Nth(counter, n) \notin used /\ counter' = Nth(counter, n)
          /\ Passed(counter, n - 1) \subseteq used
          /\ used' = used \cup {counter'} /\ recent' = Remember(counter')
    BY <1>1, TakeMeans
  <2>2. PICK t \in Ids : t = Nth(counter, n)
    BY NthMeans DEF SetInv, TypeOK
  <2>3. recent \in Seq(Ids) /\ Len(recent) \in Nat /\ Window \in Int
    BY MaxIdAssumption, MaxUsedAssumption DEF SetInv, TypeOK, Window
  <2>4. ASSUME NEW i \in 1..Len(recent), i > Len(recent) - (Window - 1) PROVE recent[i] # t
    <3>1. Len(recent) - i <= Window - 2
      BY <2>3, <2>4
    <3>2. recent[i] \notin Passed(counter, n)
      BY <2>1, <3>1, NotBackYet
    <3>3. n \in 1..n
      BY MaxIdAssumption
    <3> QED BY <2>2, <3>2, <3>3 DEF Passed
  <2>5. Len(Append(recent, t)) > Window <=> ~(Len(recent) < Window)
    BY <2>3
  <2>6. recent' = IF Len(recent) < Window THEN Append(recent, t) ELSE Tail(Append(recent, t))
    BY <2>1, <2>2, <2>5 DEF Remember
  <2> QED BY <2>1, <2>2, <2>4, <2>6 DEF Factory!Next, Factory!TakeFresh
<1>2. ASSUME NEW G \in SUBSET used, used' = used \ G, UNCHANGED recent PROVE Factory!Next
  BY <1>2 DEF Factory!Next, Factory!GiveBack
<1>3. ASSUME NEW t \in used, Replace(t) PROVE Factory!Next
  <2>1. {t} \in SUBSET used /\ used' = used \ {t} /\ UNCHANGED recent
    BY <1>3 DEF Replace
  <2> QED BY <1>2, <2>1
<1>4. CASE Clear
  <2>1. used \in SUBSET used /\ used' = used \ used /\ UNCHANGED recent
    BY <1>4 DEF Clear
  <2> QED BY <1>2, <2>1
<1>5. CASE UNCHANGED setVars
  BY <1>5 DEF setVars
<1> QED BY <1>1, <1>3, <1>4, <1>5 DEF Next

\* sequential_set hands out ids that are free and that did not come out lately: what
\* its comment promises against the aliasing of stale ids, also across the wrap.
THEOREM IdFactoryImplemented == Spec => RefinesIdFactory
<1>1. Init => Factory!Init
  BY DEF Init, Factory!Init
<1> QED BY <1>1, SetInitInv, SetNextInv, SetNextRefines, PTL DEF Spec, RefinesIdFactory, Factory!Spec
-----------------------------------------------------------------------------
(* Managers. *)

AmType ==
  [live : {TRUE}, state : {"START", "CREATED"}, handle : BOOLEAN,
   observers : SUBSET Observers, remove : SUBSET Observers,
   stage : Stages \ {"none"}, ending : Stages \ {"done"}]

BmType ==
  [live : {TRUE}, state : {"START", "BOUND"}, handles : SUBSET Sides, observables : SUBSET Sides,
   stage : Stages, ending : Stages \ {"done"}]

ManagersTyped ==
  /\ am \in [AutomatonManagers -> AmType \cup {Deleted}]
  /\ bm \in [BindingManagers -> BmType \cup {Deleted}]
  /\ asked \in [BindingManagers -> 0..1]

\* What a binding manager waits for it does not have, and it has asked its owner to
\* bind if it has both handles.
AskedRight ==
  \A b \in BindingManagers :
    IF bm[b].live
    THEN /\ bm[b].handles \cap bm[b].observables = {}
         /\ asked[b] = 1 <=> bm[b].handles = Sides
         /\ asked[b] = 1 <=> bm[b].stage # "none"
    ELSE asked[b] = 0

\* What it observes is there, without a handle, and knows of it.
ObservesRight ==
  \A b \in BindingManagers : bm[b].live =>
    \A side \in bm[b].observables :
      /\ Binds[b][side] \in AutomatonManagers
      /\ am[Binds[b][side]].live
      /\ <<b, side>> \in am[Binds[b][side]].observers

ObserversRight ==
  \A a \in AutomatonManagers : am[a].live =>
    \A b \in BindingManagers, side \in Sides : <<b, side>> \in am[a].observers =>
      /\ ~am[a].handle /\ bm[b].live
      /\ side \in bm[b].observables /\ Binds[b][side] = a

ManagersInv == ManagersTyped /\ AskedRight /\ ObservesRight /\ ObserversRight

LEMMA LiveManagers ==
  ASSUME ManagersTyped
  PROVE  /\ \A a \in AutomatonManagers : am[a].live \in BOOLEAN /\ (am[a].live <=> am[a] \in AmType)
         /\ \A b \in BindingManagers : bm[b].live \in BOOLEAN /\ (bm[b].live <=> bm[b] \in BmType)
         /\ ~Deleted.live
<1>1. Deleted.live = FALSE
  BY DEF Deleted
<1>2. \A x \in AmType : x.live = TRUE
  BY DEF AmType
<1>3. \A x \in BmType : x.live = TRUE
  BY DEF BmType
<1>4. \A a \in AutomatonManagers : am[a] \in AmType \/ am[a] = Deleted
  BY DEF ManagersTyped
<1>5. \A b \in BindingManagers : bm[b] \in BmType \/ bm[b] = Deleted
  BY DEF ManagersTyped
<1> QED BY <1>1, <1>2, <1>3, <1>4, <1>5

LEMMA ManagersInvMeans ==
  ManagersInv => ManagersTypeOK /\ AsksToBindOnce /\ ObserversAgree
<1> SUFFICES ASSUME ManagersInv PROVE ManagersTypeOK /\ AsksToBindOnce /\ ObserversAgree
  OBVIOUS
<1>1. ManagersTyped
  BY DEF ManagersInv
<1>2. ManagersTypeOK
  <2>1. \A a \in AutomatonManagers : am[a] \in AmType \/ am[a] = Deleted
    BY <1>1 DEF ManagersTyped
  <2>2. \A b \in BindingManagers : bm[b] \in BmType \/ bm[b] = Deleted
    BY <1>1 DEF ManagersTyped
  <2>3. asked \in [BindingManagers -> 0..2]
    BY <1>1 DEF ManagersTyped
  <2> QED BY <2>1, <2>2, <2>3 DEF ManagersTypeOK, AmType, BmType
<1>3. AsksToBindOnce
  BY DEF ManagersInv, ManagersTyped, AskedRight, AsksToBindOnce
<1>4. ASSUME NEW a \in AutomatonManagers, am[a].live, NEW o \in am[a].observers
      PROVE  /\ ~am[a].handle /\ bm[o[1]].live
             /\ o[2] \in bm[o[1]].observables /\ Binds[o[1]][o[2]] = a
  <2>1. am[a] \in AmType
    BY <1>1, <1>4, LiveManagers
  <2>2. o \in BindingManagers \X Sides
    BY <2>1 DEF AmType, Observers
  <2>3. o = <<o[1], o[2]>> /\ o[1] \in BindingManagers /\ o[2] \in Sides
    BY <2>2
  <2> QED BY <2>3, <1>4 DEF ManagersInv, ObserversRight
<1>5. ASSUME NEW a \in AutomatonManagers, am[a].live, NEW b \in BindingManagers, bm[b].live,
             NEW side \in bm[b].observables, Binds[b][side] = a
      PROVE  <<b, side>> \in am[a].observers
  BY <1>5 DEF ManagersInv, ObservesRight
<1>6. ObserversAgree
  BY <1>4, <1>5 DEF ObserversAgree
<1> QED BY <1>2, <1>3, <1>6

\* A manager moves among its owner's sets.
LEMMA AutomatonManagerMoves ==
  ASSUME ManagersInv, NEW a \in AutomatonManagers, am[a].live,
         NEW s \in Stages \ {"none"}, NEW e \in Stages \ {"done"},
         am' = [am EXCEPT ![a] = [@ EXCEPT !.stage = s, !.ending = e]], bm' = bm, asked' = asked
  PROVE  ManagersInv'
<1>1. ManagersTyped /\ am[a] \in AmType
  BY LiveManagers DEF ManagersInv
<1>2. am'[a] \in AmType /\ am'[a].live /\ am'[a].handle = am[a].handle
      /\ am'[a].observers = am[a].observers
  BY <1>1 DEF AmType, ManagersTyped
<1>3. am' \in [AutomatonManagers -> AmType \cup {Deleted}]
      /\ \A x \in AutomatonManagers : x # a => am'[x] = am[x]
  BY <1>1, <1>2 DEF ManagersTyped
<1>4. \A x \in AutomatonManagers : /\ am'[x].live <=> am[x].live
                                   /\ am[x].live => am'[x].observers = am[x].observers
                                   /\ am[x].live => am'[x].handle = am[x].handle
  BY <1>2, <1>3
<1>5. ManagersTyped'
  BY <1>1, <1>3 DEF ManagersTyped
<1>6. AskedRight'
  BY DEF ManagersInv, AskedRight
<1>7. ObservesRight'
  BY <1>4 DEF ManagersInv, ObservesRight
<1>8. ObserversRight'
  BY <1>4 DEF ManagersInv, ObserversRight
<1> QED BY <1>5, <1>6, <1>7, <1>8 DEF ManagersInv

LEMMA BindingManagerMoves ==
  ASSUME ManagersInv, NEW b \in BindingManagers, bm[b].live, bm[b].stage # "none",
         NEW t \in {"START", "BOUND"}, NEW s \in Stages \ {"none"}, NEW e \in Stages \ {"done"},
         bm' = [bm EXCEPT ![b] = [@ EXCEPT !.state = t, !.stage = s, !.ending = e]],
         am' = am, asked' = asked
  PROVE  ManagersInv'
<1>1. ManagersTyped /\ bm[b] \in BmType
  BY LiveManagers DEF ManagersInv
<1>2. bm'[b] \in BmType /\ bm'[b].live /\ bm'[b].handles = bm[b].handles
      /\ bm'[b].observables = bm[b].observables /\ bm'[b].stage # "none"
  BY <1>1 DEF BmType, ManagersTyped
<1>3. bm' \in [BindingManagers -> BmType \cup {Deleted}]
      /\ \A x \in BindingManagers : x # b => bm'[x] = bm[x]
  BY <1>1, <1>2 DEF ManagersTyped
<1>4. \A x \in BindingManagers : /\ bm'[x].live <=> bm[x].live
                                 /\ bm[x].live => bm'[x].handles = bm[x].handles
                                 /\ bm[x].live => bm'[x].observables = bm[x].observables
                                 /\ bm[x].live => (bm'[x].stage # "none" <=> bm[x].stage # "none")
  BY <1>2, <1>3
<1>5. ManagersTyped'
  BY <1>1, <1>3 DEF ManagersTyped
<1>6. AskedRight'
  BY <1>4 DEF ManagersInv, AskedRight
<1>7. ObservesRight'
  BY <1>4 DEF ManagersInv, ObservesRight
<1>8. ObserversRight'
  BY <1>4 DEF ManagersInv, ObserversRight
<1> QED BY <1>5, <1>6, <1>7, <1>8 DEF ManagersInv

\* The sides on which b observes a.
SidesOn(a, b) == {side \in Sides : <<b, side>> \in am[a].observers}

NotifiedRight(r, b, given, on) ==
  /\ on = {} => r = bm[b]
  /\ on # {} =>
       /\ bm[b].live /\ on \subseteq bm[b].observables
       /\ bm[b].handles # Sides /\ bm[b].stage = "none"
       /\ r \in BmType /\ r.live
       /\ r.handles = (IF given THEN bm[b].handles \cup on ELSE bm[b].handles)
       /\ r.observables = bm[b].observables \ on
       /\ r.stage = (IF r.handles = Sides THEN "send" ELSE "none")

\* A notification: the binding managers that observe a, and only those, get or give up
\* the handle and observe a no more; a manager that has both then asks to bind.
LEMMA ObserverNotified ==
  ASSUME ManagersInv, NEW a \in AutomatonManagers, am[a].live, NEW given \in BOOLEAN,
         NEW b \in BindingManagers
  PROVE  NotifiedRight(Observed(a, given, b), b, given, SidesOn(a, b))
<1> DEFINE r == Observed(a, given, b)
           on == SidesOn(a, b)
<1>0. /\ on \subseteq Sides
      /\ \A side \in on : <<b, side>> \in am[a].observers
      /\ r = LET handles == IF given THEN bm[b].handles \cup on ELSE bm[b].handles \ on
                 bind == on # {} /\ handles = Sides
             IN  IF on = {} THEN bm[b]
                 ELSE [bm[b] EXCEPT !.handles = handles, !.observables = @ \ on,
                                    !.stage = IF bind THEN "send" ELSE @]
  BY DEF Observed, SidesOn
<1> HIDE DEF r, on
<1>1. on = {} => r = bm[b]
  BY <1>0
<1>2. ASSUME on # {} PROVE bm[b].live /\ on \subseteq bm[b].observables
  BY <1>0, <1>2 DEF ManagersInv, ObserversRight
<1>3. ASSUME on # {} PROVE /\ bm[b] \in BmType /\ bm[b].handles \cap bm[b].observables = {}
                          /\ bm[b].handles # Sides /\ bm[b].stage = "none"
  <2>1. bm[b] \in BmType
    BY <1>2, <1>3, LiveManagers DEF ManagersInv
  <2>2. bm[b].handles \cap bm[b].observables = {}
    BY <1>2, <1>3 DEF ManagersInv, AskedRight
  <2>3. bm[b].handles # Sides
    BY <1>0, <1>2, <1>3, <2>2
  <2> QED BY <1>2, <1>3, <2>1, <2>2, <2>3 DEF ManagersInv, AskedRight
<1>4. ASSUME on # {} PROVE /\ r \in BmType /\ r.live
                          /\ r.handles = (IF given THEN bm[b].handles \cup on ELSE bm[b].handles)
                          /\ r.observables = bm[b].observables \ on
                          /\ r.stage = (IF r.handles = Sides THEN "send" ELSE "none")
  <2> DEFINE handles == IF given THEN bm[b].handles \cup on ELSE bm[b].handles \ on
             stage == IF handles = Sides THEN "send" ELSE bm[b].stage
  <2>1. r = [bm[b] EXCEPT !.handles = handles, !.observables = @ \ on, !.stage = stage]
    BY <1>4, <1>0
  <2>2. handles \in SUBSET Sides /\ stage \in Stages
        /\ handles = (IF given THEN bm[b].handles \cup on ELSE bm[b].handles)
    BY <1>2, <1>3, <1>4 DEF BmType, Stages
  <2>3. stage = IF handles = Sides THEN "send" ELSE "none"
    BY <1>3, <1>4
  <2> HIDE DEF handles, stage
  <2> DEFINE others == bm[b].observables \ on
  <2>4. others \in SUBSET Sides
    BY <1>3, <1>4 DEF BmType
  <2>5. r = [bm[b] EXCEPT !.handles = handles, !.observables = others, !.stage = stage]
    BY <2>1
  <2>6. others = bm[b].observables \ on
    OBVIOUS
  <2> HIDE DEF others
  <2>7. bm[b] \in BmType
    BY <1>3, <1>4
  <2>8. /\ r \in BmType /\ r.live /\ r.handles = handles
        /\ r.observables = others /\ r.stage = stage
    BY <2>2, <2>4, <2>5, <2>7 DEF BmType
  <2> QED BY <2>2, <2>3, <2>6, <2>8
<1>5. NotifiedRight(r, b, given, on)
  BY <1>1, <1>2, <1>3, <1>4 DEF NotifiedRight
<1> QED BY <1>5 DEF r, on

\* After a notification nothing observes the manager; it is gone, or has its handle.
LEMMA NotifyKeeps ==
  ASSUME ManagersInv, NEW a \in AutomatonManagers, am[a].live, NEW given \in BOOLEAN,
         NotifyObservers(a, given),
         am' \in [AutomatonManagers -> AmType \cup {Deleted}],
         \A x \in AutomatonManagers : x # a => am'[x] = am[x],
         am'[a].live => am'[a].observers = {}
  PROVE  ManagersInv'
<1> DEFINE On(b) == SidesOn(a, b)
<1>1. ManagersTyped
  BY DEF ManagersInv
<1>2. /\ bm' = [b \in BindingManagers |-> Observed(a, given, b)]
      /\ asked' = [b \in BindingManagers |->
                     IF bm'[b].live /\ bm[b].stage = "none" /\ bm'[b].stage = "send"
                     THEN asked[b] + 1 ELSE asked[b]]
  BY DEF NotifyObservers
<1>3. ASSUME NEW b \in BindingManagers
      PROVE  /\ On(b) = {} => bm'[b] = bm[b]
             /\ On(b) # {} =>
                  /\ bm[b].live /\ On(b) \subseteq bm[b].observables
                  /\ bm[b].handles # Sides /\ bm[b].stage = "none"
                  /\ bm'[b] \in BmType /\ bm'[b].live
                  /\ bm'[b].handles = (IF given THEN bm[b].handles \cup On(b) ELSE bm[b].handles)
                  /\ bm'[b].observables = bm[b].observables \ On(b)
                  /\ bm'[b].stage = (IF bm'[b].handles = Sides THEN "send" ELSE "none")
  <2>1. bm'[b] = Observed(a, given, b)
    BY <1>2
  <2>2. NotifiedRight(Observed(a, given, b), b, given, SidesOn(a, b))
    BY ObserverNotified
  <2>3. NotifiedRight(bm'[b], b, given, SidesOn(a, b))
    BY <2>1, <2>2
  <2> QED BY <2>3 DEF NotifiedRight
<1>4. ASSUME NEW b \in BindingManagers, NEW side \in Sides
      PROVE  side \in On(b) <=> <<b, side>> \in am[a].observers
  BY DEF SidesOn
<1> HIDE DEF On
<1>5. ASSUME NEW b \in BindingManagers
      PROVE  /\ bm'[b] \in BmType \cup {Deleted} /\ (bm'[b].live <=> bm[b].live)
             /\ bm[b].live => bm'[b].observables = bm[b].observables \ On(b)
             /\ bm[b].live => bm[b] \in BmType /\ bm'[b] \in BmType
  <2>1. bm[b] \in BmType \cup {Deleted}
    BY <1>1 DEF ManagersTyped
  <2>2. bm[b].live => bm[b] \in BmType
    BY <1>1, LiveManagers
  <2>3. CASE On(b) = {}
    BY <1>3, <2>1, <2>2, <2>3
  <2>4. CASE On(b) # {}
    BY <1>3, <2>2, <2>4 DEF BmType
  <2> QED BY <2>3, <2>4
<1>6. ASSUME NEW b \in BindingManagers
      PROVE  /\ asked'[b] \in 0..1
             /\ IF bm'[b].live
                THEN /\ bm'[b].handles \cap bm'[b].observables = {}
                     /\ asked'[b] = 1 <=> bm'[b].handles = Sides
                     /\ asked'[b] = 1 <=> bm'[b].stage # "none"
                ELSE asked'[b] = 0
  <2>1. asked[b] \in 0..1
    BY <1>1 DEF ManagersTyped
  <2>2. asked'[b] = IF bm'[b].live /\ bm[b].stage = "none" /\ bm'[b].stage = "send"
                    THEN asked[b] + 1 ELSE asked[b]
    BY <1>2
  <2>3. IF bm[b].live
        THEN /\ bm[b].handles \cap bm[b].observables = {}
             /\ asked[b] = 1 <=> bm[b].handles = Sides
             /\ asked[b] = 1 <=> bm[b].stage # "none"
        ELSE asked[b] = 0
    BY DEF ManagersInv, AskedRight
  <2>4. CASE On(b) = {}
    <3>1. bm'[b] = bm[b] /\ asked'[b] = asked[b]
      BY <1>3, <2>2, <2>4
    <3> QED BY <2>1, <2>3, <3>1
  <2>5. CASE On(b) # {}
    <3>1. /\ bm[b].live /\ bm[b].handles # Sides /\ bm[b].stage = "none" /\ bm'[b].live
          /\ bm'[b].handles = (IF given THEN bm[b].handles \cup On(b) ELSE bm[b].handles)
          /\ bm'[b].observables = bm[b].observables \ On(b)
          /\ bm'[b].stage = (IF bm'[b].handles = Sides THEN "send" ELSE "none")
      BY <1>3, <2>5
    <3>2. asked[b] = 0 /\ bm[b].handles \cap bm[b].observables = {}
      BY <2>1, <2>3, <3>1
    <3>3. asked'[b] = IF bm'[b].handles = Sides THEN 1 ELSE 0
      BY <2>2, <3>1, <3>2
    <3>4. bm'[b].handles \cap bm'[b].observables = {}
      BY <3>1, <3>2
    <3> QED BY <3>1, <3>3, <3>4
  <2> QED BY <2>4, <2>5
<1>7. ManagersTyped' /\ AskedRight'
  <2>1. bm' \in [BindingManagers -> BmType \cup {Deleted}]
    BY <1>2, <1>5
  <2>2. asked' \in [BindingManagers -> 0..1]
    BY <1>2, <1>6
  <2> QED BY <1>6, <2>1, <2>2 DEF ManagersTyped, AskedRight
<1>8. ASSUME NEW b \in BindingManagers, bm'[b].live, NEW side \in bm'[b].observables
      PROVE  /\ Binds[b][side] \in AutomatonManagers
             /\ am'[Binds[b][side]].live
             /\ <<b, side>> \in am'[Binds[b][side]].observers
  <2>1. bm[b].live /\ side \in bm[b].observables /\ side \notin On(b) /\ side \in Sides
    BY <1>5, <1>8 DEF BmType
  <2>2. /\ Binds[b][side] \in AutomatonManagers /\ am[Binds[b][side]].live
        /\ <<b, side>> \in am[Binds[b][side]].observers
    BY <2>1 DEF ManagersInv, ObservesRight
  <2>3. Binds[b][side] # a
    BY <1>4, <2>1, <2>2
  <2> QED BY <2>2, <2>3
<1>9. ASSUME NEW x \in AutomatonManagers, am'[x].live, NEW b \in BindingManagers, NEW side \in Sides,
             <<b, side>> \in am'[x].observers
      PROVE  /\ ~am'[x].handle /\ bm'[b].live
             /\ side \in bm'[b].observables /\ Binds[b][side] = x
  <2>1. x # a /\ am'[x] = am[x]
    BY <1>9
  <2>2. /\ ~am[x].handle /\ bm[b].live /\ side \in bm[b].observables /\ Binds[b][side] = x
    BY <1>9, <2>1 DEF ManagersInv, ObserversRight
  <2>3. side \notin On(b)
    <3>1. ASSUME <<b, side>> \in am[a].observers PROVE Binds[b][side] = a
      BY <3>1 DEF ManagersInv, ObserversRight
    <3> QED BY <1>4, <2>1, <2>2, <3>1
  <2> QED BY <1>5, <2>1, <2>2, <2>3
<1> QED BY <1>7, <1>8, <1>9 DEF ManagersInv, ObservesRight, ObserversRight

LEMMA ManagerDeleted ==
  ASSUME ManagersInv, NEW a \in AutomatonManagers, am[a].live, DeleteManager(a)
  PROVE  ManagersInv'
<1>1. am' = [am EXCEPT ![a] = Deleted] /\ NotifyObservers(a, FALSE)
  BY DEF DeleteManager
<1>2. am \in [AutomatonManagers -> AmType \cup {Deleted}] /\ ~Deleted.live
  BY LiveManagers DEF ManagersInv, ManagersTyped
<1>3. /\ am' \in [AutomatonManagers -> AmType \cup {Deleted}]
      /\ \A x \in AutomatonManagers : x # a => am'[x] = am[x]
      /\ am'[a].live => am'[a].observers = {}
  BY <1>1, <1>2
<1> QED BY <1>1, <1>3, NotifyKeeps

LEMMA ManagerCreated ==
  ASSUME ManagersInv, NEW a \in AutomatonManagers, Created(a)
  PROVE  ManagersInv'
<1> DEFINE r == [am[a] EXCEPT !.state = "CREATED", !.handle = TRUE, !.stage = "done"]
<1>1. am[a].live /\ NotifyObservers(a, TRUE) /\ am' = [am EXCEPT ![a] = AfterNotify(r)]
  BY DEF Created
<1>2. am \in [AutomatonManagers -> AmType \cup {Deleted}] /\ am[a] \in AmType
  BY <1>1, LiveManagers DEF ManagersInv, ManagersTyped
<1>3. r \in AmType
  BY <1>2 DEF AmType, Stages
<1> HIDE DEF r
<1>4. AfterNotify(r) \in AmType /\ AfterNotify(r).observers = {}
  BY <1>3 DEF AmType, AfterNotify
<1>5. /\ am' \in [AutomatonManagers -> AmType \cup {Deleted}]
      /\ \A x \in AutomatonManagers : x # a => am'[x] = am[x]
      /\ am'[a].observers = {}
  BY <1>1, <1>2, <1>4
<1> QED BY <1>1, <1>5, NotifyKeeps

LEMMA ManagerMade ==
  ASSUME ManagersInv, NEW a \in AutomatonManagers, MakeAutomatonManager(a)
  PROVE  ManagersInv'
<1>1. ~am[a].live /\ am' = [am EXCEPT ![a] = NewAutomatonManager] /\ bm' = bm /\ asked' = asked
  BY DEF MakeAutomatonManager
<1>2. NewAutomatonManager \in AmType /\ NewAutomatonManager.observers = {} /\ NewAutomatonManager.live
  BY DEF NewAutomatonManager, AmType, Stages
<1>3. /\ am' \in [AutomatonManagers -> AmType \cup {Deleted}]
      /\ \A x \in AutomatonManagers : x # a => am'[x] = am[x]
      /\ am'[a].observers = {}
  BY <1>1, <1>2 DEF ManagersInv, ManagersTyped
<1>4. ManagersTyped' /\ AskedRight'
  BY <1>1, <1>3 DEF ManagersInv, ManagersTyped, AskedRight
<1>5. ObservesRight'
  BY <1>1, <1>3 DEF ManagersInv, ObservesRight
<1>6. ObserversRight'
  BY <1>1, <1>3 DEF ManagersInv, ObserversRight
<1> QED BY <1>4, <1>5, <1>6 DEF ManagersInv

\* A binding manager takes itself off the managers it observes.
LEMMA BindingManagerDeleted ==
  ASSUME ManagersInv, NEW b \in BindingManagers, bm[b].live, DeleteBindingManager(b)
  PROVE  ManagersInv'
<1> DEFINE Mine == {<<b, side>> : side \in bm[b].observables}
<1>1. /\ bm' = [bm EXCEPT ![b] = Deleted] /\ asked' = [asked EXCEPT ![b] = 0]
      /\ am' = [a \in AutomatonManagers |->
                  IF am[a].live THEN [am[a] EXCEPT !.observers = @ \ Mine] ELSE am[a]]
  BY DEF DeleteBindingManager
<1>2. ManagersTyped /\ ~Deleted.live
  BY LiveManagers DEF ManagersInv
<1>3. \A c \in BindingManagers, side \in Sides :
        <<c, side>> \in Mine <=> c = b /\ side \in bm[b].observables
  OBVIOUS
<1> HIDE DEF Mine
<1>4. ASSUME NEW a \in AutomatonManagers
      PROVE  /\ am'[a] \in AmType \cup {Deleted}
             /\ am'[a].live <=> am[a].live
             /\ am[a].live => am'[a].handle = am[a].handle /\ am'[a].observers = am[a].observers \ Mine
  <2>1. am[a] \in AmType \cup {Deleted} /\ (am[a].live => am[a] \in AmType)
    BY <1>2, LiveManagers DEF ManagersTyped
  <2>2. CASE am[a].live
    <3>1. am'[a] = [am[a] EXCEPT !.observers = am[a].observers \ Mine]
      BY <1>1, <2>2
    <3> QED BY <2>1, <2>2, <3>1 DEF AmType
  <2>3. CASE ~am[a].live
    BY <1>1, <2>1, <2>3
  <2> QED BY <2>2, <2>3
<1>5. /\ bm' \in [BindingManagers -> BmType \cup {Deleted}] /\ asked' \in [BindingManagers -> 0..1]
      /\ \A c \in BindingManagers : c # b => bm'[c] = bm[c] /\ asked'[c] = asked[c]
      /\ ~bm'[b].live /\ asked'[b] = 0
  BY <1>1, <1>2 DEF ManagersTyped
<1>6. ManagersTyped'
  BY <1>1, <1>4, <1>5 DEF ManagersTyped
<1>7. AskedRight'
  BY <1>5 DEF ManagersInv, AskedRight
<1>8. ASSUME NEW c \in BindingManagers, bm'[c].live, NEW side \in bm'[c].observables
      PROVE  /\ Binds[c][side] \in AutomatonManagers
             /\ am'[Binds[c][side]].live
             /\ <<c, side>> \in am'[Binds[c][side]].observers
  <2>1. c # b /\ bm'[c] = bm[c]
    BY <1>5, <1>8
  <2>2. bm[c] \in BmType
    BY <1>2, <1>8, <2>1, LiveManagers
  <2>3. side \in Sides
    BY <1>8, <2>1, <2>2 DEF BmType
  <2>4. /\ Binds[c][side] \in AutomatonManagers /\ am[Binds[c][side]].live
        /\ <<c, side>> \in am[Binds[c][side]].observers
    BY <1>8, <2>1 DEF ManagersInv, ObservesRight
  <2> QED BY <1>3, <1>4, <2>1, <2>3, <2>4
<1>9. ASSUME NEW a \in AutomatonManagers, am'[a].live, NEW c \in BindingManagers, NEW side \in Sides,
             <<c, side>> \in am'[a].observers
      PROVE  /\ ~am'[a].handle /\ bm'[c].live
             /\ side \in bm'[c].observables /\ Binds[c][side] = a
  <2>1. am[a].live /\ <<c, side>> \in am[a].observers /\ <<c, side>> \notin Mine
    BY <1>4, <1>9
  <2>2. ~am[a].handle /\ bm[c].live /\ side \in bm[c].observables /\ Binds[c][side] = a
    BY <2>1 DEF ManagersInv, ObserversRight
  <2>3. c # b
    BY <1>3, <2>1, <2>2
  <2> QED BY <1>4, <1>5, <2>1, <2>2, <2>3
<1> QED BY <1>6, <1>7, <1>8, <1>9 DEF ManagersInv, ObservesRight, ObserversRight

\* A new binding manager observes those whose handles are missing, and asks at once if
\* none is.
LEMMA BindingManagerMade ==
  ASSUME ManagersInv, NEW b \in BindingManagers, MakeBindingManager(b)
  PROVE  ManagersInv'
<1> DEFINE r == NewBindingManager(b)
           known == {side \in Sides : Known(side, b)}
           Mine(a) == {<<b, side>> : side \in {s \in r.observables : Binds[b][s] = a}}
<1>1. /\ ~bm[b].live /\ Referable(b)
      /\ bm' = [bm EXCEPT ![b] = r]
      /\ asked' = [asked EXCEPT ![b] = IF r.stage = "send" THEN 1 ELSE 0]
      /\ am' = [a \in AutomatonManagers |->
                  IF am[a].live THEN [am[a] EXCEPT !.observers = @ \cup Mine(a)] ELSE am[a]]
  BY DEF MakeBindingManager
<1>2. ManagersTyped /\ ~Deleted.live
  BY LiveManagers DEF ManagersInv
<1>3. /\ r \in BmType /\ r.live /\ r.handles = known /\ r.observables = Sides \ known
      /\ r.stage = IF known = Sides THEN "send" ELSE "none"
  BY DEF NewBindingManager, BmType, Stages
<1>4. \A a, c : \A side \in Sides :
        <<c, side>> \in Mine(a) <=> c = b /\ side \in r.observables /\ Binds[b][side] = a
  OBVIOUS
<1>5. \A a : Mine(a) \in SUBSET Observers
  BY <1>3 DEF BmType, Observers
<1>6. \A side \in r.observables :
        /\ side \in Sides /\ Binds[b][side] \in AutomatonManagers
        /\ am[Binds[b][side]].live /\ ~am[Binds[b][side]].handle
  <2> SUFFICES ASSUME NEW side \in r.observables
               PROVE  /\ side \in Sides /\ Binds[b][side] \in AutomatonManagers
                      /\ am[Binds[b][side]].live /\ ~am[Binds[b][side]].handle
    OBVIOUS
  <2>1. side \in Sides /\ ~Known(side, b)
    BY <1>3
  <2>2. Binds[b][side] # Self /\ ~am[Binds[b][side]].handle
    BY <2>1 DEF Known
  <2>3. Binds[b][side] \in AutomatonManagers
    BY <2>1, <2>2, ManagersAssumption DEF Sides
  <2>4. am[Binds[b][side]].live
    BY <1>1, <2>1, <2>2 DEF Referable
  <2> QED BY <2>1, <2>2, <2>3, <2>4
<1> HIDE DEF r, Mine, known
<1>7. ASSUME NEW a \in AutomatonManagers
      PROVE  /\ am'[a] \in AmType \cup {Deleted}
             /\ am'[a].live <=> am[a].live
             /\ am[a].live => am'[a].handle = am[a].handle /\ am'[a].observers = am[a].observers \cup Mine(a)
  <2>1. am[a] \in AmType \cup {Deleted} /\ (am[a].live => am[a] \in AmType)
    BY <1>2, LiveManagers DEF ManagersTyped
  <2>2. CASE am[a].live
    <3>1. am'[a] = [am[a] EXCEPT !.observers = am[a].observers \cup Mine(a)]
      BY <1>1, <2>2
    <3>2. am[a].observers \cup Mine(a) \in SUBSET Observers
      BY <1>5, <2>1, <2>2 DEF AmType
    <3> QED BY <2>1, <2>2, <3>1, <3>2 DEF AmType
  <2>3. CASE ~am[a].live
    BY <1>1, <2>1, <2>3
  <2> QED BY <2>2, <2>3
<1>8. /\ bm' \in [BindingManagers -> BmType \cup {Deleted}] /\ asked' \in [BindingManagers -> 0..1]
      /\ \A c \in BindingManagers : c # b => bm'[c] = bm[c] /\ asked'[c] = asked[c]
      /\ bm'[b] = r /\ asked'[b] = IF r.stage = "send" THEN 1 ELSE 0
  BY <1>1, <1>2, <1>3 DEF ManagersTyped
<1>9. ManagersTyped'
  BY <1>1, <1>7, <1>8 DEF ManagersTyped
<1>10. AskedRight'
  <2>1. r.handles \cap r.observables = {}
    BY <1>3
  <2>2. asked'[b] = 1 <=> r.handles = Sides
    BY <1>3, <1>8
  <2>3. asked'[b] = 1 <=> r.stage # "none"
    BY <1>3, <1>8
  <2>4. bm'[b] = r /\ r.live
    BY <1>3, <1>8
  <2> QED BY <1>8, <2>1, <2>2, <2>3, <2>4 DEF ManagersInv, AskedRight
<1>11. ASSUME NEW c \in BindingManagers, bm'[c].live, NEW side \in bm'[c].observables
       PROVE  /\ Binds[c][side] \in AutomatonManagers
              /\ am'[Binds[c][side]].live
              /\ <<c, side>> \in am'[Binds[c][side]].observers
  <2>1. CASE c = b
    BY <1>4, <1>6, <1>7, <1>8, <1>11, <2>1
  <2>2. CASE c # b
    <3>1. /\ Binds[c][side] \in AutomatonManagers /\ am[Binds[c][side]].live
          /\ <<c, side>> \in am[Binds[c][side]].observers
      BY <1>8, <1>11, <2>2 DEF ManagersInv, ObservesRight
    <3> QED BY <1>7, <3>1
  <2> QED BY <2>1, <2>2
<1>12. ASSUME NEW a \in AutomatonManagers, am'[a].live, NEW c \in BindingManagers, NEW side \in Sides,
              <<c, side>> \in am'[a].observers
       PROVE  /\ ~am'[a].handle /\ bm'[c].live
              /\ side \in bm'[c].observables /\ Binds[c][side] = a
  <2>1. am[a].live /\ am'[a].handle = am[a].handle
        /\ (<<c, side>> \in am[a].observers \/ <<c, side>> \in Mine(a))
    BY <1>7, <1>12
  <2>2. CASE <<c, side>> \in am[a].observers
    <3>1. ~am[a].handle /\ bm[c].live /\ side \in bm[c].observables /\ Binds[c][side] = a
      BY <2>1, <2>2 DEF ManagersInv, ObserversRight
    <3>2. c # b
      BY <1>1, <3>1
    <3> QED BY <1>8, <2>1, <3>1, <3>2
  <2>3. CASE <<c, side>> \in Mine(a)
    <3>1. c = b /\ side \in r.observables /\ Binds[b][side] = a
      BY <1>4, <2>3
    <3> QED BY <1>3, <1>6, <1>8, <2>1, <3>1
  <2> QED BY <2>1, <2>2, <2>3
<1> QED BY <1>9, <1>10, <1>11, <1>12 DEF ManagersInv, ObservesRight, ObserversRight

LEMMA ManagersInitInv == ManagersInit => ManagersInv
<1>1. ~Deleted.live
  BY DEF Deleted
<1> QED BY <1>1
       DEF ManagersInit, ManagersInv, ManagersTyped, AskedRight, ObservesRight, ObserversRight

LEMMA ManagersNextInv ==
  ManagersInv /\ [ManagersSteps \/ ManagersInputs]_managerVars => ManagersInv'
<1> SUFFICES ASSUME ManagersInv, [ManagersSteps \/ ManagersInputs]_managerVars PROVE ManagersInv'
  OBVIOUS
<1>1. \A a \in AutomatonManagers : am[a].live => am[a] \in AmType
  BY LiveManagers DEF ManagersInv
<1>2. \A b \in BindingManagers : bm[b].live => bm[b] \in BmType
  BY LiveManagers DEF ManagersInv
<1>3. CASE UNCHANGED managerVars
  BY <1>3 DEF managerVars, ManagersInv, ManagersTyped, AskedRight, ObservesRight, ObserversRight
<1>4. ASSUME NEW a \in AutomatonManagers, SendCreate(a) \/ SendDestroy(a) PROVE ManagersInv'
  <2> DEFINE s == IF SendCreate(a) THEN "recv" ELSE am[a].stage
             e == IF SendCreate(a) THEN am[a].ending ELSE "recv"
  <2>1. am[a].live /\ am[a] \in AmType /\ bm' = bm /\ asked' = asked
    BY <1>1, <1>4 DEF SendCreate, SendDestroy
  <2>2. s \in Stages \ {"none"} /\ e \in Stages \ {"done"}
    BY <2>1 DEF AmType, Stages
  <2>3. am' = [am EXCEPT ![a] = [@ EXCEPT !.stage = s, !.ending = e]]
    BY <1>4, <2>1 DEF AmType, SendCreate, SendDestroy
  <2> HIDE DEF s, e
  <2> QED BY <2>1, <2>2, <2>3, AutomatonManagerMoves
<1>5. ASSUME NEW a \in AutomatonManagers, Created(a) PROVE ManagersInv'
  BY <1>5, ManagerCreated
<1>6. ASSUME NEW a \in AutomatonManagers, InstanceExists(a) \/ Destroyed(a) PROVE ManagersInv'
  BY <1>6, ManagerDeleted DEF InstanceExists, Destroyed
<1>7. ASSUME NEW a \in AutomatonManagers, MakeAutomatonManager(a) PROVE ManagersInv'
  BY <1>7, ManagerMade
<1>8. ASSUME NEW a \in AutomatonManagers, DestroyManaged(a) PROVE ManagersInv'
  <2>1. CASE am[a].live /\ DeleteManager(a)
    BY <2>1, ManagerDeleted
  <2>2. CASE am[a].live /\ am' = [am EXCEPT ![a].ending = "send"] /\ UNCHANGED <<bm, asked>>
    <3>1. am[a] \in AmType
      BY <1>1, <2>2
    <3>2. am[a].stage \in Stages \ {"none"} /\ "send" \in Stages \ {"done"}
      BY <3>1 DEF AmType, Stages
    <3>3. am' = [am EXCEPT ![a] = [@ EXCEPT !.stage = am[a].stage, !.ending = "send"]]
      BY <2>2, <3>1 DEF AmType
    <3> QED BY <2>2, <3>2, <3>3, AutomatonManagerMoves
  <2> QED BY <1>8, <2>1, <2>2 DEF DestroyManaged
<1>9. ASSUME NEW b \in BindingManagers, SendBind(b) \/ Bound(b) \/ SendUnbind(b) PROVE ManagersInv'
  <2>1. bm[b].live /\ bm[b] \in BmType /\ bm[b].stage # "none" /\ am' = am /\ asked' = asked
    BY <1>2, <1>9 DEF SendBind, Bound, SendUnbind
  <2>2. \E t \in {"START", "BOUND"}, s \in Stages \ {"none"}, e \in Stages \ {"done"} :
          bm' = [bm EXCEPT ![b] = [@ EXCEPT !.state = t, !.stage = s, !.ending = e]]
    <3>1. CASE SendBind(b)
      <4>1. /\ bm[b].state \in {"START", "BOUND"} /\ "recv" \in Stages \ {"none"}
            /\ bm[b].ending \in Stages \ {"done"}
        BY <2>1 DEF BmType, Stages
      <4>2. bm' = [bm EXCEPT ![b] = [@ EXCEPT !.state = bm[b].state, !.stage = "recv",
                                              !.ending = bm[b].ending]]
        BY <2>1, <3>1 DEF BmType, SendBind
      <4> QED BY <4>1, <4>2
    <3>2. CASE Bound(b)
      <4>1. /\ "BOUND" \in {"START", "BOUND"} /\ "done" \in Stages \ {"none"}
            /\ bm[b].ending \in Stages \ {"done"}
        BY <2>1 DEF BmType, Stages
      <4>2. bm' = [bm EXCEPT ![b] = [@ EXCEPT !.state = "BOUND", !.stage = "done",
                                              !.ending = bm[b].ending]]
        BY <2>1, <3>2 DEF BmType, Bound
      <4> QED BY <4>1, <4>2
    <3>3. CASE SendUnbind(b)
      <4>1. /\ bm[b].state \in {"START", "BOUND"} /\ bm[b].stage \in Stages \ {"none"}
            /\ "recv" \in Stages \ {"done"}
        BY <2>1 DEF BmType, Stages
      <4>2. bm' = [bm EXCEPT ![b] = [@ EXCEPT !.state = bm[b].state, !.stage = bm[b].stage,
                                              !.ending = "recv"]]
        BY <2>1, <3>3 DEF BmType, SendUnbind
      <4> QED BY <4>1, <4>2
    <3> QED BY <1>9, <3>1, <3>2, <3>3
  <2> QED BY <2>1, <2>2, BindingManagerMoves
<1>10. ASSUME NEW b \in BindingManagers, BindFails(b) \/ Unbound(b) PROVE ManagersInv'
  BY <1>10, BindingManagerDeleted DEF BindFails, Unbound
<1>11. ASSUME NEW b \in BindingManagers, MakeBindingManager(b) PROVE ManagersInv'
  BY <1>11, BindingManagerMade
<1>12. ASSUME NEW b \in BindingManagers, UnbindManaged(b) PROVE ManagersInv'
  <2>1. CASE bm[b].live /\ DeleteBindingManager(b)
    BY <2>1, BindingManagerDeleted
  <2>2. CASE bm[b].live /\ bm[b].handles = Sides /\ bm' = [bm EXCEPT ![b].ending = "send"]
             /\ UNCHANGED <<am, asked>>
    <3>1. bm[b] \in BmType
      BY <1>2, <2>2
    <3>2. bm[b].stage # "none"
      BY <2>2 DEF ManagersInv, AskedRight
    <3>3. /\ bm[b].stage \in Stages \ {"none"} /\ "send" \in Stages \ {"done"}
          /\ bm[b].state \in {"START", "BOUND"}
      BY <3>1, <3>2 DEF BmType, Stages
    <3>4. bm' = [bm EXCEPT ![b] = [@ EXCEPT !.state = bm[b].state, !.stage = bm[b].stage,
                                            !.ending = "send"]]
      BY <2>2, <3>1 DEF BmType
    <3>5. \E t \in {"START", "BOUND"}, s \in Stages \ {"none"}, e \in Stages \ {"done"} :
            bm' = [bm EXCEPT ![b] = [@ EXCEPT !.state = t, !.stage = s, !.ending = e]]
      BY <3>3, <3>4
    <3>6. bm[b].live /\ am' = am /\ asked' = asked
      BY <2>2
    <3> QED BY <3>2, <3>5, <3>6, BindingManagerMoves
  <2> QED BY <1>12, <2>1, <2>2 DEF UnbindManaged
<1> QED
  BY <1>3, <1>4, <1>5, <1>6, <1>7, <1>8, <1>9, <1>10, <1>11, <1>12
     DEF ManagersSteps, ManagersInputs

(* Whatever order answers, removals and notifications come in: a binding   *)
(* manager asks to bind once, when it has both handles, and the lists of   *)
(* observers and of what they observe say the same, of live helpers only.  *)
THEOREM ObserversNeverDangle ==
  ManagersSpec => [](ManagersTypeOK /\ AsksToBindOnce /\ ObserversAgree)
BY ManagersInitInv, ManagersNextInv, ManagersInvMeans, PTL DEF ManagersSpec
-----------------------------------------------------------------------------
(* The automaton of TcpRing. *)

SlotType ==
  [life : {"asked", "created", "ending"}, bound : BOOLEAN, fd : Listeners \cup {Null, "held"},
   told : SUBSET {"connected", "error"}, outstanding : 0..2]

RingType ==
  [half : DOMAIN Halves, aborted : {"no", "link"}, garbage : BOOLEAN,
   acceptor : Listeners \cup {Null}, predecessor : Links \cup {Null}, acceptFlag : BOOLEAN,
   successor : Links \cup {Null}, connector : Listeners \cup {Null},
   successorConnected : BOOLEAN, clearToSend : BOOLEAN,
   send : 0..MaxMessages, recv : 0..MaxMessages, receiveBound : BOOLEAN]

RingTyped ==
  /\ ring \in RingType
  /\ managed \in [Slots -> SlotType \cup {Unused}]

Referred(r) == {r.acceptor, r.predecessor, r.successor, r.connector}

\* Each half has its own two managers, and the managers that are referred to are those
\* that were not asked to destroy their automaton.
RefersRight ==
  /\ ring.half = "accepting" => ring.successor = Null /\ ring.connector = Null
  /\ ring.half = "connecting" => ring.acceptor = Null /\ ring.predecessor = Null
  /\ \A s \in Slots : managed[s].life \in {"asked", "created"} <=> s \in Referred(ring)

Failed(s) == "error" \in managed[s].told

\* A retry is queued only for an acceptor or connector that reported its failure.
RetryRight ==
  /\ Plain("retry_acceptor") \in ringSched => ring.acceptor # Null /\ Failed(ring.acceptor)
  /\ Plain("retry_connector") \in ringSched => ring.connector # Null /\ Failed(ring.connector)

\* Who has been asked to hand a descriptor to the connection t.
Expects(t, s) == managed[t] # Unused /\ managed[t].fd = s

\* An acceptor that is being destroyed has failed; a connector that is being destroyed
\* has failed or handed over what it had.  A connector serves the successor only, and
\* is there, without a failure, once the successor has its descriptor.
HandOverRight ==
  /\ \A s \in Listeners, t \in Links : managed[s] = Unused => ~Expects(t, s)
  /\ ring.half = "accepting" =>
       \A s \in Listeners : managed[s].life = "ending" => Failed(s)
  /\ ring.half = "connecting" =>
       /\ \A s \in Listeners : managed[s].life = "ending" =>
            Failed(s) \/ \A t \in Links : ~Expects(t, s)
       /\ \A t \in Links : ring.connector # Null /\ Expects(t, ring.connector) => t = ring.successor
       /\ ring.successor # Null /\ managed[ring.successor].fd = "held" =>
            ring.connector # Null /\ ~Failed(ring.connector)

\* One message more than allowed can be under way only if the flags were undefined.
Extra == IF ring.garbage THEN 1 ELSE 0

SendsRight ==
  /\ \A s \in Links : managed[s] # Unused => managed[s].outstanding <= 1 + Extra
  /\ ring.successor = Null => (ring.successorConnected => ring.garbage)
  /\ ring.successor # Null =>
       LET out == managed[ring.successor].outstanding IN
       IF "connected" \in managed[ring.successor].told
       THEN ring.clearToSend => out <= Extra
       ELSE IF ring.successorConnected
       THEN ring.garbage /\ out <= 1 /\ (ring.clearToSend => out = 0)
       ELSE out = 0

\* Each half queues what makes its own managers.
HalfRight ==
  /\ Plain("create_acceptor") \in ringSched => ring.half = "accepting"
  /\ Plain("create_predecessor") \in ringSched => ring.half = "accepting"
  /\ Plain("create_successor") \in ringSched => ring.half = "connecting"

RingInv == RingTyped /\ RefersRight /\ RetryRight /\ HandOverRight /\ SendsRight
             /\ HalfRight /\ RingEnabledScheduled

LEMMA SlotNames ==
  /\ Null \notin Slots /\ "held" \notin Slots
  /\ Null \notin Listeners /\ "held" \notin Listeners /\ Null # "held"
  /\ Null \notin Links /\ "held" \notin Links
  /\ \A s : ~(s \in Listeners /\ s \in Links)
  /\ \A s : s \in Slots <=> s \in Listeners \/ s \in Links
BY RingAssumption DEF Null, Slots

LEMMA SlotKinds ==
  ASSUME RingTyped
  PROVE  /\ \A s \in Slots : managed[s] # Unused => managed[s] \in SlotType
         /\ \A s \in Slots : managed[s] = Unused <=> managed[s].life = "unused"
         /\ \A s \in Slots : managed[s].life \in {"asked", "created", "ending"} => managed[s] \in SlotType
         /\ NewManager \in SlotType
<1>1. \A s \in Slots : managed[s] \in SlotType \/ managed[s] = Unused
  BY DEF RingTyped
<1>2. Unused.life = "unused"
  BY DEF Unused
<1>3. \A x \in SlotType : x.life \in {"asked", "created", "ending"}
  BY DEF SlotType
<1>4. NewManager \in SlotType
  BY DEF NewManager, SlotType
<1> QED BY <1>1, <1>2, <1>3, <1>4

\* The preconditions, name by name.
LEMMA Preconditions ==
  ASSUME NEW s, NEW r, NEW m
  PROVE  /\ RingPrecondition(<<"create_acceptor", s>>, r, m) <=> r.acceptor = Null
         /\ RingPrecondition(<<"create_predecessor", s>>, r, m) <=> r.predecessor = Null
         /\ RingPrecondition(<<"create_successor", s>>, r, m) <=> r.successor = Null
         /\ RingPrecondition(<<"accept", s>>, r, m) <=>
              s = r.acceptor /\ ~r.acceptFlag /\ Is(m, r.predecessor, "created") /\ s # Null /\ m[s].bound
         /\ RingPrecondition(<<"connect", s>>, r, m) <=> r.connector = Null /\ Is(m, r.successor, "created")
         /\ RingPrecondition(<<"send_successor", s>>, r, m) <=>
              /\ s = r.successor /\ r.successorConnected /\ r.clearToSend /\ r.send > 0
              /\ s # Null /\ m[s].bound
         /\ RingPrecondition(<<"receive", s>>, r, m) <=> r.recv > 0 /\ r.receiveBound
         /\ RingPrecondition(<<"retry_acceptor", s>>, r, m) <=> r.acceptor # Null
         /\ RingPrecondition(<<"retry_connector", s>>, r, m) <=> r.connector # Null
BY DEF RingPrecondition

\* What schedule() queues, action by action.
LEMMA ScheduleMeans ==
  ASSUME NEW r, r.half \in DOMAIN Halves, NEW m, NEW a
  PROVE  a \in RingSchedule(r, m) <=>
           \/ /\ r.half = "accepting"
              /\ \/ a = Plain("create_acceptor") /\ r.acceptor = Null
                 \/ a = Plain("create_predecessor") /\ r.predecessor = Null
                 \/ /\ a = <<"accept", r.acceptor>> /\ ~r.acceptFlag
                    /\ Is(m, r.predecessor, "created") /\ r.acceptor # Null /\ m[r.acceptor].bound
                 \/ a = Plain("receive") /\ r.recv > 0 /\ r.receiveBound
           \/ /\ r.half = "connecting"
              /\ \/ a = Plain("create_successor") /\ r.successor = Null
                 \/ a = Plain("connect") /\ r.connector = Null /\ Is(m, r.successor, "created")
                 \/ /\ a = <<"send_successor", r.successor>> /\ r.successorConnected
                    /\ r.clearToSend /\ r.send > 0 /\ r.successor # Null /\ m[r.successor].bound
<1>1. DOMAIN Halves = {"accepting", "connecting"}
  BY DEF Halves
<1>2. /\ Halves["accepting"] = {"create_acceptor", "create_predecessor", "accept", "receive"}
      /\ Halves["connecting"] = {"create_successor", "connect", "send_successor"}
  BY DEF Halves
<1>3. /\ Parameter("create_acceptor", r) = Null /\ Parameter("create_predecessor", r) = Null
      /\ Parameter("accept", r) = r.acceptor /\ Parameter("receive", r) = Null
      /\ Parameter("create_successor", r) = Null /\ Parameter("connect", r) = Null
      /\ Parameter("send_successor", r) = r.successor
  BY DEF Parameter
<1>4. a \in RingSchedule(r, m) <=>
        \E name \in Halves[r.half] : a = <<name, Parameter(name, r)>> /\ RingPrecondition(a, r, m)
  BY DEF RingSchedule
<1>5. CASE r.half = "accepting"
  <2>1. a \in RingSchedule(r, m) <=>
          \/ a = Plain("create_acceptor") /\ RingPrecondition(a, r, m)
          \/ a = Plain("create_predecessor") /\ RingPrecondition(a, r, m)
          \/ a = <<"accept", r.acceptor>> /\ RingPrecondition(a, r, m)
          \/ a = Plain("receive") /\ RingPrecondition(a, r, m)
    BY <1>2, <1>3, <1>4, <1>5 DEF Plain
  <2>2. /\ RingPrecondition(Plain("create_acceptor"), r, m) <=> r.acceptor = Null
        /\ RingPrecondition(Plain("create_predecessor"), r, m) <=> r.predecessor = Null
        /\ RingPrecondition(Plain("receive"), r, m) <=> r.recv > 0 /\ r.receiveBound
    BY Preconditions DEF Plain
  <2>3. RingPrecondition(<<"accept", r.acceptor>>, r, m) <=>
          /\ ~r.acceptFlag
          /\ Is(m, r.predecessor, "created") /\ r.acceptor # Null /\ m[r.acceptor].bound
    BY Preconditions
  <2>4. r.half # "connecting"
    BY <1>5
  <2> QED BY <1>5, <2>1, <2>2, <2>3, <2>4
<1>6. CASE r.half = "connecting"
  <2>1. a \in RingSchedule(r, m) <=>
          \/ a = Plain("create_successor") /\ RingPrecondition(a, r, m)
          \/ a = Plain("connect") /\ RingPrecondition(a, r, m)
          \/ a = <<"send_successor", r.successor>> /\ RingPrecondition(a, r, m)
    BY <1>2, <1>3, <1>4, <1>6 DEF Plain
  <2>2. RingPrecondition(Plain("create_successor"), r, m) <=> r.successor = Null
    BY Preconditions DEF Plain
  <2>3. RingPrecondition(Plain("connect"), r, m) <=>
          r.connector = Null /\ Is(m, r.successor, "created")
    BY Preconditions DEF Plain
  <2>4. RingPrecondition(<<"send_successor", r.successor>>, r, m) <=>
          /\ r.successorConnected
          /\ r.clearToSend /\ r.send > 0 /\ r.successor # Null /\ m[r.successor].bound
    BY Preconditions
  <2>5. r.half # "accepting"
    BY <1>6
  <2> QED BY <1>6, <2>1, <2>2, <2>3, <2>4, <2>5
<1> QED BY <1>1, <1>5, <1>6

\* The retries are not among it, and what makes managers only for its own half.
LEMMA NoRetryScheduled ==
  ASSUME NEW r, r.half \in DOMAIN Halves, NEW m
  PROVE  /\ Plain("retry_acceptor") \notin RingSchedule(r, m)
         /\ Plain("retry_connector") \notin RingSchedule(r, m)
         /\ Plain("create_acceptor") \in RingSchedule(r, m) => r.half = "accepting"
         /\ Plain("create_predecessor") \in RingSchedule(r, m) => r.half = "accepting"
         /\ Plain("create_successor") \in RingSchedule(r, m) => r.half = "connecting"
BY ScheduleMeans DEF Plain

\* What a step may queue besides retries: schedule(), a new binding, a lost one.
Queued ==
  \A a \in ringSched' :
    \/ a \in ringSched \/ a \in RingSchedule(ring, managed)' \/ a = Plain("receive")
    \/ \E s : a = OutputTo(s)

LEMMA QueueKeeps ==
  ASSUME RingInv, RingTyped', ring'.half = ring.half, Queued
  PROVE  /\ HalfRight'
         /\ Plain("retry_acceptor") \in ringSched' => Plain("retry_acceptor") \in ringSched
         /\ Plain("retry_connector") \in ringSched' => Plain("retry_connector") \in ringSched
<1>1. \A name \in {"create_acceptor", "create_predecessor", "create_successor",
                   "retry_acceptor", "retry_connector"} :
        Plain(name) # Plain("receive") /\ \A s : Plain(name) # OutputTo(s)
  BY DEF Plain, OutputTo
<1>2. ring'.half \in DOMAIN Halves
  BY DEF RingTyped, RingType
<1>3. /\ Plain("retry_acceptor") \notin RingSchedule(ring', managed')
      /\ Plain("retry_connector") \notin RingSchedule(ring', managed')
      /\ Plain("create_acceptor") \in RingSchedule(ring', managed') => ring'.half = "accepting"
      /\ Plain("create_predecessor") \in RingSchedule(ring', managed') => ring'.half = "accepting"
      /\ Plain("create_successor") \in RingSchedule(ring', managed') => ring'.half = "connecting"
  BY <1>2, NoRetryScheduled
<1>4. RingSchedule(ring, managed)' = RingSchedule(ring', managed')
  BY DEF RingSchedule, RingPrecondition, Parameter, Is
<1>5. \A name \in {"create_acceptor", "create_predecessor", "create_successor",
                   "retry_acceptor", "retry_connector"} :
        Plain(name) \in ringSched' =>
          Plain(name) \in ringSched \/ Plain(name) \in RingSchedule(ring', managed')
  BY <1>1, <1>4 DEF Queued
<1>6. HalfRight
  BY DEF RingInv
<1> QED BY <1>3, <1>5, <1>6 DEF HalfRight

\* schedule() at the end of a handler queues what is enabled.
LEMMA HandlerSchedules ==
  ASSUME NEW r, NEW m, NEW a, RingHandler(a, r, m)
  PROVE  ring' = r /\ managed' = m /\ Queued /\ RingEnabledScheduled'
         /\ (a \notin RingSchedule(r, m) => a \notin ringSched')
<1>1. ring' = r /\ managed' = m /\ ringSched' = (ringSched \ {a}) \cup RingSchedule(r, m)
  BY DEF RingHandler
<1> QED BY <1>1 DEF RingEnabledScheduled, Queued

\* A step that changes nothing of whom the automaton refers to, of what becomes of
\* the managers, and of who has or expects a descriptor.
SameManaged ==
  /\ ring'.half = ring.half
  /\ ring'.acceptor = ring.acceptor /\ ring'.predecessor = ring.predecessor
  /\ ring'.successor = ring.successor /\ ring'.connector = ring.connector
  /\ \A s \in Slots :
       /\ \/ managed'[s].life = managed[s].life
          \/ managed[s].life = "asked" /\ managed'[s].life = "created"
       /\ managed[s] # Unused => managed'[s].fd = managed[s].fd
       /\ s \in Listeners /\ managed[s] # Unused => managed'[s].told = managed[s].told

LEMMA SameManagedKeeps ==
  ASSUME RingInv, RingTyped', SameManaged
  PROVE  RefersRight' /\ HandOverRight'
         /\ \A s \in Slots : managed'[s] = Unused <=> managed[s] = Unused
<1>1. \A s \in Slots : managed'[s] = Unused <=> managed[s] = Unused
  <2>1. \A s \in Slots : managed[s] = Unused <=> managed[s].life = "unused"
    BY SlotKinds DEF RingInv
  <2>2. \A s \in Slots : managed'[s] = Unused <=> managed'[s].life = "unused"
    <3>1. \A s \in Slots : managed'[s] \in SlotType \/ managed'[s] = Unused
      BY DEF RingTyped
    <3>2. \A x \in SlotType : x.life # "unused"
      BY DEF SlotType
    <3> QED BY <3>1, <3>2 DEF Unused
  <2> QED BY <2>1, <2>2 DEF SameManaged
<1>2. RefersRight'
  <2>1. \A s \in Slots : managed'[s].life \in {"asked", "created"}
                           <=> managed[s].life \in {"asked", "created"}
    BY DEF SameManaged
  <2> QED BY <2>1 DEF RingInv, RefersRight, Referred, SameManaged
<1>3. \A s \in Slots : managed'[s].life = "ending" <=> managed[s].life = "ending"
  BY DEF SameManaged
<1>4. \A s \in Listeners : managed[s].life = "ending" => (Failed(s)' <=> Failed(s))
  <2>1. \A s \in Slots : managed[s].life = "ending" => managed[s] # Unused
    BY DEF Unused
  <2> QED BY <2>1, SlotNames DEF SameManaged, Failed
<1>5. \A t \in Links : \A s : Expects(t, s)' <=> Expects(t, s)
  BY <1>1, SlotNames DEF SameManaged, Expects
<1>6. ring.half = "connecting" /\ ring.connector # Null => (Failed(ring.connector)' <=> Failed(ring.connector))
  <2> SUFFICES ASSUME ring.half = "connecting", ring.connector # Null
               PROVE  Failed(ring.connector)' <=> Failed(ring.connector)
    OBVIOUS
  <2>1. ring.connector \in Listeners
    BY DEF RingInv, RingTyped, RingType
  <2>2. managed[ring.connector].life \in {"asked", "created"}
    BY <2>1, SlotNames DEF RingInv, RefersRight, Referred
  <2>3. managed[ring.connector] # Unused
    BY <2>2 DEF Unused
  <2>4. managed'[ring.connector].told = managed[ring.connector].told
    BY <2>1, <2>3, SlotNames DEF SameManaged
  <2> QED BY <2>4 DEF SameManaged, Failed
<1>7. ring.successor # Null => managed'[ring.successor].fd = managed[ring.successor].fd
  <2>1. ring.successor # Null => ring.successor \in Links /\ ring.successor \in Slots
    BY SlotNames DEF RingInv, RingTyped, RingType
  <2>2. ring.successor # Null => managed[ring.successor].life \in {"asked", "created"}
    BY <2>1 DEF RingInv, RefersRight, Referred
  <2> QED BY <2>1, <2>2 DEF SameManaged, Unused
<1>8. HandOverRight'
  BY <1>1, <1>3, <1>4, <1>5, <1>6, <1>7, SlotNames DEF RingInv, HandOverRight, SameManaged
<1> QED BY <1>1, <1>2, <1>8

\* A step that neither sends, nor completes, nor connects, nor replaces the successor.
SameSends ==
  /\ ring'.successor = ring.successor /\ ring'.successorConnected = ring.successorConnected
  /\ ring'.clearToSend = ring.clearToSend /\ ring'.garbage = ring.garbage
  /\ \A s \in Links : managed'[s] # Unused =>
       \/ managed[s] # Unused /\ managed'[s].outstanding = managed[s].outstanding
       \/ managed'[s].outstanding = 0
  /\ ring.successor # Null =>
       /\ managed'[ring.successor].outstanding = managed[ring.successor].outstanding
       /\ managed'[ring.successor].told = managed[ring.successor].told

LEMMA SameSendsKeeps ==
  ASSUME RingInv, RingTyped', SameSends
  PROVE  SendsRight'
<1>1. Extra' = Extra /\ Extra \in 0..1
  BY DEF Extra, SameSends
<1>2. \A s \in Links : managed'[s] # Unused => managed'[s].outstanding <= 1 + Extra'
  <2>1. \A s \in Links : managed[s] # Unused => managed[s].outstanding <= 1 + Extra
    BY DEF RingInv, SendsRight
  <2> QED BY <1>1, <2>1 DEF SameSends
<1>3. ring.successor = Null => (ring'.successorConnected => ring'.garbage)
  BY DEF RingInv, SendsRight, SameSends
<1>4. ring.successor # Null =>
       LET out == managed'[ring.successor].outstanding IN
       IF "connected" \in managed'[ring.successor].told
       THEN ring'.clearToSend => out <= Extra'
       ELSE IF ring'.successorConnected
       THEN ring'.garbage /\ out <= 1 /\ (ring'.clearToSend => out = 0)
       ELSE out = 0
  BY <1>1 DEF RingInv, SendsRight, SameSends
<1> QED BY <1>2, <1>3, <1>4 DEF SendsRight, SameSends

\* Who is referred to, and of what kind.
LEMMA ReferredKinds ==
  ASSUME RingInv
  PROVE  /\ ring.acceptor # Null => ring.acceptor \in Listeners
         /\ ring.connector # Null => ring.connector \in Listeners
         /\ ring.predecessor # Null => ring.predecessor \in Links
         /\ ring.successor # Null => ring.successor \in Links
         /\ \A s \in Slots : s \in Referred(ring) =>
              managed[s] # Unused /\ managed[s] \in SlotType /\ managed[s].life # "ending"
         /\ \A s \in Listeners : s \in Referred(ring) <=> s \in {ring.acceptor, ring.connector}
         /\ \A s \in Links : s \in Referred(ring) <=> s \in {ring.predecessor, ring.successor}
<1>1. ring \in RingType
  BY DEF RingInv, RingTyped
<1>2. /\ ring.acceptor # Null => ring.acceptor \in Listeners
      /\ ring.connector # Null => ring.connector \in Listeners
      /\ ring.predecessor # Null => ring.predecessor \in Links
      /\ ring.successor # Null => ring.successor \in Links
  BY <1>1 DEF RingType
<1>3. \A s \in Slots : s \in Referred(ring) => managed[s].life \in {"asked", "created"}
  BY DEF RingInv, RefersRight
<1>4. \A s \in Slots : s \in Referred(ring) =>
        managed[s] # Unused /\ managed[s] \in SlotType /\ managed[s].life # "ending"
  <2>1. Unused.life = "unused"
    BY DEF Unused
  <2> QED BY <1>3, <2>1, SlotKinds DEF RingInv
<1>5. \A s \in Listeners : s \in Referred(ring) <=> s \in {ring.acceptor, ring.connector}
  BY <1>2, SlotNames DEF Referred
<1>6. \A s \in Links : s \in Referred(ring) <=> s \in {ring.predecessor, ring.successor}
  BY <1>2, SlotNames DEF Referred
<1> QED BY <1>2, <1>4, <1>5, <1>6

\* Retries go on waiting for whom they wait.
LEMMA SameRetries ==
  ASSUME RingInv, RingTyped',
         Plain("retry_acceptor") \in ringSched' => Plain("retry_acceptor") \in ringSched,
         Plain("retry_connector") \in ringSched' => Plain("retry_connector") \in ringSched,
         ring'.acceptor = ring.acceptor, ring'.connector = ring.connector,
         \A s \in Listeners : managed[s] # Unused => managed'[s].told = managed[s].told
  PROVE  RetryRight'
<1>1. ring.acceptor # Null => managed'[ring.acceptor].told = managed[ring.acceptor].told
  <2>1. ring.acceptor # Null => ring.acceptor \in Listeners /\ managed[ring.acceptor] # Unused
    BY ReferredKinds, SlotNames DEF Referred
  <2> QED BY <2>1
<1>2. ring.connector # Null => managed'[ring.connector].told = managed[ring.connector].told
  <2>1. ring.connector # Null => ring.connector \in Listeners /\ managed[ring.connector] # Unused
    BY ReferredKinds, SlotNames DEF Referred
  <2> QED BY <2>1
<1> QED BY <1>1, <1>2 DEF RingInv, RetryRight, Failed

LEMMA QuietStep ==
  ASSUME RingInv, RingTyped', SameManaged, SameSends, Queued, RingEnabledScheduled'
  PROVE  RingInv'
<1>1. RefersRight' /\ HandOverRight'
  BY SameManagedKeeps
<1>2. SendsRight'
  BY SameSendsKeeps
<1>3. /\ HalfRight'
      /\ Plain("retry_acceptor") \in ringSched' => Plain("retry_acceptor") \in ringSched
      /\ Plain("retry_connector") \in ringSched' => Plain("retry_connector") \in ringSched
  BY QueueKeeps DEF SameManaged
<1>4. \A s \in Listeners : managed[s] # Unused => managed'[s].told = managed[s].told
  BY SlotNames DEF SameManaged
<1>5. RetryRight'
  BY <1>3, <1>4, SameRetries DEF SameManaged
<1> QED BY <1>1, <1>2, <1>3, <1>5 DEF RingInv

LEMMA RingInitInv == RingInit => RingInv
<1> SUFFICES ASSUME RingInit PROVE RingInv
  OBVIOUS
<1>1. PICK half \in DOMAIN Halves, accepted \in BOOLEAN, connected \in BOOLEAN, clear \in BOOLEAN :
        ring = [half |-> half, aborted |-> "no", garbage |-> connected,
                acceptor |-> Null, predecessor |-> Null, acceptFlag |-> accepted,
                successor |-> Null, connector |-> Null,
                successorConnected |-> connected, clearToSend |-> clear,
                send |-> 0, recv |-> 0, receiveBound |-> FALSE]
  BY ZenonT(40) DEF RingInit
<1>2. managed = [s \in Slots |-> Unused] /\ ringSched = RingSchedule(ring, managed)
  BY DEF RingInit
<1>3. ring \in RingType
  BY <1>1, RingAssumption DEF RingType
<1>4. RingTyped
  BY <1>2, <1>3 DEF RingTyped
<1>5. /\ ring.acceptor = Null /\ ring.predecessor = Null /\ ring.successor = Null
      /\ ring.connector = Null /\ (ring.successorConnected <=> ring.garbage)
      /\ ring.half \in DOMAIN Halves
  BY <1>1
<1>6. \A s \in Slots : managed[s] = Unused /\ managed[s].life = "unused"
  BY <1>2 DEF Unused
<1>7. RefersRight
  BY <1>5, <1>6, SlotNames DEF RefersRight, Referred
<1>8. RetryRight
  BY <1>2, <1>5, NoRetryScheduled DEF RetryRight
<1>11. HalfRight
  BY <1>2, <1>5, NoRetryScheduled DEF HalfRight
<1>9. HandOverRight
  BY <1>5, <1>6, SlotNames DEF HandOverRight, Expects
<1>10. SendsRight
  BY <1>5, <1>6, SlotNames DEF SendsRight
<1> QED BY <1>2, <1>4, <1>7, <1>8, <1>9, <1>10, <1>11 DEF RingInv, RingEnabledScheduled

LEMMA QuietHandler ==
  ASSUME RingInv, NEW r \in RingType, NEW m \in [Slots -> SlotType \cup {Unused}], NEW a,
         RingHandler(a, r, m), SameManaged, SameSends
  PROVE  RingInv'
<1>1. ring' = r /\ managed' = m /\ Queued /\ RingEnabledScheduled'
  BY HandlerSchedules
<1>2. RingTyped'
  BY <1>1 DEF RingTyped
<1> QED BY <1>1, <1>2, QuietStep

\* A report of a connection that was replaced ends the program.
LEMMA AbortKeeps ==
  ASSUME RingInv, Abort("link")
  PROVE  RingInv'
<1>1. ring' = [ring EXCEPT !.aborted = "link"] /\ managed' = managed /\ ringSched' = ringSched
  BY DEF Abort
<1>2. ring \in RingType
  BY DEF RingInv, RingTyped
<1>3. ring' \in RingType /\ ring'.aborted = "link"
  BY <1>1, <1>2 DEF RingType
<1>4. /\ ring'.half = ring.half /\ ring'.acceptor = ring.acceptor
      /\ ring'.predecessor = ring.predecessor /\ ring'.successor = ring.successor
      /\ ring'.connector = ring.connector /\ ring'.successorConnected = ring.successorConnected
      /\ ring'.clearToSend = ring.clearToSend /\ ring'.garbage = ring.garbage
  BY <1>1, <1>2 DEF RingType
<1>5. RingTyped'
  BY <1>1, <1>3 DEF RingInv, RingTyped
<1>6. SameManaged
  BY <1>1, <1>4 DEF SameManaged
<1>7. SameSends
  BY <1>1, <1>4 DEF SameSends
<1>8. Queued
  BY <1>1 DEF Queued
<1>9. RingEnabledScheduled'
  BY <1>3 DEF RingEnabledScheduled, RingRunning
<1> QED BY <1>5, <1>6, <1>7, <1>8, <1>9, QuietStep

\* A handler that changes none of the members that matter here, and no manager.
LEMMA MembersOnly ==
  ASSUME RingInv, NEW r \in RingType, NEW a, RingHandler(a, r, managed),
         r.half = ring.half, r.acceptor = ring.acceptor, r.predecessor = ring.predecessor,
         r.successor = ring.successor, r.connector = ring.connector,
         r.successorConnected = ring.successorConnected, r.clearToSend = ring.clearToSend,
         r.garbage = ring.garbage
  PROVE  RingInv'
<1>1. managed \in [Slots -> SlotType \cup {Unused}]
  BY DEF RingInv, RingTyped
<1>2. ring' = r /\ managed' = managed
  BY HandlerSchedules
<1>3. SameManaged
  BY <1>2 DEF SameManaged
<1>4. SameSends
  BY <1>2 DEF SameSends
<1> QED BY <1>1, <1>3, <1>4, QuietHandler

\* A report of a connection that is noted and changes nothing else.
LEMMA ToldTyped ==
  ASSUME RingInv, NEW s \in Slots, managed[s].life \in {"created", "ending"},
         NEW e \in {"connected", "error"}
  PROVE  /\ managed[s] # Unused /\ managed[s] \in SlotType
         /\ Told(s, e) \in [Slots -> SlotType \cup {Unused}]
         /\ Told(s, e)[s].life = managed[s].life /\ Told(s, e)[s].bound = managed[s].bound
         /\ Told(s, e)[s].fd = managed[s].fd
         /\ Told(s, e)[s].outstanding = managed[s].outstanding
         /\ Told(s, e)[s].told = managed[s].told \cup {e}
         /\ Told(s, e)[s] # Unused
         /\ \A t \in Slots : t # s => Told(s, e)[t] = managed[t]
<1>1. managed \in [Slots -> SlotType \cup {Unused}]
  BY DEF RingInv, RingTyped
<1>2. managed[s] # Unused /\ managed[s] \in SlotType
  BY SlotKinds DEF RingInv, Unused
<1> DEFINE x == [managed[s] EXCEPT !.told = managed[s].told \cup {e}]
<1>4. x \in SlotType /\ x.life = managed[s].life /\ x.fd = managed[s].fd /\ x.bound = managed[s].bound
      /\ x.outstanding = managed[s].outstanding /\ x.told = managed[s].told \cup {e}
  BY <1>2 DEF SlotType
<1>5. Told(s, e) = [managed EXCEPT ![s] = x]
  BY <1>1, <1>2 DEF Told, SlotType
<1>6. x # Unused
  BY <1>4, SlotKinds DEF RingInv, Unused
<1> HIDE DEF x
<1> QED BY <1>1, <1>2, <1>4, <1>5, <1>6

LEMMA PredecessorConnectedKeeps ==
  ASSUME RingInv, NEW s \in Links, PredecessorConnected(s)
  PROVE  RingInv'
<1>1. CASE s # ring.predecessor
  BY <1>1, AbortKeeps DEF PredecessorConnected
<1>2. CASE s = ring.predecessor
  <2>1. /\ ring.half = "accepting" /\ managed[s].life \in {"created", "ending"}
        /\ RingHandler(Input, ring, Told(s, "connected")) /\ s \in Slots
    BY <1>2, SlotNames DEF PredecessorConnected, Reports
  <2>2. ring' = ring /\ managed' = Told(s, "connected") /\ ring \in RingType
    BY <2>1, HandlerSchedules DEF RingInv, RingTyped
  <2>3. SameManaged
    BY <2>1, <2>2, ToldTyped, SlotNames DEF SameManaged
  <2>4. ring.successor = Null
    BY <2>1 DEF RingInv, RefersRight
  <2>5. SameSends
    BY <2>1, <2>2, <2>4, ToldTyped, SlotNames DEF SameSends
  <2> QED BY <2>1, <2>2, <2>3, <2>5, ToldTyped, QuietHandler
<1> QED BY <1>1, <1>2

LEMMA RingQuietSteps ==
  ASSUME RingInv,
         \/ ReceiveOutput \/ SendInputOfRing \/ \E s \in Links : ReceivePredecessor(s)
  PROVE  RingInv'
<1>1. ring \in RingType
  BY DEF RingInv, RingTyped
<1>2. CASE ReceiveOutput
  <2> DEFINE r == [ring EXCEPT !.recv = @ - 1]
  <2>1. RingHandler(Plain("receive"), r, managed) /\ ring.recv > 0
    BY <1>2, Preconditions DEF ReceiveOutput, RingRuns, Plain
  <2>2. /\ r \in RingType /\ r.half = ring.half /\ r.acceptor = ring.acceptor
        /\ r.predecessor = ring.predecessor
        /\ r.successor = ring.successor /\ r.connector = ring.connector
        /\ r.successorConnected = ring.successorConnected /\ r.clearToSend = ring.clearToSend
        /\ r.garbage = ring.garbage
    BY <1>1, <2>1, RingAssumption DEF RingType
  <2> HIDE DEF r
  <2> QED BY <2>1, <2>2, MembersOnly
<1>3. CASE SendInputOfRing
  <2> DEFINE r == [ring EXCEPT !.send = IF ring.successorConnected THEN @ + 1 ELSE @]
  <2>1. RingHandler(Input, r, managed) /\ ring.send < MaxMessages
    BY <1>3 DEF SendInputOfRing
  <2>2. /\ r \in RingType /\ r.half = ring.half /\ r.acceptor = ring.acceptor
        /\ r.predecessor = ring.predecessor
        /\ r.successor = ring.successor /\ r.connector = ring.connector
        /\ r.successorConnected = ring.successorConnected /\ r.clearToSend = ring.clearToSend
        /\ r.garbage = ring.garbage
    BY <1>1, <2>1, RingAssumption DEF RingType
  <2> HIDE DEF r
  <2> QED BY <2>1, <2>2, MembersOnly
<1>4. ASSUME NEW s \in Links, ReceivePredecessor(s) PROVE RingInv'
  <2> DEFINE r == [ring EXCEPT !.recv = IF s = ring.predecessor THEN @ + 1 ELSE @]
  <2>1. RingHandler(Input, r, managed) /\ ring.recv < MaxMessages
    BY <1>4 DEF ReceivePredecessor
  <2>2. /\ r \in RingType /\ r.half = ring.half /\ r.acceptor = ring.acceptor
        /\ r.predecessor = ring.predecessor
        /\ r.successor = ring.successor /\ r.connector = ring.connector
        /\ r.successorConnected = ring.successorConnected /\ r.clearToSend = ring.clearToSend
        /\ r.garbage = ring.garbage
    BY <1>1, <2>1, RingAssumption DEF RingType
  <2> HIDE DEF r
  <2> QED BY <2>1, <2>2, MembersOnly
<1> QED BY <1>2, <1>3, <1>4

LEMMA BindReceiveKeeps ==
  ASSUME RingInv, BindReceive
  PROVE  RingInv'
<1>1. /\ ring' = [ring EXCEPT !.receiveBound = TRUE] /\ managed' = managed
      /\ ringSched' = ringSched \cup {Plain("receive")}
  BY DEF BindReceive
<1>2. ring \in RingType
  BY DEF RingInv, RingTyped
<1>3. /\ ring' \in RingType /\ ring'.half = ring.half /\ ring'.acceptor = ring.acceptor
      /\ ring'.predecessor = ring.predecessor /\ ring'.successor = ring.successor
      /\ ring'.connector = ring.connector /\ ring'.successorConnected = ring.successorConnected
      /\ ring'.clearToSend = ring.clearToSend /\ ring'.garbage = ring.garbage
      /\ ring'.acceptFlag = ring.acceptFlag /\ ring'.send = ring.send
      /\ ring'.aborted = ring.aborted
  BY <1>1, <1>2 DEF RingType
<1>4. RingTyped'
  BY <1>1, <1>3 DEF RingInv, RingTyped
<1>5. SameManaged
  BY <1>1, <1>3 DEF SameManaged
<1>6. SameSends
  BY <1>1, <1>3 DEF SameSends
<1>7. Queued
  BY <1>1 DEF Queued
<1>8. RingEnabledScheduled'
  <2>1. ring.half \in DOMAIN Halves /\ ring'.half \in DOMAIN Halves
    BY <1>2, <1>3 DEF RingType
  <2>2. ASSUME NEW a, a \in RingSchedule(ring', managed)
        PROVE  a \in RingSchedule(ring, managed) \/ a = Plain("receive")
    BY <1>3, <2>1, <2>2, ScheduleMeans
  <2> QED BY <1>1, <1>3, <2>2 DEF RingInv, RingEnabledScheduled, RingRunning
<1> QED BY <1>4, <1>5, <1>6, <1>7, <1>8, QuietStep

LEMMA RingRunDisabledKeeps ==
  ASSUME RingInv, RingRunDisabled
  PROVE  RingInv'
<1>1. PICK a \in ringSched :
        /\ ~RingPrecondition(a, ring, managed) /\ ringSched' = ringSched \ {a}
        /\ ring' = ring /\ managed' = managed
  BY DEF RingRunDisabled
<1>2. RingTyped'
  BY <1>1 DEF RingInv, RingTyped
<1>3. SameManaged /\ SameSends /\ Queued
  BY <1>1 DEF SameManaged, SameSends, Queued
<1>4. a \notin RingSchedule(ring, managed)
  BY <1>1 DEF RingSchedule
<1>5. RingEnabledScheduled'
  BY <1>1, <1>4 DEF RingInv, RingEnabledScheduled, RingRunning
<1> QED BY <1>2, <1>3, <1>5, QuietStep

\* A manager s that changes to x.
LEMMA ManagerChanges ==
  ASSUME RingInv, NEW s \in Slots, NEW x \in SlotType, managed' = [managed EXCEPT ![s] = x],
         ring' \in RingType
  PROVE  /\ RingTyped'
         /\ managed'[s] = x /\ \A t \in Slots : t # s => managed'[t] = managed[t]
BY DEF RingInv, RingTyped

\* What schedule() looks at of the managers.
LEMMA SameSchedule ==
  ASSUME NEW r \in RingType, NEW m, NEW n,
         r.predecessor # Null => (m[r.predecessor].life = "created" <=> n[r.predecessor].life = "created"),
         r.successor # Null => (m[r.successor].life = "created" <=> n[r.successor].life = "created"),
         r.acceptor # Null => m[r.acceptor].bound = n[r.acceptor].bound,
         r.successor # Null => m[r.successor].bound = n[r.successor].bound,
         NEW a
  PROVE  a \in RingSchedule(r, m) <=> a \in RingSchedule(r, n)
<1>1. r.half \in DOMAIN Halves
  BY DEF RingType
<1>2. Is(m, r.predecessor, "created") <=> Is(n, r.predecessor, "created")
  BY DEF Is
<1>3. Is(m, r.successor, "created") <=> Is(n, r.successor, "created")
  BY DEF Is
<1> QED BY <1>1, <1>2, <1>3, ScheduleMeans

LEMMA BindManagedKeeps ==
  ASSUME RingInv, NEW s \in Slots, BindManaged(s)
  PROVE  RingInv'
<1> DEFINE x == [managed[s] EXCEPT !.bound = TRUE]
<1>1. /\ managed[s].life = "created" /\ ring' = ring
      /\ managed' = [managed EXCEPT ![s].bound = TRUE]
      /\ ringSched' = ringSched \cup {OutputTo(s)}
      /\ ring.half = IF s \in Listeners THEN "accepting" ELSE "connecting"
  BY DEF BindManaged
<1>2. managed[s] \in SlotType /\ managed[s] # Unused /\ ring \in RingType
  BY <1>1, SlotKinds DEF RingInv, RingTyped, Unused
<1>3. /\ x \in SlotType /\ x.life = managed[s].life /\ x.fd = managed[s].fd
      /\ x.told = managed[s].told /\ x.outstanding = managed[s].outstanding
  BY <1>2 DEF SlotType
<1>4. managed' = [managed EXCEPT ![s] = x]
  BY <1>1
<1> HIDE DEF x
<1>5. RingTyped' /\ managed'[s] = x /\ \A t \in Slots : t # s => managed'[t] = managed[t]
  BY <1>1, <1>2, <1>3, <1>4, ManagerChanges
<1>6. SameManaged
  BY <1>1, <1>3, <1>5 DEF SameManaged
<1>7. SameSends
  <2>1. ring.successor # Null => ring.successor \in Slots
    BY ReferredKinds, SlotNames
  <2> QED BY <1>1, <1>2, <1>3, <1>5, <2>1, SlotNames DEF SameSends
<1>8. Queued
  BY <1>1 DEF Queued
<1>9. RingEnabledScheduled'
  <2>1. ASSUME NEW a, a \in RingSchedule(ring, managed')
        PROVE  a \in RingSchedule(ring, managed) \/ a = OutputTo(s)
    <3>1. ring.half \in DOMAIN Halves
      BY <1>2 DEF RingType
    <3>2. /\ ring.predecessor # Null => ring.predecessor \in Links /\ ring.predecessor \in Slots
          /\ ring.successor # Null => ring.successor \in Links /\ ring.successor \in Slots
          /\ ring.acceptor # Null => ring.acceptor \in Listeners /\ ring.acceptor \in Slots
      BY ReferredKinds, SlotNames
    <3>3. \A t \in Slots : managed'[t].life = managed[t].life
      BY <1>3, <1>5
    <3>4. /\ Is(managed', ring.predecessor, "created") <=> Is(managed, ring.predecessor, "created")
          /\ Is(managed', ring.successor, "created") <=> Is(managed, ring.successor, "created")
      BY <3>2, <3>3 DEF Is
    <3>5. CASE ring.half = "accepting"
      <4>1. ring.acceptor = s => OutputTo(s) = <<"accept", ring.acceptor>>
        BY <3>2, SlotNames DEF OutputTo
      <4>2. ring.acceptor # Null /\ ring.acceptor # s =>
              managed'[ring.acceptor].bound = managed[ring.acceptor].bound
        BY <1>5, <3>2
      <4> QED BY <2>1, <3>1, <3>4, <3>5, <4>1, <4>2, ScheduleMeans
    <3>6. CASE ring.half = "connecting"
      <4>1. ring.successor = s => OutputTo(s) = <<"send_successor", ring.successor>>
        BY <1>1, <3>2, <3>6, SlotNames DEF OutputTo
      <4>2. ring.successor # Null /\ ring.successor # s =>
              managed'[ring.successor].bound = managed[ring.successor].bound
        BY <1>5, <3>2
      <4> QED BY <2>1, <3>1, <3>4, <3>6, <4>1, <4>2, ScheduleMeans
    <3> QED BY <3>1, <3>5, <3>6 DEF Halves
  <2> QED BY <1>1, <2>1 DEF RingInv, RingEnabledScheduled, RingRunning
<1> QED BY <1>5, <1>6, <1>7, <1>8, <1>9, QuietStep

LEMMA SuccessorConnectedKeeps ==
  ASSUME RingInv, NEW s \in Links, SuccessorConnected(s)
  PROVE  RingInv'
<1>1. CASE s # ring.successor
  BY <1>1, AbortKeeps DEF SuccessorConnected
<1>2. CASE s = ring.successor
  <2> DEFINE r == [ring EXCEPT !.successorConnected = TRUE, !.clearToSend = TRUE]
  <2>1. /\ managed[s].life \in {"created", "ending"} /\ "connected" \notin managed[s].told
        /\ RingHandler(Input, r, Told(s, "connected")) /\ s \in Slots
    BY <1>2, SlotNames DEF SuccessorConnected, Reports
  <2>2. ring' = r /\ managed' = Told(s, "connected") /\ Queued /\ RingEnabledScheduled'
    BY <2>1, HandlerSchedules
  <2>3. ring \in RingType
    BY DEF RingInv, RingTyped
  <2>4. /\ r \in RingType /\ r.half = ring.half /\ r.acceptor = ring.acceptor
        /\ r.predecessor = ring.predecessor
        /\ r.successor = ring.successor /\ r.connector = ring.connector
        /\ r.successorConnected = TRUE /\ r.clearToSend = TRUE
        /\ r.garbage = ring.garbage
    BY <2>3 DEF RingType
  <2> HIDE DEF r
  <2>5. RingTyped'
    BY <2>1, <2>2, <2>4, ToldTyped DEF RingTyped
  <2>6. SameManaged
    BY <2>1, <2>2, <2>4, ToldTyped, SlotNames DEF SameManaged
  <2>7. RefersRight' /\ HandOverRight'
    BY <2>5, <2>6, SameManagedKeeps
  <2>8. HalfRight' /\ RetryRight'
    <3>1. \A t \in Listeners : managed'[t] = managed[t]
      BY <2>1, <2>2, ToldTyped, SlotNames
    <3> QED BY <2>2, <2>4, <2>5, <3>1, QueueKeeps, SameRetries
  <2>9. SendsRight'
    <3>1. Extra' = Extra /\ Extra \in {0, 1} /\ (ring.garbage => Extra = 1)
      BY <2>2, <2>4 DEF Extra
    <3>2. \A t \in Links : managed'[t] # Unused => managed[t] # Unused
                              /\ managed'[t].outstanding = managed[t].outstanding
      BY <2>1, <2>2, ToldTyped, SlotNames
    <3>3. \A t \in Links : managed'[t] # Unused => managed'[t].outstanding <= 1 + Extra
      BY <3>2 DEF RingInv, SendsRight
    <3>4. s # Null /\ ring'.successor = s /\ "connected" \in managed'[s].told
          /\ managed'[s].outstanding = managed[s].outstanding
      BY <1>2, <2>1, <2>2, <2>4, ToldTyped, SlotNames
    <3>5. managed[s].outstanding <= Extra
      BY <1>2, <2>1, <3>1, <3>4 DEF RingInv, SendsRight
    <3> QED BY <3>1, <3>3, <3>4, <3>5 DEF SendsRight
  <2> QED BY <2>2, <2>5, <2>7, <2>8, <2>9 DEF RingInv
<1> QED BY <1>1, <1>2

\* A handler r that gives the connection s one message more, or takes one less.
LEMMA OutstandingKeeps ==
  ASSUME RingInv, NEW s \in Links, managed[s] # Unused, NEW n \in 0..2, NEW r \in RingType, NEW a,
         RingHandler(a, r, [managed EXCEPT ![s] = [managed[s] EXCEPT !.outstanding = n]]),
         r.half = ring.half, r.acceptor = ring.acceptor, r.predecessor = ring.predecessor,
         r.successor = ring.successor, r.connector = ring.connector,
         r.successorConnected = ring.successorConnected, r.garbage = ring.garbage,
         n <= 1 + Extra,
         r.clearToSend => ring.clearToSend \/ s = ring.successor,
         s = ring.successor =>
           IF "connected" \in managed[s].told THEN r.clearToSend => n <= Extra
           ELSE IF r.successorConnected
           THEN r.garbage /\ n <= 1 /\ (r.clearToSend => n = 0)
           ELSE n = 0
  PROVE  RingInv'
<1> DEFINE x == [managed[s] EXCEPT !.outstanding = n]
           m == [managed EXCEPT ![s] = x]
<1>1. s \in Slots /\ managed[s] \in SlotType /\ managed \in [Slots -> SlotType \cup {Unused}]
  BY SlotKinds, SlotNames DEF RingInv, RingTyped
<1>9. x \in SlotType /\ x.life = managed[s].life /\ x.fd = managed[s].fd /\ x.told = managed[s].told
      /\ x.outstanding = n
  BY <1>1 DEF SlotType
<1>2. ring' = r /\ managed' = m /\ Queued /\ RingEnabledScheduled'
  BY HandlerSchedules
<1> HIDE DEF x
<1>3. /\ m \in [Slots -> SlotType \cup {Unused}]
      /\ m[s].life = managed[s].life /\ m[s].fd = managed[s].fd /\ m[s].told = managed[s].told
      /\ m[s].outstanding = n
      /\ \A t \in Slots : t # s => m[t] = managed[t]
  BY <1>1, <1>9
<1> HIDE DEF m
<1>4. RingTyped'
  BY <1>2, <1>3 DEF RingTyped
<1>5. SameManaged
  BY <1>1, <1>2, <1>3 DEF SameManaged
<1>6. RefersRight' /\ HandOverRight'
  BY <1>4, <1>5, SameManagedKeeps
<1>7. HalfRight' /\ RetryRight'
  <2>1. \A t \in Listeners : managed'[t] = managed[t]
    BY <1>2, <1>3, SlotNames
  <2> QED BY <1>2, <1>4, <2>1, QueueKeeps, SameRetries
<1>8. SendsRight'
  <2>1. Extra' = Extra /\ Extra \in {0, 1}
    BY <1>2 DEF Extra
  <2>2. \A t \in Links : managed'[t] # Unused => managed'[t].outstanding <= 1 + Extra'
    BY <1>2, <1>3, <2>1, SlotNames DEF RingInv, SendsRight
  <2>3. ring.successor = Null => (ring'.successorConnected => ring'.garbage)
    BY <1>2 DEF RingInv, SendsRight
  <2>4. ring.successor # Null /\ ring.successor # s =>
         LET out == managed'[ring.successor].outstanding IN
         IF "connected" \in managed'[ring.successor].told
         THEN ring'.clearToSend => out <= Extra'
         ELSE IF ring'.successorConnected
         THEN ring'.garbage /\ out <= 1 /\ (ring'.clearToSend => out = 0)
         ELSE out = 0
    <3>1. ring.successor # Null /\ ring.successor # s => managed'[ring.successor] = managed[ring.successor]
      BY <1>2, <1>3, ReferredKinds, SlotNames
    <3> QED BY <1>2, <2>1, <3>1 DEF RingInv, SendsRight
  <2>5. ring.successor = s =>
         LET out == managed'[ring.successor].outstanding IN
         IF "connected" \in managed'[ring.successor].told
         THEN ring'.clearToSend => out <= Extra'
         ELSE IF ring'.successorConnected
         THEN ring'.garbage /\ out <= 1 /\ (ring'.clearToSend => out = 0)
         ELSE out = 0
    BY <1>2, <1>3, <2>1
  <2> QED BY <1>2, <2>2, <2>3, <2>4, <2>5 DEF SendsRight
<1> QED BY <1>2, <1>4, <1>6, <1>7, <1>8 DEF RingInv

LEMMA SendSuccessorKeeps ==
  ASSUME RingInv, SendSuccessor
  PROVE  RingInv'
<1>1. PICK s \in Links :
        /\ RingRuns(<<"send_successor", s>>)
        /\ RingHandler(<<"send_successor", s>>, [ring EXCEPT !.clearToSend = FALSE, !.send = @ - 1],
                       [managed EXCEPT ![s].outstanding = @ + 1])
  BY DEF SendSuccessor
<1> DEFINE r == [ring EXCEPT !.clearToSend = FALSE, !.send = @ - 1]
           n == managed[s].outstanding + 1
<1>2. /\ s = ring.successor /\ ring.successorConnected /\ ring.clearToSend /\ ring.send > 0
      /\ s # Null
  BY <1>1, Preconditions DEF RingRuns
<1>3. ring \in RingType
  BY DEF RingInv, RingTyped
<1>4. /\ r \in RingType /\ r.half = ring.half /\ r.acceptor = ring.acceptor
      /\ r.predecessor = ring.predecessor
      /\ r.successor = ring.successor /\ r.connector = ring.connector
      /\ r.successorConnected = ring.successorConnected /\ r.clearToSend = FALSE
      /\ r.garbage = ring.garbage
  <2>1. ring.send \in 0..MaxMessages
    BY <1>3 DEF RingType
  <2>2. ring.send - 1 \in 0..MaxMessages
    BY <1>2, <2>1, RingAssumption
  <2> QED BY <1>3, <2>2 DEF RingType
<1>5. managed[s] # Unused /\ managed[s] \in SlotType /\ s \in Slots
  BY <1>2, ReferredKinds, SlotNames
<1>6. managed[s].outstanding \in 0..2
  BY <1>5 DEF SlotType
<1>7. Extra \in {0, 1} /\ (ring.garbage => Extra = 1)
  BY DEF Extra
<1>8. IF "connected" \in managed[s].told THEN managed[s].outstanding <= Extra
      ELSE ring.garbage /\ managed[s].outstanding = 0
  BY <1>2 DEF RingInv, SendsRight
<1>9. /\ n \in 0..2 /\ n <= 1 + Extra
      /\ IF "connected" \in managed[s].told THEN TRUE ELSE ring.garbage /\ n <= 1
  BY <1>6, <1>7, <1>8
<1>10. [managed EXCEPT ![s].outstanding = @ + 1]
         = [managed EXCEPT ![s] = [managed[s] EXCEPT !.outstanding = n]]
  OBVIOUS
<1>11. RingHandler(<<"send_successor", s>>, r,
                   [managed EXCEPT ![s] = [managed[s] EXCEPT !.outstanding = n]])
  BY <1>1, <1>10
<1> HIDE DEF r, n
<1> QED BY <1>2, <1>4, <1>5, <1>9, <1>11, OutstandingKeeps

LEMMA SuccessorSendCompleteKeeps ==
  ASSUME RingInv, NEW s \in Links, SuccessorSendComplete(s)
  PROVE  RingInv'
<1> DEFINE r == [ring EXCEPT !.clearToSend = (s = ring.successor) \/ @]
           n == managed[s].outstanding - 1
<1>1. /\ managed[s].life \in {"created", "ending"} /\ managed[s].outstanding > 0
      /\ RingHandler(Input, r, [managed EXCEPT ![s].outstanding = @ - 1])
  BY DEF SuccessorSendComplete
<1>2. ring \in RingType /\ ring.clearToSend \in BOOLEAN
  BY DEF RingInv, RingTyped, RingType
<1>3. /\ r \in RingType /\ r.half = ring.half /\ r.acceptor = ring.acceptor
      /\ r.predecessor = ring.predecessor
      /\ r.successor = ring.successor /\ r.connector = ring.connector
      /\ r.successorConnected = ring.successorConnected
      /\ r.garbage = ring.garbage
  BY <1>2 DEF RingType
<1>4. r.clearToSend => ring.clearToSend \/ s = ring.successor
  BY <1>2 DEF RingType
<1>5. managed[s] # Unused /\ managed[s] \in SlotType /\ s \in Slots
  BY <1>1, SlotKinds, SlotNames DEF RingInv, Unused
<1>6. managed[s].outstanding \in 0..2
  BY <1>5 DEF SlotType
<1>7. Extra \in {0, 1} /\ (ring.garbage => Extra = 1)
  BY DEF Extra
<1>8. managed[s].outstanding <= 1 + Extra
  BY <1>5 DEF RingInv, SendsRight
<1>9. n \in 0..2 /\ n <= Extra /\ n < managed[s].outstanding
  BY <1>1, <1>6, <1>7, <1>8
<1>10. s # Null
  BY SlotNames
<1>11. s = ring.successor =>
         IF "connected" \in managed[s].told THEN n <= Extra
         ELSE ring.successorConnected /\ ring.garbage /\ managed[s].outstanding <= 1
  BY <1>1, <1>9, <1>10 DEF RingInv, SendsRight
<1>12. s = ring.successor =>
         IF "connected" \in managed[s].told THEN r.clearToSend => n <= Extra
         ELSE IF r.successorConnected THEN r.garbage /\ n <= 1 /\ (r.clearToSend => n = 0)
         ELSE n = 0
  BY <1>1, <1>3, <1>6, <1>9, <1>11
<1>13. n <= 1 + Extra
  BY <1>6, <1>7, <1>9
<1>14. RingHandler(Input, r, [managed EXCEPT ![s] = [managed[s] EXCEPT !.outstanding = n]])
  <2>1. [managed EXCEPT ![s].outstanding = @ - 1]
          = [managed EXCEPT ![s] = [managed[s] EXCEPT !.outstanding = n]]
    OBVIOUS
  <2> QED BY <1>1, <2>1
<1> HIDE DEF r, n
<1> QED BY <1>3, <1>4, <1>5, <1>9, <1>12, <1>13, <1>14, OutstandingKeeps

\* An acceptor that is not referred to failed already.
LEMMA AcceptorFailsKeeps ==
  ASSUME RingInv, NEW s \in Listeners, AcceptorFails(s)
  PROVE  RingInv'
<1>1. /\ managed[s].life \in {"created", "ending"} /\ ~Failed(s) /\ ring.half = "accepting"
      /\ s \in Slots /\ s # Null
  BY SlotNames DEF AcceptorFails, Failed
<1>2. managed[s].life # "ending"
  BY <1>1 DEF RingInv, HandOverRight
<1>3. ring.connector = Null /\ ring.successor = Null
  BY <1>1 DEF RingInv, RefersRight
<1>4. s = ring.acceptor
  <2>1. s \in Referred(ring)
    BY <1>1, <1>2 DEF RingInv, RefersRight
  <2> QED BY <1>1, <1>3, <2>1, ReferredKinds
<1>5. /\ ring' = ring /\ managed' = Told(s, "error")
      /\ ringSched' = ringSched \cup {Plain("retry_acceptor")} \cup RingSchedule(ring, Told(s, "error"))
  BY <1>4 DEF AcceptorFails, Told
<1>6. RingTyped'
  BY <1>1, <1>5, ToldTyped DEF RingInv, RingTyped
<1>7. /\ \A t \in Slots : managed'[t].life = managed[t].life
      /\ \A t \in Slots : t # s => managed'[t] = managed[t]
      /\ Failed(s)' /\ managed[s] # Unused /\ managed'[s] # Unused
  BY <1>1, <1>5, ToldTyped DEF Failed
<1>8. RefersRight'
  BY <1>5, <1>7 DEF RingInv, RefersRight
<1>9. RingSchedule(ring, managed)' = RingSchedule(ring, Told(s, "error"))
  BY <1>5 DEF RingSchedule, RingPrecondition, Parameter, Is
<1>10. RingEnabledScheduled'
  BY <1>5, <1>9 DEF RingEnabledScheduled
<1>11. RetryRight' /\ HalfRight'
  <2>1. ring'.half \in DOMAIN Halves
    BY <1>6 DEF RingTyped, RingType
  <2>2. \A name \in {"create_acceptor", "create_predecessor", "create_successor", "retry_connector"} :
          Plain(name) # Plain("retry_acceptor")
    BY DEF Plain
  <2>3. HalfRight'
    BY <1>5, <2>1, <2>2, NoRetryScheduled DEF RingInv, HalfRight
  <2>4. Plain("retry_connector") \notin ringSched
    BY <1>3 DEF RingInv, RetryRight
  <2>5. Plain("retry_connector") \notin ringSched'
    BY <1>5, <2>1, <2>2, <2>4, NoRetryScheduled
  <2> QED BY <1>1, <1>4, <1>5, <1>7, <2>3, <2>5 DEF RetryRight
<1>12. HandOverRight'
  <2>1. \A t \in Links : \A u : Expects(t, u)' <=> Expects(t, u)
    BY <1>7, SlotNames DEF Expects
  <2>2. \A u \in Listeners : managed'[u] = Unused <=> managed[u] = Unused
    BY <1>7, SlotNames
  <2>3. \A u \in Listeners : managed'[u].life = "ending" => Failed(u)'
    BY <1>1, <1>7, SlotNames DEF RingInv, HandOverRight, Failed
  <2> QED BY <1>1, <1>5, <2>1, <2>2, <2>3 DEF RingInv, HandOverRight
<1>13. SendsRight'
  BY <1>3, <1>5, <1>7, <1>6, SameSendsKeeps, SlotNames DEF SameSends
<1> QED BY <1>6, <1>8, <1>10, <1>11, <1>12, <1>13 DEF RingInv

\* A connector that still has a descriptor to hand over is referred to.
LEMMA ConnectorFailsKeeps ==
  ASSUME RingInv, NEW s \in Listeners, ConnectorFails(s)
  PROVE  RingInv'
<1>1. /\ managed[s].life \in {"created", "ending"} /\ ~Failed(s) /\ ring.half = "connecting"
      /\ s \in Slots /\ s # Null
  BY SlotNames DEF ConnectorFails, Failed
<1>2. PICK t \in Links : Expects(t, s)
  BY DEF ConnectorFails, Expects
<1>3. managed[s].life # "ending"
  BY <1>1, <1>2 DEF RingInv, HandOverRight
<1>4. ring.acceptor = Null /\ ring.predecessor = Null
  BY <1>1 DEF RingInv, RefersRight
<1>5. s = ring.connector
  <2>1. s \in Referred(ring)
    BY <1>1, <1>3 DEF RingInv, RefersRight
  <2> QED BY <1>1, <1>4, <2>1, ReferredKinds
<1>6. /\ ring' = ring /\ managed' = Told(s, "error")
      /\ ringSched' = ringSched \cup {Plain("retry_connector")} \cup RingSchedule(ring, Told(s, "error"))
  BY <1>5 DEF ConnectorFails
<1>7. RingTyped'
  BY <1>1, <1>6, ToldTyped DEF RingInv, RingTyped
<1>8. /\ \A u \in Slots : managed'[u].life = managed[u].life
      /\ \A u \in Slots : u # s => managed'[u] = managed[u]
      /\ Failed(s)' /\ managed[s] # Unused /\ managed'[s] # Unused
  BY <1>1, <1>6, ToldTyped DEF Failed
<1>9. RefersRight'
  BY <1>6, <1>8 DEF RingInv, RefersRight
<1>10. RingSchedule(ring, managed)' = RingSchedule(ring, Told(s, "error"))
  BY <1>6 DEF RingSchedule, RingPrecondition, Parameter, Is
<1>11. RingEnabledScheduled'
  BY <1>6, <1>10 DEF RingEnabledScheduled
<1>12. RetryRight' /\ HalfRight'
  <2>1. ring'.half \in DOMAIN Halves
    BY <1>7 DEF RingTyped, RingType
  <2>2. \A name \in {"create_acceptor", "create_predecessor", "create_successor", "retry_acceptor"} :
          Plain(name) # Plain("retry_connector")
    BY DEF Plain
  <2>3. HalfRight'
    BY <1>6, <2>1, <2>2, NoRetryScheduled DEF RingInv, HalfRight
  <2>4. Plain("retry_acceptor") \notin ringSched
    BY <1>4 DEF RingInv, RetryRight
  <2>5. Plain("retry_acceptor") \notin ringSched'
    BY <1>6, <2>1, <2>2, <2>4, NoRetryScheduled
  <2> QED BY <1>1, <1>5, <1>6, <1>8, <2>3, <2>5 DEF RetryRight
<1>13. HandOverRight'
  <2>1. \A v \in Links : \A u : Expects(v, u)' <=> Expects(v, u)
    BY <1>8, SlotNames DEF Expects
  <2>2. \A u \in Listeners : managed'[u] = Unused <=> managed[u] = Unused
    BY <1>8, SlotNames
  <2>3. \A u \in Listeners : managed'[u].life = "ending" => u # s /\ (Failed(u)' <=> Failed(u))
    BY <1>1, <1>3, <1>8, SlotNames DEF Failed
  <2>4. t = ring.successor
    BY <1>1, <1>2, <1>5 DEF RingInv, HandOverRight
  <2>5. managed'[ring.successor].fd # "held"
    BY <1>2, <1>8, <2>4, SlotNames DEF Expects
  <2> QED BY <1>1, <1>6, <1>8, <2>1, <2>2, <2>3, <2>5, SlotNames DEF RingInv, HandOverRight
<1>14. SendsRight'
  <2>1. ring.successor # Null => ring.successor \in Links
    BY ReferredKinds
  <2> QED BY <1>6, <1>7, <1>8, <2>1, SameSendsKeeps, SlotNames DEF SameSends
<1> QED BY <1>7, <1>9, <1>11, <1>12, <1>13, <1>14 DEF RingInv

LEMMA ManagedCreatedKeeps ==
  ASSUME RingInv, NEW s \in Slots, ManagedCreated(s)
  PROVE  RingInv'
<1> DEFINE x == [managed[s] EXCEPT !.life = "created"]
<1>1. /\ managed[s].life = "asked" /\ ring' = ring
      /\ managed' = [managed EXCEPT ![s].life = "created"]
      /\ ringSched' = ringSched \cup ObserveManager(s, [managed EXCEPT ![s].life = "created"])
  BY DEF ManagedCreated
<1>2. managed[s] \in SlotType /\ managed[s] # Unused /\ ring \in RingType
  BY <1>1, SlotKinds DEF RingInv, RingTyped, Unused
<1>3. /\ x \in SlotType /\ x.life = "created" /\ x.fd = managed[s].fd /\ x.bound = managed[s].bound
      /\ x.told = managed[s].told /\ x.outstanding = managed[s].outstanding
  BY <1>2 DEF SlotType
<1>4. managed' = [managed EXCEPT ![s] = x]
  BY <1>1
<1> HIDE DEF x
<1>5. RingTyped' /\ managed'[s] = x /\ \A t \in Slots : t # s => managed'[t] = managed[t]
  BY <1>1, <1>2, <1>3, <1>4, ManagerChanges
<1>6. SameManaged
  BY <1>1, <1>3, <1>5 DEF SameManaged
<1>7. SameSends
  <2>1. ring.successor # Null => ring.successor \in Slots
    BY ReferredKinds, SlotNames
  <2> QED BY <1>1, <1>2, <1>3, <1>5, <2>1, SlotNames DEF SameSends
<1>8. RingSchedule(ring, managed)' = RingSchedule(ring, managed')
  BY <1>1 DEF RingSchedule, RingPrecondition, Parameter, Is
<1>9. ringSched' = ringSched \cup ObserveManager(s, managed')
  BY <1>1
<1>10. Queued
  BY <1>8, <1>9 DEF Queued, ObserveManager
<1>11. RingEnabledScheduled'
  <2>1. CASE s \in Links
    BY <1>8, <1>9, <2>1 DEF ObserveManager, RingEnabledScheduled
  <2>2. CASE s \notin Links
    <3>1. /\ ring.predecessor # Null => managed'[ring.predecessor] = managed[ring.predecessor]
          /\ ring.successor # Null => managed'[ring.successor] = managed[ring.successor]
          /\ ring.acceptor # Null => managed'[ring.acceptor].bound = managed[ring.acceptor].bound
      BY <1>3, <1>5, <2>2, ReferredKinds, SlotNames
    <3>2. \A a : a \in RingSchedule(ring, managed') <=> a \in RingSchedule(ring, managed)
      BY <1>2, <3>1, SameSchedule
    <3> QED BY <1>1, <1>8, <1>9, <3>2 DEF RingInv, RingEnabledScheduled, RingRunning
  <2> QED BY <2>1, <2>2
<1> QED BY <1>5, <1>6, <1>7, <1>10, <1>11, QuietStep

\* A descriptor comes from a manager that is referred to and has not failed.
LEMMA HandOverKeeps ==
  ASSUME RingInv, NEW t \in Links, HandOver(t)
  PROVE  RingInv'
<1> DEFINE s == managed[t].fd
           x == [managed[t] EXCEPT !.fd = "held"]
<1>1. /\ managed[t].life \in {"created", "ending"} /\ s \in Listeners
      /\ managed[s].life \in {"created", "ending"}
      /\ ring.half = "connecting" => ~Failed(s)
      /\ ring' = ring /\ ringSched' = ringSched /\ managed' = [managed EXCEPT ![t].fd = "held"]
      /\ t \in Slots /\ s \in Slots
  BY SlotNames DEF HandOver, Failed
<1>2. managed[t] \in SlotType /\ managed[t] # Unused /\ ring \in RingType
  BY <1>1, SlotKinds DEF RingInv, RingTyped, Unused
<1>3. /\ x \in SlotType /\ x.life = managed[t].life /\ x.fd = "held" /\ x.bound = managed[t].bound
      /\ x.told = managed[t].told /\ x.outstanding = managed[t].outstanding
  BY <1>2 DEF SlotType
<1>4. managed' = [managed EXCEPT ![t] = x]
  BY <1>1
<1>5. Expects(t, s)
  BY <1>2 DEF Expects
<1> HIDE DEF x, s
<1>6. RingTyped' /\ managed'[t] = x /\ \A u \in Slots : u # t => managed'[u] = managed[u]
  BY <1>1, <1>2, <1>3, <1>4, ManagerChanges
<1>7. \A u \in Slots : /\ managed'[u].life = managed[u].life /\ managed'[u].bound = managed[u].bound
                       /\ managed'[u].told = managed[u].told
                       /\ managed'[u].outstanding = managed[u].outstanding
                       /\ managed'[u] # Unused => managed[u] # Unused
  BY <1>2, <1>3, <1>6
<1>8. x # Unused
  BY <1>3, SlotKinds, <1>1 DEF RingInv, Unused
<1>9. RefersRight'
  BY <1>1, <1>7 DEF RingInv, RefersRight
<1>10. RetryRight' /\ HalfRight'
  BY <1>1, <1>7, ReferredKinds, SlotNames DEF RingInv, RetryRight, HalfRight, Failed
<1>11. SendsRight'
  <2>1. ring.successor # Null => ring.successor \in Slots
    BY ReferredKinds, SlotNames
  <2> QED BY <1>1, <1>6, <1>7, <2>1, SameSendsKeeps, SlotNames DEF SameSends
<1>12. RingEnabledScheduled'
  <2>1. RingSchedule(ring, managed)' = RingSchedule(ring, managed')
    BY <1>1 DEF RingSchedule, RingPrecondition, Parameter, Is
  <2>2. /\ ring.predecessor # Null => ring.predecessor \in Slots
        /\ ring.successor # Null => ring.successor \in Slots
        /\ ring.acceptor # Null => ring.acceptor \in Slots
    BY ReferredKinds, SlotNames
  <2>3. \A a : a \in RingSchedule(ring, managed') <=> a \in RingSchedule(ring, managed)
    BY <1>2, <1>7, <2>2, SameSchedule
  <2> QED BY <1>1, <2>1, <2>3 DEF RingInv, RingEnabledScheduled, RingRunning
<1>13. HandOverRight'
  <2>1. \A v \in Links : \A u \in Listeners : Expects(v, u)' => Expects(v, u)
    BY <1>3, <1>6, SlotNames DEF Expects
  <2>2. \A u \in Listeners : managed'[u] = managed[u]
    BY <1>6, SlotNames
  <2>3. \A u : u \in Listeners => (Failed(u)' <=> Failed(u))
    BY <2>2 DEF Failed
  <2>4. ring.connector # Null => ring.connector \in Listeners
    BY ReferredKinds
  <2>5. ring.half = "connecting" => s = ring.connector /\ s # Null /\ ~Failed(s)
    <3> SUFFICES ASSUME ring.half = "connecting" PROVE s = ring.connector /\ s # Null /\ ~Failed(s)
      OBVIOUS
    <3>1. managed[s].life # "ending"
      BY <1>1, <1>5 DEF RingInv, HandOverRight
    <3>2. s \in Referred(ring) /\ ring.acceptor = Null
      BY <1>1, <3>1 DEF RingInv, RefersRight
    <3> QED BY <1>1, <3>2, ReferredKinds, SlotNames
  <2>6. ring.half = "connecting" =>
          ring.connector # Null /\ Failed(ring.connector)' = FALSE
    BY <1>1, <2>3, <2>5
  <2>7. \A u \in Listeners : \A v \in Links : managed'[u] = Unused => ~Expects(v, u)'
    BY <2>1, <2>2 DEF RingInv, HandOverRight
  <2>8. ring.half = "accepting" =>
          \A u \in Listeners : managed'[u].life = "ending" => Failed(u)'
    BY <2>2, <2>3 DEF RingInv, HandOverRight
  <2>9. ring.half = "connecting" =>
          \A u \in Listeners : managed'[u].life = "ending" => Failed(u)' \/ \A v \in Links : ~Expects(v, u)'
    BY <2>1, <2>2, <2>3 DEF RingInv, HandOverRight
  <2>10. ring.half = "connecting" =>
           \A v \in Links : ring.connector # Null /\ Expects(v, ring.connector)' => v = ring.successor
    BY <1>1, <2>1, <2>4 DEF RingInv, HandOverRight, Expects
  <2> QED BY <1>1, <2>6, <2>7, <2>8, <2>9, <2>10 DEF HandOverRight
<1> QED BY <1>6, <1>9, <1>10, <1>11, <1>12, <1>13 DEF RingInv

LEMMA ManagedDestroyedKeeps ==
  ASSUME RingInv, NEW s \in Slots, ManagedDestroyed(s)
  PROVE  RingInv'
<1> DEFINE m == [t \in Slots |->
                   IF t = s THEN Unused
                   ELSE IF managed[t] # Unused /\ managed[t].fd = s
                        THEN [managed[t] EXCEPT !.fd = Null] ELSE managed[t]]
<1>1. /\ managed[s].life = "ending" /\ ring' = ring /\ managed' = m
      /\ ringSched' = ringSched \cup ObserveManager(s, m) \cup {a \in {OutputTo(s)} : managed[s].bound}
  BY DEF ManagedDestroyed
<1>2. ring \in RingType /\ managed \in [Slots -> SlotType \cup {Unused}]
  BY DEF RingInv, RingTyped
<1>3. ASSUME NEW t \in Slots, managed[t] # Unused
      PROVE  /\ [managed[t] EXCEPT !.fd = Null] \in SlotType
             /\ [managed[t] EXCEPT !.fd = Null].life = managed[t].life
             /\ [managed[t] EXCEPT !.fd = Null].bound = managed[t].bound
             /\ [managed[t] EXCEPT !.fd = Null].told = managed[t].told
             /\ [managed[t] EXCEPT !.fd = Null].outstanding = managed[t].outstanding
             /\ [managed[t] EXCEPT !.fd = Null].fd = Null
  <2>1. managed[t] \in SlotType
    BY <1>2, <1>3
  <2> QED BY <2>1 DEF SlotType
<1>4. ASSUME NEW t \in Slots, t # s
      PROVE  /\ m[t] = Unused <=> managed[t] = Unused
             /\ m[t] \in SlotType \cup {Unused}
             /\ m[t].life = managed[t].life /\ m[t].bound = managed[t].bound
             /\ m[t].told = managed[t].told /\ m[t].outstanding = managed[t].outstanding
             /\ m[t] # Unused => m[t].fd = IF managed[t].fd = s THEN Null ELSE managed[t].fd
  <2>1. CASE managed[t] # Unused /\ managed[t].fd = s
    <3>1. m[t] = [managed[t] EXCEPT !.fd = Null]
      BY <1>4, <2>1
    <3>2. m[t] # Unused
      <4>1. managed[t].life # "unused"
        BY <2>1, SlotKinds DEF RingInv
      <4> QED BY <1>3, <2>1, <3>1, <4>1 DEF Unused
    <3> HIDE DEF m
    <3> QED BY <1>3, <2>1, <3>1, <3>2
  <2>2. CASE ~(managed[t] # Unused /\ managed[t].fd = s)
    <3>1. m[t] = managed[t]
      BY <1>4, <2>2
    <3> HIDE DEF m
    <3> QED BY <1>2, <2>2, <3>1
  <2> QED BY <2>1, <2>2
<1>5. m[s] = Unused
  OBVIOUS
<1>6. m \in [Slots -> SlotType \cup {Unused}]
  <2>1. m = [t \in Slots |-> m[t]]
    OBVIOUS
  <2>2. \A t \in Slots : m[t] \in SlotType \cup {Unused}
    BY <1>4, <1>5
  <2> HIDE DEF m
  <2> QED BY <2>1, <2>2
<1> HIDE DEF m
<1>7. s \notin Referred(ring)
  BY <1>1, ReferredKinds
<1>8. RingTyped'
  BY <1>1, <1>2, <1>6 DEF RingTyped
<1>9. RefersRight'
  BY <1>1, <1>4, <1>5, <1>7 DEF RingInv, RefersRight, Unused
<1>10. /\ ring.predecessor # Null => ring.predecessor \in Slots /\ ring.predecessor # s
       /\ ring.successor # Null => ring.successor \in Slots /\ ring.successor # s
       /\ ring.acceptor # Null => ring.acceptor \in Slots /\ ring.acceptor # s
       /\ ring.connector # Null => ring.connector \in Slots /\ ring.connector # s
  BY <1>7, ReferredKinds, SlotNames DEF Referred
<1>11. RingSchedule(ring, managed)' = RingSchedule(ring, m)
  BY <1>1 DEF RingSchedule, RingPrecondition, Parameter, Is
<1>12. \A a : a \in RingSchedule(ring, m) <=> a \in RingSchedule(ring, managed)
  BY <1>2, <1>4, <1>10, SameSchedule
<1>13. RingEnabledScheduled'
  BY <1>1, <1>11, <1>12 DEF RingInv, RingEnabledScheduled, RingRunning
<1>14. Queued
  BY <1>1, <1>11 DEF Queued, ObserveManager
<1>15. RetryRight' /\ HalfRight'
  <2>1. /\ HalfRight'
        /\ Plain("retry_acceptor") \in ringSched' => Plain("retry_acceptor") \in ringSched
        /\ Plain("retry_connector") \in ringSched' => Plain("retry_connector") \in ringSched
    BY <1>1, <1>8, <1>14, QueueKeeps
  <2>2. /\ ring.acceptor # Null => managed'[ring.acceptor].told = managed[ring.acceptor].told
        /\ ring.connector # Null => managed'[ring.connector].told = managed[ring.connector].told
    BY <1>1, <1>4, <1>10
  <2> QED BY <1>1, <2>1, <2>2 DEF RingInv, RetryRight, Failed
<1>16. SendsRight'
  BY <1>1, <1>4, <1>5, <1>8, <1>10, SameSendsKeeps, SlotNames DEF SameSends
<1>17. HandOverRight'
  <2>1. ASSUME NEW v \in Links, NEW u \in Listeners, Expects(v, u)'
        PROVE  Expects(v, u) /\ u # s /\ v # s
    BY <1>1, <1>4, <1>5, <2>1, SlotNames DEF Expects
  <2>2. \A u \in Listeners : u # s => (managed'[u] = Unused <=> managed[u] = Unused)
                             /\ managed'[u].life = managed[u].life /\ managed'[u].told = managed[u].told
    BY <1>1, <1>4, SlotNames
  <2>3. managed'[s].life # "ending"
    BY <1>1, <1>5 DEF Unused
  <2>4. \A u \in Listeners : \A v \in Links : managed'[u] = Unused => ~Expects(v, u)'
    BY <2>1, <2>2 DEF RingInv, HandOverRight
  <2>5. ring.half = "accepting" =>
          \A u \in Listeners : managed'[u].life = "ending" => Failed(u)'
    BY <2>2, <2>3 DEF RingInv, HandOverRight, Failed
  <2>6. ring.half = "connecting" =>
          \A u \in Listeners : managed'[u].life = "ending" => Failed(u)' \/ \A v \in Links : ~Expects(v, u)'
    BY <2>1, <2>2, <2>3 DEF RingInv, HandOverRight, Failed
  <2>7. ring.half = "connecting" =>
           \A v \in Links : ring.connector # Null /\ Expects(v, ring.connector)' => v = ring.successor
    BY <1>1, <2>1, ReferredKinds DEF RingInv, HandOverRight, Expects
  <2>8. ring.successor # Null /\ managed'[ring.successor].fd = "held" => managed[ring.successor].fd = "held"
    <3>1. ring.successor # Null => managed[ring.successor] # Unused
      BY <1>10, ReferredKinds DEF Referred
    <3> QED BY <1>1, <1>4, <1>10, <3>1, SlotNames
  <2>9. ring.connector # Null => (Failed(ring.connector)' <=> Failed(ring.connector))
    BY <1>1, <2>2, <1>10, ReferredKinds DEF Failed
  <2>10. ring.half = "connecting" =>
           (ring.successor # Null /\ managed'[ring.successor].fd = "held" =>
              ring.connector # Null /\ ~Failed(ring.connector)')
    BY <2>8, <2>9 DEF RingInv, HandOverRight
  <2> QED BY <1>1, <2>4, <2>5, <2>6, <2>7, <2>10 DEF HandOverRight
<1> QED BY <1>8, <1>9, <1>13, <1>15, <1>16, <1>17 DEF RingInv

LEMMA AcceptKeeps ==
  ASSUME RingInv, Accept
  PROVE  RingInv'
<1>1. PICK s \in Listeners :
        /\ RingRuns(<<"accept", s>>)
        /\ RingHandler(<<"accept", s>>, [ring EXCEPT !.acceptFlag = TRUE],
                       [managed EXCEPT ![ring.predecessor].fd = s])
  BY DEF Accept
<1> DEFINE r == [ring EXCEPT !.acceptFlag = TRUE]
           t == ring.predecessor
           x == [managed[t] EXCEPT !.fd = s]
<1>2. s = ring.acceptor /\ s # Null /\ Is(managed, t, "created")
  BY <1>1, Preconditions DEF RingRuns
<1>3. ring \in RingType
  BY DEF RingInv, RingTyped
<1>4. /\ r \in RingType /\ r.half = ring.half /\ r.acceptor = ring.acceptor
      /\ r.predecessor = ring.predecessor
      /\ r.successor = ring.successor /\ r.connector = ring.connector
      /\ r.successorConnected = ring.successorConnected /\ r.clearToSend = ring.clearToSend
      /\ r.garbage = ring.garbage
  BY <1>3 DEF RingType
<1>5. t \in Links /\ t \in Slots /\ managed[t] \in SlotType /\ managed[t] # Unused
  BY <1>2, ReferredKinds, SlotNames DEF Is, Referred
<1>6. /\ x \in SlotType /\ x.life = managed[t].life /\ x.fd = s
      /\ x.told = managed[t].told /\ x.outstanding = managed[t].outstanding
  BY <1>5 DEF SlotType
<1>7. ring' = r /\ managed' = [managed EXCEPT ![t] = x] /\ Queued /\ RingEnabledScheduled'
  BY <1>1, HandlerSchedules
<1> HIDE DEF r, t, x
<1>8. RingTyped' /\ managed'[t] = x /\ \A u \in Slots : u # t => managed'[u] = managed[u]
  BY <1>4, <1>5, <1>6, <1>7, ManagerChanges
<1>9. \A u \in Slots : /\ managed'[u].life = managed[u].life /\ managed'[u].told = managed[u].told
                       /\ managed'[u].outstanding = managed[u].outstanding
                       /\ managed'[u] # Unused => managed[u] # Unused
  BY <1>5, <1>6, <1>8
<1>10. RefersRight'
  BY <1>4, <1>7, <1>9 DEF RingInv, RefersRight, Referred
<1>11. RetryRight' /\ HalfRight'
  BY <1>4, <1>7, <1>8, <1>9, SameRetries, QueueKeeps, SlotNames
<1>12. SendsRight'
  <2>1. ring.successor # Null => ring.successor \in Slots
    BY ReferredKinds, SlotNames
  <2> QED BY <1>4, <1>7, <1>8, <1>9, <2>1, SameSendsKeeps, SlotNames DEF SameSends
<1>13. ring.half = "accepting"
  BY <1>2, <1>3 DEF RingInv, RefersRight, RingType, Halves
<1>14. HandOverRight'
  <2>1. \A u \in Listeners : managed'[u] = managed[u]
    BY <1>5, <1>8, SlotNames
  <2>2. \A u \in Listeners : \A v \in Links : managed'[u] = Unused => ~Expects(v, u)'
    <3>1. managed[s] # Unused
      BY <1>2, ReferredKinds, SlotNames DEF Referred
    <3> QED BY <1>6, <1>8, <2>1, <3>1, SlotNames DEF RingInv, HandOverRight, Expects
  <2>3. \A u \in Listeners : managed'[u].life = "ending" => Failed(u)'
    BY <1>13, <2>1 DEF RingInv, HandOverRight, Failed
  <2> QED BY <1>4, <1>7, <1>13, <2>2, <2>3 DEF HandOverRight
<1> QED BY <1>7, <1>8, <1>10, <1>11, <1>12, <1>14 DEF RingInv

\* A handler that makes the manager s and refers to it with r.
LEMMA ManagerIsMade ==
  ASSUME RingInv, NEW s \in Slots, managed[s] = Unused, NEW r \in RingType, NEW a,
         RingHandler(a, r, [managed EXCEPT ![s] = NewManager]),
         r.half = ring.half, r.garbage = ring.garbage,
         \A t \in Slots : t \in Referred(r) <=> t = s \/ t \in Referred(ring),
         r.half = "accepting" => r.successor = Null /\ r.connector = Null,
         r.half = "connecting" => r.acceptor = Null /\ r.predecessor = Null
  PROVE  /\ ring' = r /\ RingTyped' /\ RefersRight' /\ HalfRight' /\ RingEnabledScheduled'
         /\ Plain("retry_acceptor") \in ringSched' => Plain("retry_acceptor") \in ringSched
         /\ Plain("retry_connector") \in ringSched' => Plain("retry_connector") \in ringSched
         /\ managed'[s].fd = Null /\ managed'[s].told = {} /\ managed'[s].outstanding = 0
         /\ managed'[s] # Unused /\ managed'[s].life = "asked"
         /\ \A t \in Slots : t # s => managed'[t] = managed[t]
<1>1. ring' = r /\ managed' = [managed EXCEPT ![s] = NewManager] /\ Queued /\ RingEnabledScheduled'
  BY HandlerSchedules
<1>2. NewManager \in SlotType
  BY SlotKinds DEF RingInv
<1>3. /\ NewManager.fd = Null /\ NewManager.told = {} /\ NewManager.outstanding = 0
      /\ NewManager.life = "asked" /\ NewManager # Unused
  <2>1. NewManager.life # Unused.life
    BY DEF NewManager, Unused
  <2> QED BY <2>1 DEF NewManager
<1>4. RingTyped' /\ managed'[s] = NewManager /\ \A t \in Slots : t # s => managed'[t] = managed[t]
  BY <1>1, <1>2, ManagerChanges
<1>5. RefersRight'
  BY <1>1, <1>3, <1>4 DEF RingInv, RefersRight, Referred
<1>6. /\ HalfRight'
      /\ Plain("retry_acceptor") \in ringSched' => Plain("retry_acceptor") \in ringSched
      /\ Plain("retry_connector") \in ringSched' => Plain("retry_connector") \in ringSched
  BY <1>1, <1>4, QueueKeeps
<1> QED BY <1>1, <1>3, <1>4, <1>5, <1>6

LEMMA FreeName ==
  ASSUME NEW names, AnyName(names)
  PROVE  AName(names) \in names /\ managed[AName(names)] = Unused
BY DEF AName, AnyName

LEMMA CreateAcceptorKeeps ==
  ASSUME RingInv, CreateAcceptor
  PROVE  RingInv'
<1> DEFINE s == AName(Listeners)
           r == [ring EXCEPT !.acceptor = s]
<1>1. /\ RingHandler(Plain("create_acceptor"), r, [managed EXCEPT ![s] = NewManager])
      /\ ring.acceptor = Null /\ Plain("create_acceptor") \in ringSched
      /\ s \in Listeners /\ managed[s] = Unused /\ s \in Slots
  BY FreeName, Preconditions, SlotNames DEF CreateAcceptor, RingRuns, Plain
<1>2. ring.half = "accepting" /\ ring.successor = Null /\ ring.connector = Null
  BY <1>1 DEF RingInv, HalfRight, RefersRight
<1>3. ring \in RingType
  BY DEF RingInv, RingTyped
<1> HIDE DEF s
<1>4. /\ r \in RingType /\ r.half = ring.half /\ r.acceptor = s
      /\ r.predecessor = ring.predecessor /\ r.successor = Null /\ r.connector = Null
      /\ r.successorConnected = ring.successorConnected /\ r.clearToSend = ring.clearToSend
      /\ r.garbage = ring.garbage
  BY <1>1, <1>2, <1>3 DEF RingType
<1> HIDE DEF r
<1>5. \A t \in Slots : t \in Referred(r) <=> t = s \/ t \in Referred(ring)
  BY <1>1, <1>2, <1>4, SlotNames DEF Referred
<1>6. /\ ring' = r /\ RingTyped' /\ RefersRight' /\ HalfRight' /\ RingEnabledScheduled'
      /\ Plain("retry_acceptor") \in ringSched' => Plain("retry_acceptor") \in ringSched
      /\ Plain("retry_connector") \in ringSched' => Plain("retry_connector") \in ringSched
      /\ managed'[s] # Unused /\ managed'[s].life = "asked"
      /\ \A t \in Slots : t # s => managed'[t] = managed[t]
  BY <1>1, <1>2, <1>4, <1>5, ManagerIsMade
<1>7. RetryRight'
  BY <1>1, <1>2, <1>6 DEF RingInv, RetryRight
<1>8. \A v \in Links : managed'[v] = managed[v]
  BY <1>1, <1>6, SlotNames
<1>9. SendsRight'
  BY <1>2, <1>4, <1>6, <1>8, SameSendsKeeps DEF SameSends
<1>10. HandOverRight'
  <2>1. \A u \in Listeners : u = s \/ managed'[u] = managed[u]
    BY <1>6, SlotNames
  <2>2. \A u \in Listeners : \A v \in Links : managed'[u] = Unused => ~Expects(v, u)'
    BY <1>6, <1>8, <2>1 DEF RingInv, HandOverRight, Expects
  <2>3. \A u \in Listeners : managed'[u].life = "ending" => Failed(u)'
    BY <1>2, <1>6, <2>1 DEF RingInv, HandOverRight, Failed
  <2> QED BY <1>2, <1>4, <1>6, <2>2, <2>3 DEF HandOverRight
<1> QED BY <1>6, <1>7, <1>9, <1>10 DEF RingInv

LEMMA CreatePredecessorKeeps ==
  ASSUME RingInv, CreatePredecessor
  PROVE  RingInv'
<1> DEFINE s == AName(Links)
           r == [ring EXCEPT !.predecessor = s, !.acceptFlag = FALSE]
<1>1. /\ RingHandler(Plain("create_predecessor"), r, [managed EXCEPT ![s] = NewManager])
      /\ ring.predecessor = Null /\ Plain("create_predecessor") \in ringSched
      /\ s \in Links /\ managed[s] = Unused /\ s \in Slots
  BY FreeName, Preconditions, SlotNames DEF CreatePredecessor, RingRuns, Plain
<1>2. ring.half = "accepting" /\ ring.successor = Null /\ ring.connector = Null
  BY <1>1 DEF RingInv, HalfRight, RefersRight
<1>3. ring \in RingType
  BY DEF RingInv, RingTyped
<1> HIDE DEF s
<1>4. /\ r \in RingType /\ r.half = ring.half /\ r.predecessor = s
      /\ r.acceptor = ring.acceptor /\ r.successor = Null /\ r.connector = Null
      /\ r.successorConnected = ring.successorConnected /\ r.clearToSend = ring.clearToSend
      /\ r.garbage = ring.garbage
  BY <1>1, <1>2, <1>3 DEF RingType
<1> HIDE DEF r
<1>5. \A t \in Slots : t \in Referred(r) <=> t = s \/ t \in Referred(ring)
  BY <1>1, <1>2, <1>4, SlotNames DEF Referred
<1>6. /\ ring' = r /\ RingTyped' /\ RefersRight' /\ HalfRight' /\ RingEnabledScheduled'
      /\ Plain("retry_acceptor") \in ringSched' => Plain("retry_acceptor") \in ringSched
      /\ Plain("retry_connector") \in ringSched' => Plain("retry_connector") \in ringSched
      /\ managed'[s].fd = Null /\ managed'[s].outstanding = 0
      /\ \A t \in Slots : t # s => managed'[t] = managed[t]
  BY <1>1, <1>2, <1>4, <1>5, ManagerIsMade
<1>7. \A u \in Listeners : managed'[u] = managed[u]
  BY <1>1, <1>6, SlotNames
<1>8. RetryRight'
  BY <1>2, <1>4, <1>6, <1>7, SameRetries
<1>9. \A v \in Links : v = s \/ managed'[v] = managed[v]
  BY <1>6, SlotNames
<1>10. SendsRight'
  BY <1>2, <1>4, <1>6, <1>9, SameSendsKeeps DEF SameSends
<1>11. HandOverRight'
  <2>1. \A u \in Listeners : \A v \in Links : managed'[u] = Unused => ~Expects(v, u)'
    BY <1>6, <1>7, <1>9, SlotNames DEF RingInv, HandOverRight, Expects
  <2>2. \A u \in Listeners : managed'[u].life = "ending" => Failed(u)'
    BY <1>2, <1>7 DEF RingInv, HandOverRight, Failed
  <2> QED BY <1>2, <1>4, <1>6, <2>1, <2>2 DEF HandOverRight
<1> QED BY <1>6, <1>8, <1>10, <1>11 DEF RingInv

LEMMA CreateSuccessorKeeps ==
  ASSUME RingInv, CreateSuccessor
  PROVE  RingInv'
<1> DEFINE s == AName(Links)
           r == [ring EXCEPT !.successor = s]
<1>1. /\ RingHandler(Plain("create_successor"), r, [managed EXCEPT ![s] = NewManager])
      /\ ring.successor = Null /\ Plain("create_successor") \in ringSched
      /\ s \in Links /\ managed[s] = Unused /\ s \in Slots
  BY FreeName, Preconditions, SlotNames DEF CreateSuccessor, RingRuns, Plain
<1>2. ring.half = "connecting" /\ ring.acceptor = Null /\ ring.predecessor = Null
  BY <1>1 DEF RingInv, HalfRight, RefersRight
<1>3. ring \in RingType
  BY DEF RingInv, RingTyped
<1> HIDE DEF s
<1>4. /\ r \in RingType /\ r.half = ring.half /\ r.successor = s
      /\ r.acceptor = Null /\ r.predecessor = Null /\ r.connector = ring.connector
      /\ r.successorConnected = ring.successorConnected /\ r.clearToSend = ring.clearToSend
      /\ r.garbage = ring.garbage
  BY <1>1, <1>2, <1>3 DEF RingType
<1> HIDE DEF r
<1>5. \A t \in Slots : t \in Referred(r) <=> t = s \/ t \in Referred(ring)
  BY <1>1, <1>2, <1>4, SlotNames DEF Referred
<1>6. /\ ring' = r /\ RingTyped' /\ RefersRight' /\ HalfRight' /\ RingEnabledScheduled'
      /\ Plain("retry_acceptor") \in ringSched' => Plain("retry_acceptor") \in ringSched
      /\ Plain("retry_connector") \in ringSched' => Plain("retry_connector") \in ringSched
      /\ managed'[s].fd = Null /\ managed'[s].told = {} /\ managed'[s].outstanding = 0
      /\ \A t \in Slots : t # s => managed'[t] = managed[t]
  BY <1>1, <1>2, <1>4, <1>5, ManagerIsMade
<1>7. \A u \in Listeners : managed'[u] = managed[u]
  BY <1>1, <1>6, SlotNames
<1>8. RetryRight'
  BY <1>2, <1>4, <1>6, <1>7, SameRetries
<1>9. \A v \in Links : v = s \/ managed'[v] = managed[v]
  BY <1>6, SlotNames
<1>10. SendsRight'
  <2>1. Extra' = Extra /\ Extra \in {0, 1}
    BY <1>4, <1>6 DEF Extra
  <2>2. \A v \in Links : managed'[v] # Unused => managed'[v].outstanding <= 1 + Extra'
    BY <1>6, <1>9, <2>1 DEF RingInv, SendsRight
  <2>3. ring.successorConnected => ring.garbage
    BY <1>1 DEF RingInv, SendsRight
  <2>4. s # Null
    BY <1>1, SlotNames
  <2> QED BY <1>4, <1>6, <2>2, <2>3, <2>4 DEF SendsRight
<1>11. HandOverRight'
  <2>1. \A v \in Links : \A u \in Listeners : Expects(v, u)' => Expects(v, u)
    BY <1>6, <1>9, SlotNames DEF Expects
  <2>2. \A u \in Listeners : \A v \in Links : managed'[u] = Unused => ~Expects(v, u)'
    BY <1>7, <2>1 DEF RingInv, HandOverRight
  <2>3. \A u \in Listeners : managed'[u].life = "ending" => Failed(u)' \/ \A v \in Links : ~Expects(v, u)'
    BY <1>2, <1>7, <2>1 DEF RingInv, HandOverRight, Failed
  <2>4. \A v \in Links : ring.connector # Null => ~Expects(v, ring.connector)
    BY <1>1, <1>2, SlotNames DEF RingInv, HandOverRight
  <2>5. ring'.connector = ring.connector /\ (ring.connector # Null => ring.connector \in Listeners)
    BY <1>4, <1>6, ReferredKinds
  <2>6. \A v \in Links : ring'.connector # Null => ~Expects(v, ring.connector)'
    BY <1>6, <1>9, <2>4, <2>5, SlotNames DEF Expects
  <2>7. \A v \in Links : ~(ring'.connector # Null /\ Expects(v, ring.connector)')
    BY <2>6
  <2>8. managed'[ring'.successor].fd # "held"
    BY <1>4, <1>6, SlotNames
  <2> QED BY <1>2, <1>4, <1>6, <2>2, <2>3, <2>7, <2>8 DEF HandOverRight
<1> QED BY <1>6, <1>8, <1>10, <1>11 DEF RingInv

LEMMA ConnectKeeps ==
  ASSUME RingInv, Connect
  PROVE  RingInv'
<1> DEFINE s == AName(Listeners)
           r == [ring EXCEPT !.connector = s]
           t == ring.successor
           x == [managed[t] EXCEPT !.fd = s]
<1>1. /\ RingHandler(Plain("connect"), r, [managed EXCEPT ![s] = NewManager, ![t].fd = s])
      /\ ring.connector = Null /\ Is(managed, t, "created")
      /\ s \in Listeners /\ managed[s] = Unused /\ s \in Slots
  BY FreeName, Preconditions, SlotNames DEF Connect, RingRuns, Plain
<1>2. ring \in RingType /\ managed \in [Slots -> SlotType \cup {Unused}]
  BY DEF RingInv, RingTyped
<1>3. ring.half = "connecting" /\ ring.acceptor = Null /\ ring.predecessor = Null
  BY <1>1, <1>2 DEF RingInv, RefersRight, Is, RingType, Halves
<1>4. t \in Links /\ t \in Slots /\ managed[t] \in SlotType /\ managed[t] # Unused /\ t # s
  BY <1>1, ReferredKinds, SlotNames DEF Is, Referred
<1> HIDE DEF s
<1>5. /\ r \in RingType /\ r.half = ring.half /\ r.successor = t
      /\ r.acceptor = Null /\ r.predecessor = Null /\ r.connector = s
      /\ r.successorConnected = ring.successorConnected /\ r.clearToSend = ring.clearToSend
      /\ r.garbage = ring.garbage
  BY <1>1, <1>2, <1>3 DEF RingType
<1>6. /\ x \in SlotType /\ x.life = managed[t].life /\ x.fd = s
      /\ x.told = managed[t].told /\ x.outstanding = managed[t].outstanding
  BY <1>1, <1>4 DEF SlotType
<1>7. /\ NewManager \in SlotType /\ NewManager.life = "asked" /\ NewManager # Unused
  BY SlotKinds DEF RingInv, NewManager, Unused
<1>8. ring' = r /\ Queued /\ RingEnabledScheduled'
      /\ managed' = [managed EXCEPT ![s] = NewManager, ![t].fd = s]
  BY <1>1, HandlerSchedules
<1>9. managed' = [managed EXCEPT ![s] = NewManager, ![t] = x]
  BY <1>4, <1>8
<1> HIDE DEF r, t, x
<1>10. /\ managed' \in [Slots -> SlotType \cup {Unused}]
       /\ managed'[s] = NewManager /\ managed'[t] = x
       /\ \A u \in Slots : u # s /\ u # t => managed'[u] = managed[u]
  BY <1>1, <1>2, <1>4, <1>6, <1>7, <1>9
<1>11. RingTyped'
  BY <1>5, <1>8, <1>10 DEF RingTyped
<1>12. RefersRight'
  <2>1. \A u \in Slots : u \in Referred(r) <=> u = s \/ u \in Referred(ring)
    BY <1>1, <1>3, <1>5, SlotNames DEF Referred, t
  <2>2. \A u \in Slots : u # s => managed'[u].life = managed[u].life
    BY <1>6, <1>10
  <2>3. \A u \in Slots : managed'[u].life \in {"asked", "created"} <=> u \in Referred(r)
    BY <1>7, <1>10, <2>1, <2>2 DEF RingInv, RefersRight
  <2> QED BY <1>3, <1>5, <1>8, <2>3 DEF RefersRight, Referred
<1>13. RetryRight' /\ HalfRight'
  <2>1. /\ HalfRight'
        /\ Plain("retry_acceptor") \in ringSched' => Plain("retry_acceptor") \in ringSched
        /\ Plain("retry_connector") \in ringSched' => Plain("retry_connector") \in ringSched
    BY <1>5, <1>8, <1>11, QueueKeeps
  <2>2. Plain("retry_acceptor") \notin ringSched /\ Plain("retry_connector") \notin ringSched
    BY <1>1, <1>3 DEF RingInv, RetryRight
  <2> QED BY <2>1, <2>2 DEF RetryRight
<1>14. SendsRight'
  <2>1. \A v \in Links : managed'[v].outstanding = managed[v].outstanding
                         /\ (managed'[v] # Unused => managed[v] # Unused)
    BY <1>1, <1>4, <1>6, <1>10, SlotNames
  <2>2. ring.successor = t /\ managed'[t].told = managed[t].told
    BY <1>6, <1>10 DEF t
  <2> QED BY <1>4, <1>5, <1>8, <1>11, <2>1, <2>2, SameSendsKeeps DEF SameSends
<1>15. HandOverRight'
  <2>1. \A u \in Listeners : u = s \/ managed'[u] = managed[u]
    BY <1>4, <1>10, SlotNames
  <2>2. \A v \in Links : v = t \/ managed'[v] = managed[v]
    BY <1>1, <1>10, SlotNames
  <2>3. \A v \in Links : ~Expects(v, s)
    BY <1>1 DEF RingInv, HandOverRight
  <2>4. \A v \in Links : \A u \in Listeners : u # s /\ Expects(v, u)' => Expects(v, u)
    BY <1>6, <1>10, <2>2 DEF Expects
  <2>5. \A v \in Links : managed'[v] # Unused /\ managed'[v].fd = s => v = t
    BY <2>2, <2>3 DEF Expects
  <2>6. \A u \in Listeners : \A v \in Links : managed'[u] = Unused => ~Expects(v, u)'
    BY <1>7, <1>10, <2>1, <2>4 DEF RingInv, HandOverRight
  <2>7. \A u \in Listeners : managed'[u].life = "ending" => Failed(u)' \/ \A v \in Links : ~Expects(v, u)'
    BY <1>3, <1>7, <1>10, <2>1, <2>4 DEF RingInv, HandOverRight, Failed
  <2>8. ring'.connector = s /\ ring'.successor = t /\ managed'[t].fd # "held"
    BY <1>1, <1>5, <1>6, <1>8, <1>10, SlotNames
  <2>9. \A v \in Links : Expects(v, ring.connector)' => v = t
    BY <2>5, <2>8 DEF Expects
  <2> QED BY <1>3, <1>5, <1>8, <2>6, <2>7, <2>8, <2>9 DEF HandOverRight
<1> QED BY <1>8, <1>11, <1>12, <1>13, <1>14, <1>15 DEF RingInv

\* A handler that asks for the destruction of names and no more refers to them.
LEMMA ManagersEnd ==
  ASSUME RingInv, NEW names, NEW r \in RingType, NEW a, RingHandler(a, r, Destroying(names)),
         r.half = ring.half, r.garbage = ring.garbage,
         \A t \in Slots : t \in names => t \in Referred(ring),
         \A t \in Slots : t \in Referred(r) <=> t \in Referred(ring) /\ t \notin names,
         r.half = "accepting" => r.successor = Null /\ r.connector = Null,
         r.half = "connecting" => r.acceptor = Null /\ r.predecessor = Null
  PROVE  /\ ring' = r /\ RingTyped' /\ RefersRight' /\ HalfRight' /\ RingEnabledScheduled'
         /\ Plain("retry_acceptor") \in ringSched' => Plain("retry_acceptor") \in ringSched
         /\ Plain("retry_connector") \in ringSched' => Plain("retry_connector") \in ringSched
         /\ a \notin RingSchedule(r, Destroying(names)) => a \notin ringSched'
         /\ \A t \in Slots : managed[t] # Unused => /\ managed'[t].fd = managed[t].fd
                                                  /\ managed'[t].told = managed[t].told
                                                  /\ managed'[t].outstanding = managed[t].outstanding
         /\ \A t \in Slots : managed'[t] = Unused <=> managed[t] = Unused
         /\ \A t \in Slots : managed'[t].life = "ending" <=> managed[t].life = "ending" \/ t \in names
<1>1. /\ ring' = r /\ managed' = Destroying(names) /\ Queued /\ RingEnabledScheduled'
      /\ a \notin RingSchedule(r, Destroying(names)) => a \notin ringSched'
  BY HandlerSchedules
<1>2. managed \in [Slots -> SlotType \cup {Unused}]
  BY DEF RingInv, RingTyped
<1>3. ASSUME NEW t \in Slots, t \in names
      PROVE  /\ managed[t] # Unused /\ managed'[t] \in SlotType /\ managed'[t] # Unused
             /\ managed'[t].life = "ending" /\ managed'[t].fd = managed[t].fd
             /\ managed'[t].told = managed[t].told /\ managed'[t].outstanding = managed[t].outstanding
  <2>1. managed[t] # Unused /\ managed[t] \in SlotType
    BY <1>3, ReferredKinds
  <2>2. managed'[t] = [managed[t] EXCEPT !.life = "ending"]
    BY <1>1, <1>3 DEF Destroying
  <2>3. /\ managed'[t] \in SlotType
        /\ managed'[t].life = "ending" /\ managed'[t].fd = managed[t].fd
        /\ managed'[t].told = managed[t].told /\ managed'[t].outstanding = managed[t].outstanding
    BY <2>1, <2>2 DEF SlotType
  <2>4. managed'[t] # Unused
    BY <2>3 DEF Unused
  <2> QED BY <2>1, <2>3, <2>4
<1>4. ASSUME NEW t \in Slots, t \notin names PROVE managed'[t] = managed[t]
  BY <1>1, <1>4 DEF Destroying
<1>5. RingTyped'
  <2>1. managed' = [t \in Slots |-> managed'[t]]
    BY <1>1 DEF Destroying
  <2>2. \A t \in Slots : managed'[t] \in SlotType \cup {Unused}
    BY <1>2, <1>3, <1>4
  <2>3. managed' \in [Slots -> SlotType \cup {Unused}]
    BY <2>1, <2>2
  <2> QED BY <1>1, <2>3 DEF RingTyped
<1>6. RefersRight'
  <2>1. \A t \in Slots : managed'[t].life \in {"asked", "created"} <=> t \in Referred(r)
    BY <1>3, <1>4 DEF RingInv, RefersRight
  <2> QED BY <1>1, <2>1 DEF RefersRight, Referred
<1>7. /\ HalfRight'
      /\ Plain("retry_acceptor") \in ringSched' => Plain("retry_acceptor") \in ringSched
      /\ Plain("retry_connector") \in ringSched' => Plain("retry_connector") \in ringSched
  BY <1>1, <1>5, QueueKeeps
<1> QED BY <1>1, <1>3, <1>4, <1>5, <1>6, <1>7

LEMMA RetryAcceptorKeeps ==
  ASSUME RingInv, RetryAcceptor
  PROVE  RingInv'
<1> DEFINE names == {ring.acceptor, ring.predecessor}
           r == [ring EXCEPT !.acceptor = Null, !.predecessor = Null, !.acceptFlag = FALSE]
<1>1. /\ RingHandler(Plain("retry_acceptor"), r, Destroying(names))
      /\ ring.acceptor # Null /\ Plain("retry_acceptor") \in ringSched
  BY Preconditions DEF RetryAcceptor, RingRuns, Plain
<1>2. ring \in RingType
  BY DEF RingInv, RingTyped
<1>3. /\ ring.half = "accepting" /\ ring.successor = Null /\ ring.connector = Null
      /\ Failed(ring.acceptor)
  BY <1>1, <1>2 DEF RingInv, RefersRight, RetryRight, RingType, Halves
<1>4. /\ r \in RingType /\ r.half = ring.half /\ r.acceptor = Null
      /\ r.predecessor = Null /\ r.successor = Null /\ r.connector = Null
      /\ r.successorConnected = ring.successorConnected /\ r.clearToSend = ring.clearToSend
      /\ r.garbage = ring.garbage
  BY <1>2, <1>3 DEF RingType
<1>5. /\ \A t \in Slots : t \in names => t \in Referred(ring)
      /\ \A t \in Slots : t \in Referred(r) <=> t \in Referred(ring) /\ t \notin names
  BY <1>3, <1>4, SlotNames DEF Referred
<1>6. \A u \in Listeners : u \in names => u = ring.acceptor
  BY ReferredKinds, SlotNames
<1> HIDE DEF r, names
<1>7. /\ ring' = r /\ RingTyped' /\ RefersRight' /\ HalfRight' /\ RingEnabledScheduled'
      /\ Plain("retry_connector") \in ringSched' => Plain("retry_connector") \in ringSched
      /\ Plain("retry_acceptor") \notin RingSchedule(r, Destroying(names)) =>
           Plain("retry_acceptor") \notin ringSched'
      /\ \A t \in Slots : managed[t] # Unused => /\ managed'[t].fd = managed[t].fd
                                               /\ managed'[t].told = managed[t].told
                                               /\ managed'[t].outstanding = managed[t].outstanding
      /\ \A t \in Slots : managed'[t] = Unused <=> managed[t] = Unused
      /\ \A t \in Slots : managed'[t].life = "ending" <=> managed[t].life = "ending" \/ t \in names
  BY <1>1, <1>3, <1>4, <1>5, ManagersEnd
<1>8. RetryRight'
  <2>1. Plain("retry_acceptor") \notin ringSched'
    BY <1>4, <1>7, NoRetryScheduled DEF RingType
  <2>2. Plain("retry_connector") \notin ringSched
    BY <1>3 DEF RingInv, RetryRight
  <2> QED BY <1>7, <2>1, <2>2 DEF RetryRight
<1>9. SendsRight'
  BY <1>3, <1>4, <1>7, SameSendsKeeps, SlotNames DEF SameSends
<1>10. HandOverRight'
  <2>1. \A u \in Listeners : \A v \in Links : managed'[u] = Unused => ~Expects(v, u)'
    BY <1>7, SlotNames DEF RingInv, HandOverRight, Expects
  <2>2. \A u \in Listeners : managed'[u].life = "ending" => Failed(u)'
    <3>1. \A u \in Listeners : managed[u].life = "ending" \/ u = ring.acceptor => managed[u] # Unused
      BY ReferredKinds, SlotNames DEF Unused, Referred
    <3>2. \A u \in Listeners : managed[u].life = "ending" \/ u = ring.acceptor => Failed(u)
      BY <1>3 DEF RingInv, HandOverRight
    <3> QED BY <1>6, <1>7, <3>1, <3>2, SlotNames DEF Failed
  <2> QED BY <1>3, <1>4, <1>7, <2>1, <2>2 DEF HandOverRight
<1> QED BY <1>7, <1>8, <1>9, <1>10 DEF RingInv

LEMMA PredecessorErrorKeeps ==
  ASSUME RingInv, NEW s \in Links, PredecessorError(s)
  PROVE  RingInv'
<1>1. CASE s # ring.predecessor
  BY <1>1, AbortKeeps DEF PredecessorError
<1>2. CASE s = ring.predecessor
  <2> DEFINE r == [ring EXCEPT !.predecessor = Null, !.acceptFlag = FALSE]
  <2>1. /\ RingHandler(Input, r, Destroying({s})) /\ ring.half = "accepting" /\ s \in Slots
    BY <1>2, SlotNames DEF PredecessorError
  <2>2. ring \in RingType
    BY DEF RingInv, RingTyped
  <2>3. ring.successor = Null /\ ring.connector = Null
    BY <2>1 DEF RingInv, RefersRight
  <2>4. /\ r \in RingType /\ r.half = ring.half /\ r.acceptor = ring.acceptor
        /\ r.predecessor = Null /\ r.successor = Null /\ r.connector = Null
        /\ r.successorConnected = ring.successorConnected /\ r.clearToSend = ring.clearToSend
        /\ r.garbage = ring.garbage
    BY <2>2, <2>3 DEF RingType
  <2> HIDE DEF r
  <2>5. s # ring.acceptor
    BY ReferredKinds, SlotNames
  <2>6. /\ \A t \in Slots : t \in {s} => t \in Referred(ring)
        /\ \A t \in Slots : t \in Referred(r) <=> t \in Referred(ring) /\ t \notin {s}
    BY <1>2, <2>1, <2>3, <2>4, <2>5, SlotNames DEF Referred
  <2>7. /\ ring' = r /\ RingTyped' /\ RefersRight' /\ HalfRight' /\ RingEnabledScheduled'
        /\ Plain("retry_acceptor") \in ringSched' => Plain("retry_acceptor") \in ringSched
        /\ Plain("retry_connector") \in ringSched' => Plain("retry_connector") \in ringSched
        /\ \A t \in Slots : managed[t] # Unused => /\ managed'[t].fd = managed[t].fd
                                                 /\ managed'[t].told = managed[t].told
                                                 /\ managed'[t].outstanding = managed[t].outstanding
        /\ \A t \in Slots : managed'[t] = Unused <=> managed[t] = Unused
        /\ \A t \in Slots : managed'[t].life = "ending" <=> managed[t].life = "ending" \/ t \in {s}
    BY <2>1, <2>3, <2>4, <2>6, ManagersEnd
  <2>8. RetryRight'
    BY <2>3, <2>4, <2>7, SameRetries, SlotNames
  <2>9. SendsRight'
    BY <2>3, <2>4, <2>7, SameSendsKeeps, SlotNames DEF SameSends
  <2>10. HandOverRight'
    <3>1. \A u \in Listeners : \A v \in Links : managed'[u] = Unused => ~Expects(v, u)'
      BY <2>7, SlotNames DEF RingInv, HandOverRight, Expects
    <3>2. \A u \in Listeners : managed'[u].life = "ending" => Failed(u)'
      <4>1. \A u \in Listeners : managed'[u].life = "ending" => managed[u].life = "ending"
        BY <2>7, SlotNames
      <4>2. \A u \in Listeners : managed[u].life = "ending" => managed[u] # Unused /\ Failed(u)
        BY <2>1 DEF RingInv, HandOverRight, Unused
      <4> QED BY <2>7, <4>1, <4>2, SlotNames DEF Failed
    <3> QED BY <2>1, <2>4, <2>7, <3>1, <3>2 DEF HandOverRight
  <2> QED BY <2>7, <2>8, <2>9, <2>10 DEF RingInv
<1> QED BY <1>1, <1>2

LEMMA RetryConnectorKeeps ==
  ASSUME RingInv, RetryConnector
  PROVE  RingInv'
<1> DEFINE r == [ring EXCEPT !.connector = Null]
<1>1. /\ RingHandler(Plain("retry_connector"), r, Destroying({ring.connector}))
      /\ ring.connector # Null /\ Plain("retry_connector") \in ringSched
  BY Preconditions DEF RetryConnector, RingRuns, Plain
<1>2. ring \in RingType
  BY DEF RingInv, RingTyped
<1>3. /\ ring.half = "connecting" /\ ring.acceptor = Null /\ ring.predecessor = Null
      /\ Failed(ring.connector)
  BY <1>1, <1>2 DEF RingInv, RefersRight, RetryRight, RingType, Halves
<1>4. /\ r \in RingType /\ r.half = ring.half /\ r.acceptor = Null
      /\ r.predecessor = Null /\ r.successor = ring.successor /\ r.connector = Null
      /\ r.successorConnected = ring.successorConnected /\ r.clearToSend = ring.clearToSend
      /\ r.garbage = ring.garbage
  BY <1>2, <1>3 DEF RingType
<1> HIDE DEF r
<1>5. /\ ring.connector \in Listeners /\ ring.connector \in Slots /\ ring.connector \in Referred(ring)
      /\ ring.connector # ring.successor
      /\ ring.successor # Null => /\ ring.successor \in Slots /\ ring.successor \in Links
                                 /\ managed[ring.successor] # Unused
  BY <1>1, ReferredKinds, SlotNames DEF Referred
<1>6. /\ \A t \in Slots : t \in {ring.connector} => t \in Referred(ring)
      /\ \A t \in Slots : t \in Referred(r) <=> t \in Referred(ring) /\ t \notin {ring.connector}
  BY <1>3, <1>4, <1>5, SlotNames DEF Referred
<1>7. /\ ring' = r /\ RingTyped' /\ RefersRight' /\ HalfRight' /\ RingEnabledScheduled'
      /\ Plain("retry_acceptor") \in ringSched' => Plain("retry_acceptor") \in ringSched
      /\ Plain("retry_connector") \notin RingSchedule(r, Destroying({ring.connector})) =>
           Plain("retry_connector") \notin ringSched'
      /\ \A t \in Slots : managed[t] # Unused => /\ managed'[t].fd = managed[t].fd
                                               /\ managed'[t].told = managed[t].told
                                               /\ managed'[t].outstanding = managed[t].outstanding
      /\ \A t \in Slots : managed'[t] = Unused <=> managed[t] = Unused
      /\ \A t \in Slots : managed'[t].life = "ending"
                           <=> managed[t].life = "ending" \/ t \in {ring.connector}
  BY <1>1, <1>3, <1>4, <1>6, ManagersEnd
<1>8. RetryRight'
  <2>1. Plain("retry_connector") \notin ringSched'
    BY <1>4, <1>7, NoRetryScheduled DEF RingType
  <2>2. Plain("retry_acceptor") \notin ringSched
    BY <1>3 DEF RingInv, RetryRight
  <2> QED BY <1>7, <2>1, <2>2 DEF RetryRight
<1>9. SendsRight'
  BY <1>4, <1>5, <1>7, SameSendsKeeps, SlotNames DEF SameSends
<1>10. HandOverRight'
  <2>1. \A v \in Links : \A u \in Listeners : Expects(v, u)' <=> Expects(v, u)
    BY <1>7, SlotNames DEF Expects
  <2>2. \A u \in Listeners : \A v \in Links : managed'[u] = Unused => ~Expects(v, u)'
    BY <1>7, <2>1, SlotNames DEF RingInv, HandOverRight
  <2>3. \A u \in Listeners : managed'[u].life = "ending" => Failed(u)' \/ \A v \in Links : ~Expects(v, u)'
    <3>1. \A u \in Listeners : managed'[u].life = "ending" =>
            managed[u].life = "ending" \/ u = ring.connector
      BY <1>7, SlotNames
    <3>2. \A u \in Listeners : managed[u].life = "ending" \/ u = ring.connector => managed[u] # Unused
      BY <1>5, ReferredKinds DEF Unused
    <3>3. \A u \in Listeners : managed[u] # Unused => (Failed(u)' <=> Failed(u))
      BY <1>7, SlotNames DEF Failed
    <3> QED BY <1>3, <2>1, <3>1, <3>2, <3>3 DEF RingInv, HandOverRight
  <2>4. ring.successor # Null => managed'[ring.successor].fd # "held"
    BY <1>3, <1>5, <1>7 DEF RingInv, HandOverRight
  <2> QED BY <1>3, <1>4, <1>7, <2>2, <2>3, <2>4 DEF HandOverRight
<1> QED BY <1>7, <1>8, <1>9, <1>10 DEF RingInv

\* A successor with a descriptor has its connector beside it.
LEMMA SuccessorErrorKeeps ==
  ASSUME RingInv, NEW s \in Links, SuccessorError(s)
  PROVE  RingInv'
<1>1. CASE s # ring.successor
  BY <1>1, AbortKeeps DEF SuccessorError
<1>2. CASE s = ring.successor
  <2> DEFINE r == [ring EXCEPT !.successor = Null, !.connector = Null, !.successorConnected = FALSE]
             names == {s, ring.connector}
  <2>1. ring.half = "connecting" /\ managed[s].fd = "held" /\ s \in Slots /\ s # Null
    BY <1>2, SlotNames DEF SuccessorError, Reports
  <2>2. ring.connector # Null /\ ~Failed(ring.connector)
    BY <1>2, <2>1 DEF RingInv, HandOverRight
  <2>3. RingHandler(Input, r, Destroying(names))
    BY <1>2, <2>2 DEF SuccessorError
  <2>4. ring \in RingType
    BY DEF RingInv, RingTyped
  <2>5. ring.acceptor = Null /\ ring.predecessor = Null
    BY <2>1 DEF RingInv, RefersRight
  <2>6. /\ r \in RingType /\ r.half = ring.half /\ r.acceptor = Null
        /\ r.predecessor = Null /\ r.successor = Null /\ r.connector = Null
        /\ r.successorConnected = FALSE
        /\ r.garbage = ring.garbage
    BY <2>4, <2>5 DEF RingType
  <2>7. /\ \A t \in Slots : t \in names => t \in Referred(ring)
        /\ \A t \in Slots : t \in Referred(r) <=> t \in Referred(ring) /\ t \notin names
    BY <1>2, <2>5, <2>6, SlotNames DEF Referred
  <2>8. \A u \in Listeners : u \in names => u = ring.connector
    BY SlotNames
  <2> HIDE DEF r, names
  <2>9. /\ ring' = r /\ RingTyped' /\ RefersRight' /\ HalfRight' /\ RingEnabledScheduled'
        /\ Plain("retry_acceptor") \in ringSched' => Plain("retry_acceptor") \in ringSched
        /\ Plain("retry_connector") \in ringSched' => Plain("retry_connector") \in ringSched
        /\ \A t \in Slots : managed[t] # Unused => /\ managed'[t].fd = managed[t].fd
                                                 /\ managed'[t].told = managed[t].told
                                                 /\ managed'[t].outstanding = managed[t].outstanding
        /\ \A t \in Slots : managed'[t] = Unused <=> managed[t] = Unused
        /\ \A t \in Slots : managed'[t].life = "ending" <=> managed[t].life = "ending" \/ t \in names
    BY <2>1, <2>3, <2>5, <2>6, <2>7, ManagersEnd
  <2>10. RetryRight'
    <3>1. Plain("retry_acceptor") \notin ringSched /\ Plain("retry_connector") \notin ringSched
      BY <2>2, <2>5 DEF RingInv, RetryRight
    <3> QED BY <2>9, <3>1 DEF RetryRight
  <2>11. SendsRight'
    <3>1. Extra' = Extra
      BY <2>6, <2>9 DEF Extra
    <3>2. \A v \in Links : managed'[v] # Unused => managed'[v].outstanding <= 1 + Extra'
      BY <2>9, <3>1, SlotNames DEF RingInv, SendsRight
    <3> QED BY <2>6, <2>9, <3>2 DEF SendsRight
  <2>12. HandOverRight'
    <3>1. \A v \in Links : \A u \in Listeners : Expects(v, u)' <=> Expects(v, u)
      BY <2>9, SlotNames DEF Expects
    <3>2. \A u \in Listeners : \A v \in Links : managed'[u] = Unused => ~Expects(v, u)'
      BY <2>9, <3>1, SlotNames DEF RingInv, HandOverRight
    <3>3. ring.connector \in Listeners /\ \A v \in Links : ~Expects(v, ring.connector)
      BY <1>2, <2>1, <2>2, ReferredKinds, SlotNames DEF RingInv, HandOverRight, Expects
    <3>4. \A u \in Listeners : managed'[u].life = "ending" => Failed(u)' \/ \A v \in Links : ~Expects(v, u)'
      <4>1. \A u \in Listeners : managed'[u].life = "ending" =>
              managed[u].life = "ending" \/ u = ring.connector
        BY <2>8, <2>9, SlotNames
      <4>2. \A u \in Listeners : managed[u].life = "ending" =>
              managed[u] # Unused /\ (Failed(u) \/ \A v \in Links : ~Expects(v, u))
        BY <2>1 DEF RingInv, HandOverRight, Unused
      <4>3. \A u \in Listeners : managed[u] # Unused => (Failed(u)' <=> Failed(u))
        BY <2>9, SlotNames DEF Failed
      <4>4. \A u \in Listeners : u = ring.connector => \A v \in Links : ~Expects(v, u)'
        BY <3>1, <3>3
      <4> QED BY <3>1, <4>1, <4>2, <4>3, <4>4
    <3> QED BY <2>1, <2>6, <2>9, <3>2, <3>4 DEF HandOverRight
  <2> QED BY <2>9, <2>10, <2>11, <2>12 DEF RingInv
<1> QED BY <1>1, <1>2

LEMMA RingNextInv == RingInv /\ [RingSteps \/ RingInputs]_ringVars => RingInv'
<1> SUFFICES ASSUME RingInv, [RingSteps \/ RingInputs]_ringVars PROVE RingInv'
  OBVIOUS
<1>1. CASE UNCHANGED ringVars
  <2>1. ring' = ring /\ managed' = managed /\ ringSched' = ringSched
    BY <1>1 DEF ringVars
  <2>2. RingTyped' /\ SameManaged /\ SameSends /\ Queued /\ RingEnabledScheduled'
    <3>1. RingSchedule(ring, managed)' = RingSchedule(ring, managed)
      BY <2>1 DEF RingSchedule, RingPrecondition, Parameter, Is
    <3> QED BY <2>1, <3>1
            DEF RingInv, RingTyped, SameManaged, SameSends, Queued, RingEnabledScheduled, RingRunning
  <2> QED BY <2>2, QuietStep
<1>2. CASE RingSteps
  BY <1>2, CreateAcceptorKeeps, RetryAcceptorKeeps, CreatePredecessorKeeps, AcceptKeeps,
     RingQuietSteps, CreateSuccessorKeeps, ConnectKeeps, RetryConnectorKeeps, SendSuccessorKeeps,
     RingRunDisabledKeeps, ManagedCreatedKeeps, BindManagedKeeps, ManagedDestroyedKeeps
     DEF RingSteps
<1>3. CASE RingInputs
  BY <1>3, BindReceiveKeeps, RingQuietSteps, AcceptorFailsKeeps, ConnectorFailsKeeps, HandOverKeeps,
     PredecessorConnectedKeeps, PredecessorErrorKeeps, SuccessorConnectedKeeps, SuccessorErrorKeeps,
     SuccessorSendCompleteKeeps
     DEF RingInputs
<1> QED BY <1>1, <1>2, <1>3

LEMMA RingInvMeans ==
  RingInv => RingTypeOK /\ RingManagersAgree /\ OneMessageOutstanding /\ RingEnabledScheduled
<1> SUFFICES ASSUME RingInv
             PROVE  RingTypeOK /\ RingManagersAgree /\ OneMessageOutstanding /\ RingEnabledScheduled
  OBVIOUS
<1>1. RingTypeOK
  <2>1. ring \in RingType /\ managed \in [Slots -> SlotType \cup {Unused}]
    BY DEF RingInv, RingTyped
  <2>2. \A s \in Slots : managed[s] = Unused \/ managed[s] \in SlotType
    BY <2>1
  <2>3. ring \in [half : DOMAIN Halves, aborted : {"no", "link", "listener", "null"}, garbage : BOOLEAN,
                 acceptor : Listeners \cup {Null}, predecessor : Links \cup {Null},
                 acceptFlag : BOOLEAN,
                 successor : Links \cup {Null}, connector : Listeners \cup {Null},
                 successorConnected : BOOLEAN, clearToSend : BOOLEAN,
                 send : 0..MaxMessages, recv : 0..MaxMessages, receiveBound : BOOLEAN]
    BY <2>1 DEF RingType
  <2> QED BY <2>2, <2>3 DEF RingTypeOK, SlotType
<1>2. RingManagersAgree
  BY DEF RingInv, RingTyped, RingType, RefersRight, Referred, RingManagersAgree
<1>3. OneMessageOutstanding
  BY DEF RingInv, SendsRight, Extra, OneMessageOutstanding
<1> QED BY <1>1, <1>2, <1>3 DEF RingInv

(* Whatever fails and whenever managers come and go: the ring automaton     *)
(* refers to exactly the managers it has not asked to end and follows no    *)
(* null pointer; a successor has one message under way, or at most two if   *)
(* undefined flags began as if it were connected; what is enabled is        *)
(* queued.  (That a connection which was replaced does not report, as the   *)
(* code asserts, is false: LinkAssertionsHold.)                             *)
THEOREM RingRefersRight ==
  RingSpec => [](RingTypeOK /\ RingManagersAgree /\ OneMessageOutstanding /\ RingEnabledScheduled)
BY RingInitInv, RingNextInv, RingInvMeans, PTL DEF RingSpec
-----------------------------------------------------------------------------
(* The automata of Udp. *)

SenderType ==
  [queue : Seq(Users \X Kinds), sendSet : SUBSET Users, completeSet : SUBSET Users,
   state : {"SCHEDULE_WRITE_READY", "WRITE_READY_WAIT"}, errno : BOOLEAN, errorReported : BOOLEAN,
   sched : SUBSET {"schedule_write_ready", "error"}, completing : SUBSET Users, armed : BOOLEAN]

ReceiverType ==
  [queue : Seq(Users \X Kinds), state : {"SCHEDULE_READ_READY", "READ_READY_WAIT"}, errno : BOOLEAN,
   errorReported : BOOLEAN, errorBound : BOOLEAN,
   sched : SUBSET {"receive", "error", "schedule_read_ready"}, armed : BOOLEAN]

UdpBindings == Served \cup {<<"error", "error">>}

UsersOf(q) == {q[i][1] : i \in DOMAIN q}
OneEach(q) == \A i, j \in DOMAIN q : q[i][1] = q[j][1] => i = j

\* What is under way: one datagram or one completion of each automaton.
SenderRight(s) ==
  /\ OneEach(s.queue) /\ s.sendSet = UsersOf(s.queue)
  /\ s.sendSet \cap s.completeSet = {}

\* The automata that are served are bound, or the sender will be told that they are not.
ServedRight(s, b, n) ==
  \A u \in s.sendSet \cup s.completeSet :
    <<"send", u>> \in b \/ \E i \in DOMAIN n : n[i] = <<"send", u>>

CompletionsScheduled(s, b) ==
  \A u \in s.completeSet : <<"send_complete", u>> \in b => u \in s.completing

SenderWaits(s) == ~s.errno /\ s.state = "WRITE_READY_WAIT" => s.armed
ReceiverWaits(r) == ~r.errno /\ r.state = "READ_READY_WAIT" => r.armed

SenderInv ==
  /\ sender \in SenderType /\ bindings \subseteq UdpBindings /\ notices \in Seq(UdpBindings)
  /\ SenderRight(sender) /\ ServedRight(sender, bindings, notices)
  /\ SenderEnabled(sender, bindings) \subseteq sender.sched
  /\ CompletionsScheduled(sender, bindings) /\ SenderWaits(sender)

ReceiverInv ==
  /\ receiver \in ReceiverType /\ network \subseteq Users \X Kinds
  /\ ReceiverEnabled(receiver) \subseteq receiver.sched /\ ReceiverWaits(receiver)

\* Lemmas about queues with one datagram of each automaton.
LEMMA OneMore ==
  ASSUME NEW q \in Seq(Users \X Kinds), OneEach(q), NEW u \in Users, u \notin UsersOf(q), NEW k \in Kinds
  PROVE  /\ Append(q, <<u, k>>) \in Seq(Users \X Kinds) /\ OneEach(Append(q, <<u, k>>))
         /\ UsersOf(Append(q, <<u, k>>)) = UsersOf(q) \cup {u}
<1> DEFINE w == Append(q, <<u, k>>)
<1>1. <<u, k>> \in Users \X Kinds
  OBVIOUS
<1>2. /\ w \in Seq(Users \X Kinds) /\ Len(w) = Len(q) + 1 /\ w[Len(q) + 1] = <<u, k>>
      /\ \A i \in 1..Len(q) : w[i] = q[i]
  BY <1>1, AppendProperties
<1>3. DOMAIN w = 1..(Len(q) + 1) /\ DOMAIN q = 1..Len(q) /\ Len(q) \in Nat
  BY <1>2
<1> HIDE DEF w
<1>4. \A i \in DOMAIN q : q[i][1] # u
  BY DEF UsersOf
<1>5. \A i \in DOMAIN w : \/ i \in DOMAIN q /\ w[i][1] = q[i][1]
                          \/ i = Len(q) + 1 /\ w[i][1] = u
  BY <1>2, <1>3
<1>6. OneEach(w)
  BY <1>4, <1>5 DEF OneEach
<1>7. UsersOf(w) = UsersOf(q) \cup {u}
  <2>1. \A v : v \in UsersOf(w) => v \in UsersOf(q) \cup {u}
    BY <1>5 DEF UsersOf
  <2>2. \A v \in UsersOf(q) : v \in UsersOf(w)
    BY <1>2, <1>3 DEF UsersOf
  <2>3. u \in UsersOf(w)
    BY <1>2, <1>3 DEF UsersOf
  <2> QED BY <2>1, <2>2, <2>3
<1> QED BY <1>2, <1>6, <1>7 DEF w

LEMMA FirstGone ==
  ASSUME NEW q \in Seq(Users \X Kinds), OneEach(q), q # <<>>
  PROVE  /\ Head(q) \in Users \X Kinds /\ Head(q)[1] \in UsersOf(q)
         /\ Tail(q) \in Seq(Users \X Kinds) /\ OneEach(Tail(q))
         /\ UsersOf(Tail(q)) = UsersOf(q) \ {Head(q)[1]}
<1>1. /\ Head(q) = q[1] /\ Tail(q) \in Seq(Users \X Kinds) /\ Len(q) \in Nat /\ Len(q) > 0
      /\ DOMAIN q = 1..Len(q) /\ DOMAIN Tail(q) = 1..(Len(q) - 1)
      /\ \A i \in 1..(Len(q) - 1) : Tail(q)[i] = q[i + 1]
  BY HeadTailProperties
<1>2. Head(q) \in Users \X Kinds /\ Head(q)[1] \in UsersOf(q)
  BY <1>1 DEF UsersOf
<1>3. OneEach(Tail(q))
  <2> SUFFICES ASSUME NEW i \in DOMAIN Tail(q), NEW j \in DOMAIN Tail(q), Tail(q)[i][1] = Tail(q)[j][1]
               PROVE  i = j
    BY DEF OneEach
  <2>1. i + 1 \in DOMAIN q /\ j + 1 \in DOMAIN q /\ q[i + 1][1] = q[j + 1][1]
    BY <1>1
  <2>2. i + 1 = j + 1
    BY <2>1 DEF OneEach
  <2> QED BY <1>1, <2>2
<1>4. \A v : v \in UsersOf(Tail(q)) => v \in UsersOf(q) /\ v # Head(q)[1]
  <2> SUFFICES ASSUME NEW i \in DOMAIN Tail(q)
               PROVE  Tail(q)[i][1] \in UsersOf(q) /\ Tail(q)[i][1] # Head(q)[1]
    BY DEF UsersOf
  <2>1. i + 1 \in DOMAIN q /\ 1 \in DOMAIN q /\ i + 1 # 1 /\ Tail(q)[i] = q[i + 1]
    BY <1>1
  <2> QED BY <1>1, <2>1 DEF OneEach, UsersOf
<1>5. \A v : v \in UsersOf(q) /\ v # Head(q)[1] => v \in UsersOf(Tail(q))
  <2> SUFFICES ASSUME NEW i \in DOMAIN q, q[i][1] # q[1][1] PROVE q[i][1] \in UsersOf(Tail(q))
    BY <1>1 DEF UsersOf
  <2>1. i - 1 \in DOMAIN Tail(q) /\ Tail(q)[i - 1] = q[i]
    BY <1>1
  <2> QED BY <2>1 DEF UsersOf
<1> QED BY <1>1, <1>2, <1>3, <1>4, <1>5

LEMMA OneGone ==
  ASSUME NEW s \in SenderType, SenderRight(s), NEW u
  PROVE  /\ Unqueued(s, u) \in Seq(Users \X Kinds) /\ OneEach(Unqueued(s, u))
         /\ UsersOf(Unqueued(s, u)) = UsersOf(s.queue) \ {u}
         /\ Unqueued(s, u) # <<>> => s.queue # <<>>
<1> DEFINE q == s.queue
<1>1. q \in Seq(Users \X Kinds) /\ OneEach(q) /\ s.sendSet = UsersOf(q)
  BY DEF SenderType, SenderRight
<1>2. CASE u \notin s.sendSet
  BY <1>1, <1>2 DEF Unqueued
<1>3. CASE u \in s.sendSet
  <2>1. PICK p \in DOMAIN q : q[p][1] = u
    BY <1>1, <1>3 DEF UsersOf
  <2>2. Len(q) \in Nat /\ DOMAIN q = 1..Len(q) /\ p \in 1..Len(q)
    BY <1>1, <2>1
  <2> HIDE DEF q
  <2>3. {i \in 1..Len(q) : q[i][1] = u} = {p}
    BY <1>1, <2>1, <2>2 DEF OneEach
  <2>4. SelectInSeq(q, LAMBDA item : item[1] = u) = p
    BY <2>2, <2>3 DEF SelectInSeq, Min
  <2>5. Unqueued(s, u) = SubSeq(q, 1, p - 1) \o SubSeq(q, p + 1, Len(q))
    BY <1>3, <2>1, <2>2, <2>4 DEF Unqueued, RemoveFirstMatch, RemoveAt, q
  <2> DEFINE a == SubSeq(q, 1, p - 1)
             b == SubSeq(q, p + 1, Len(q))
             w == a \o b
  <2>6. /\ a \in Seq(Users \X Kinds) /\ Len(a) = p - 1 /\ \A i \in 1..(p - 1) : a[i] = q[i]
    BY <1>1, <2>2, SubSeqProperties
  <2>7. /\ b \in Seq(Users \X Kinds) /\ Len(b) = Len(q) - p
        /\ \A i \in 1..(Len(q) - p) : b[i] = q[p + i]
    <3>1. p + 1 \in Int /\ Len(q) \in Int /\ \A i \in (p + 1)..Len(q) : q[i] \in Users \X Kinds
      BY <1>1, <2>2
    <3>2. /\ b \in Seq(Users \X Kinds)
          /\ Len(b) = IF p + 1 <= Len(q) THEN Len(q) - (p + 1) + 1 ELSE 0
          /\ \A i \in 1..(Len(q) - (p + 1) + 1) : b[i] = q[(p + 1) + i - 1]
      BY <3>1, SubSeqProperties
    <3> HIDE DEF b
    <3>3. Len(q) - (p + 1) + 1 = Len(q) - p /\ \A i \in 1..(Len(q) - p) : (p + 1) + i - 1 = p + i
      BY <2>2
    <3>4. \A i \in 1..(Len(q) - p) : b[i] = q[p + i]
      BY <3>2, <3>3
    <3> QED BY <2>2, <3>2, <3>4
  <2> HIDE DEF a, b
  <2>8. /\ w \in Seq(Users \X Kinds) /\ Len(w) = Len(q) - 1
        /\ \A i \in 1..(p - 1) : w[i] = q[i]
        /\ \A i \in p..(Len(q) - 1) : w[i] = q[i + 1]
    <3>1. w \in Seq(Users \X Kinds) /\ Len(w) = Len(a) + Len(b)
          /\ \A i \in 1..(Len(a) + Len(b)) : w[i] = IF i <= Len(a) THEN a[i] ELSE b[i - Len(a)]
      BY <2>6, <2>7, ConcatProperties
    <3> HIDE DEF w
    <3>2. \A i \in 1..(p - 1) : w[i] = q[i]
      BY <2>2, <2>6, <2>7, <3>1
    <3>3. \A i \in p..(Len(q) - 1) : w[i] = b[i - (p - 1)] /\ i - (p - 1) \in 1..(Len(q) - p)
      <4> SUFFICES ASSUME NEW i \in p..(Len(q) - 1)
                   PROVE  w[i] = b[i - (p - 1)] /\ i - (p - 1) \in 1..(Len(q) - p)
        OBVIOUS
      <4>1. i \in 1..(Len(a) + Len(b)) /\ ~(i <= Len(a)) /\ i - Len(a) = i - (p - 1)
        BY <2>2, <2>6, <2>7
      <4>2. w[i] = b[i - Len(a)]
        BY <3>1, <4>1
      <4> QED BY <2>2, <4>1, <4>2
    <3>4. \A i \in p..(Len(q) - 1) : b[i - (p - 1)] = q[i + 1]
      <4>1. \A i \in p..(Len(q) - 1) : b[i - (p - 1)] = q[p + (i - (p - 1))]
        BY <2>7, <3>3
      <4>2. \A i \in p..(Len(q) - 1) : p + (i - (p - 1)) = i + 1
        BY <2>2
      <4> QED BY <4>1, <4>2
    <3> QED BY <2>2, <2>6, <2>7, <3>1, <3>2, <3>3, <3>4
  <2> HIDE DEF w
  <2>9. DOMAIN w = 1..(Len(q) - 1)
    BY <2>8
  <2> DEFINE at(i) == IF i < p THEN i ELSE i + 1
  <2>10. \A i \in DOMAIN w : at(i) \in DOMAIN q /\ w[i] = q[at(i)] /\ at(i) # p
    <3> SUFFICES ASSUME NEW i \in DOMAIN w
                 PROVE  at(i) \in DOMAIN q /\ w[i] = q[at(i)] /\ at(i) # p
      OBVIOUS
    <3>1. CASE i < p
      BY <2>2, <2>8, <2>9, <3>1
    <3>2. CASE i >= p
      BY <2>2, <2>8, <2>9, <3>2
    <3> QED BY <2>2, <2>9, <3>1, <3>2
  <2>11. \A i, j \in DOMAIN w : at(i) = at(j) => i = j
    BY <2>2, <2>9
  <2>12. \A j \in DOMAIN q : j # p => \E i \in DOMAIN w : at(i) = j
    <3> SUFFICES ASSUME NEW j \in DOMAIN q, j # p PROVE \E i \in DOMAIN w : at(i) = j
      OBVIOUS
    <3>1. CASE j < p
      BY <2>2, <2>9, <3>1
    <3>2. CASE j > p
      <4>1. j - 1 \in DOMAIN w /\ at(j - 1) = j
        BY <2>2, <2>9, <3>2
      <4> QED BY <4>1
    <3> QED BY <2>2, <3>1, <3>2
  <2> HIDE DEF at
  <2>13. OneEach(w)
    BY <1>1, <2>10, <2>11 DEF OneEach
  <2>14. \A v : v \in UsersOf(w) => v \in UsersOf(q) /\ v # u
    BY <1>1, <2>1, <2>10 DEF OneEach, UsersOf
  <2>15. \A v : v \in UsersOf(q) /\ v # u => v \in UsersOf(w)
    BY <2>1, <2>10, <2>12 DEF UsersOf
  <2>16. q # <<>>
    BY <2>1
  <2> QED BY <2>5, <2>8, <2>13, <2>14, <2>15, <2>16 DEF w, a, b, q
<1> QED BY <1>2, <1>3

LEMMA OneEachCounts ==
  ASSUME NEW q \in Seq(Users \X Kinds), OneEach(q)
  PROVE  Len(q) = Cardinality(UsersOf(q))
<1> DEFINE f == [i \in 1..Len(q) |-> q[i][1]]
<1>1. Len(q) \in Nat /\ DOMAIN q = 1..Len(q)
  OBVIOUS
<1>2. f \in Bijection(1..Len(q), UsersOf(q))
  <2>1. f \in [1..Len(q) -> UsersOf(q)]
    BY <1>1 DEF UsersOf
  <2>2. \A i, j \in 1..Len(q) : f[i] = f[j] => i = j
    BY <1>1 DEF OneEach
  <2>3. \A v \in UsersOf(q) : \E i \in 1..Len(q) : f[i] = v
    BY <1>1 DEF UsersOf
  <2> HIDE DEF f
  <2> QED BY <2>1, <2>2, <2>3 DEF Bijection, Injection, Surjection, IsInjective
<1>3. ExistsBijection(1..Len(q), UsersOf(q))
  BY <1>2 DEF ExistsBijection
<1> QED BY <1>1, <1>3, FS_CountingElements
-----------------------------------------------------------------------------
LEMMA SenderEnabledMeans ==
  ASSUME NEW s, NEW b
  PROVE  /\ SenderEnabled(s, b) \subseteq {"schedule_write_ready", "error"}
         /\ "schedule_write_ready" \in SenderEnabled(s, b) <=>
              ~s.errno /\ s.state = "SCHEDULE_WRITE_READY" /\ s.queue # <<>>
         /\ "error" \in SenderEnabled(s, b) <=>
              s.errno /\ ~s.errorReported /\ <<"error", "error">> \in b
BY DEF SenderEnabled

LEMMA ReceiverEnabledMeans ==
  ASSUME NEW r
  PROVE  /\ ReceiverEnabled(r) \subseteq {"receive", "error", "schedule_read_ready"}
         /\ "receive" \in ReceiverEnabled(r) <=> r.queue # <<>>
         /\ "error" \in ReceiverEnabled(r) <=> r.errno /\ ~r.errorReported /\ r.errorBound
         /\ "schedule_read_ready" \in ReceiverEnabled(r) <=>
              ~r.errno /\ r.state = "SCHEDULE_READ_READY"
BY DEF ReceiverEnabled

\* A handler that serves only those served before, or bound, keeps the invariant.
LEMMA SenderMoves ==
  ASSUME SenderInv, NEW s \in SenderType, NEW a, SenderHandler(a, s),
         UNCHANGED <<bindings, notices>>, SenderRight(s),
         \A u \in s.sendSet \cup s.completeSet :
            u \in sender.sendSet \cup sender.completeSet \/ <<"send", u>> \in bindings,
         CompletionsScheduled(s, bindings), SenderWaits(s)
  PROVE  SenderInv'
<1> DEFINE t == (s.sched \ {a}) \cup SenderEnabled(s, bindings)
           w == [s EXCEPT !.sched = t]
<1>1. t \subseteq {"schedule_write_ready", "error"}
  BY SenderEnabledMeans DEF SenderType
<1>2. sender' = w
  BY DEF SenderHandler
<1>3. SenderEnabled(s, bindings) \subseteq t
  OBVIOUS
<1> HIDE DEF t
<1>4. w \in SenderType
  BY <1>1 DEF SenderType
<1>5. /\ w.queue = s.queue /\ w.sendSet = s.sendSet /\ w.completeSet = s.completeSet
      /\ w.state = s.state /\ w.errno = s.errno /\ w.errorReported = s.errorReported
      /\ w.completing = s.completing /\ w.armed = s.armed /\ w.sched = t
  BY DEF SenderType
<1> HIDE DEF w
<1>6. SenderRight(w) /\ CompletionsScheduled(w, bindings) /\ SenderWaits(w)
  BY <1>5 DEF SenderRight, CompletionsScheduled, SenderWaits
<1>7. ServedRight(w, bindings, notices)
  BY <1>5 DEF ServedRight, SenderInv
<1>8. SenderEnabled(w, bindings) \subseteq w.sched
  BY <1>3, <1>5 DEF SenderEnabled
<1> QED BY <1>2, <1>4, <1>6, <1>7, <1>8 DEF SenderInv

\* A completion is added and scheduled.
LEMMA AddCompletes ==
  ASSUME NEW s \in SenderType, NEW u \in Users, OneEach(s.queue), s.sendSet = UsersOf(s.queue),
         s.sendSet \cap s.completeSet = {}, u \notin s.sendSet, NEW b, CompletionsScheduled(s, b),
         SenderWaits(s)
  PROVE  LET w == AddToCompleteSet(s, u) IN
         /\ w \in SenderType /\ SenderRight(w) /\ CompletionsScheduled(w, b) /\ SenderWaits(w)
         /\ w.sendSet = s.sendSet /\ w.completeSet = s.completeSet \cup {u}
<1> DEFINE w == AddToCompleteSet(s, u)
<1>1. w \in SenderType
  BY DEF AddToCompleteSet, SenderType
<1>2. /\ w.queue = s.queue /\ w.sendSet = s.sendSet /\ w.completeSet = s.completeSet \cup {u}
      /\ w.state = s.state /\ w.errno = s.errno /\ w.completing = s.completing \cup {u}
      /\ w.armed = s.armed
  BY DEF AddToCompleteSet, SenderType
<1> HIDE DEF w
<1>3. SenderRight(w) /\ CompletionsScheduled(w, b) /\ SenderWaits(w)
  BY <1>2 DEF SenderRight, CompletionsScheduled, SenderWaits
<1> QED BY <1>1, <1>2, <1>3 DEF w
-----------------------------------------------------------------------------
LEMMA SendDatagramKeeps ==
  ASSUME SenderInv, NEW u \in Users, NEW k \in Kinds, SendDatagram(u, k)
  PROVE  SenderInv'
<1>1. /\ sender \in SenderType /\ SenderRight(sender) /\ CompletionsScheduled(sender, bindings)
      /\ SenderWaits(sender) /\ UNCHANGED <<bindings, notices>> /\ <<"send", u>> \in bindings
  BY DEF SenderInv, SendDatagram
<1> DEFINE takes == ~sender.errno /\ u \notin sender.sendSet \cup sender.completeSet
           q == Append(sender.queue, <<u, k>>)
           w == [sender EXCEPT !.queue = q, !.sendSet = @ \cup {u}]
<1>2. CASE ~takes
  <2>1. SenderHandler("none", sender)
    BY <1>2 DEF SendDatagram
  <2> QED BY <1>1, <2>1, SenderMoves
<1>3. CASE takes /\ k = "bad"
  <2>1. SenderHandler("none", AddToCompleteSet(sender, u))
    BY <1>3 DEF SendDatagram
  <2> QED BY <1>1, <1>3, <2>1, SenderMoves, AddCompletes DEF SenderRight
<1>4. CASE takes /\ k # "bad"
  <2>1. SenderHandler("none", w)
    BY <1>4 DEF SendDatagram
  <2>2. /\ q \in Seq(Users \X Kinds) /\ OneEach(q)
        /\ UsersOf(q) = sender.sendSet \cup {u}
    BY <1>1, <1>4, OneMore DEF SenderRight, SenderType
  <2> HIDE DEF q
  <2>3. w \in SenderType
    BY <1>1, <2>2 DEF SenderType
  <2>4. /\ w.queue = q /\ w.sendSet = sender.sendSet \cup {u} /\ w.completeSet = sender.completeSet
        /\ w.state = sender.state /\ w.errno = sender.errno /\ w.completing = sender.completing
        /\ w.armed = sender.armed
    BY <1>1 DEF SenderType
  <2> HIDE DEF w
  <2>5. SenderRight(w) /\ CompletionsScheduled(w, bindings) /\ SenderWaits(w)
    BY <1>1, <1>4, <2>2, <2>4 DEF SenderRight, CompletionsScheduled, SenderWaits
  <2> QED BY <1>1, <2>1, <2>3, <2>4, <2>5, SenderMoves
<1> QED BY <1>2, <1>3, <1>4

LEMMA SenderScheduleWriteReadyKeeps ==
  ASSUME SenderInv, SenderScheduleWriteReady
  PROVE  SenderInv'
<1> DEFINE w == [sender EXCEPT !.state = "WRITE_READY_WAIT", !.armed = TRUE]
<1>1. /\ sender \in SenderType /\ SenderRight(sender) /\ CompletionsScheduled(sender, bindings)
      /\ UNCHANGED <<bindings, notices>> /\ SenderHandler("schedule_write_ready", w)
  BY DEF SenderInv, SenderScheduleWriteReady
<1>2. w \in SenderType
  BY <1>1 DEF SenderType
<1>3. /\ w.queue = sender.queue /\ w.sendSet = sender.sendSet /\ w.completeSet = sender.completeSet
      /\ w.completing = sender.completing /\ w.armed
  BY <1>1 DEF SenderType
<1> HIDE DEF w
<1>4. SenderRight(w) /\ CompletionsScheduled(w, bindings) /\ SenderWaits(w)
  BY <1>1, <1>3 DEF SenderRight, CompletionsScheduled, SenderWaits
<1> QED BY <1>1, <1>2, <1>3, <1>4, SenderMoves

LEMMA SenderWriteReadyKeeps ==
  ASSUME SenderInv, NEW ok \in BOOLEAN, SenderWriteReady(ok)
  PROVE  SenderInv'
<1> DEFINE s == [sender EXCEPT !.state = "SCHEDULE_WRITE_READY", !.armed = FALSE]
           item == Head(sender.queue)
           popped == [s EXCEPT !.queue = Tail(@), !.sendSet = @ \ {item[1]}]
           failed == [popped EXCEPT !.errno = TRUE]
<1>1. /\ sender \in SenderType /\ SenderRight(sender) /\ CompletionsScheduled(sender, bindings)
      /\ UNCHANGED <<bindings, notices>>
  BY DEF SenderInv, SenderWriteReady
<1>2. s \in SenderType
  BY <1>1 DEF SenderType
<1>3. /\ s.queue = sender.queue /\ s.sendSet = sender.sendSet /\ s.completeSet = sender.completeSet
      /\ s.completing = sender.completing /\ s.state = "SCHEDULE_WRITE_READY"
  BY <1>1 DEF SenderType
<1>4. \/ sender.queue = <<>> /\ SenderHandler("none", s)
      \/ sender.queue # <<>> /\ SenderHandler("none", AddToCompleteSet(popped, item[1]))
      \/ sender.queue # <<>> /\ SenderHandler("none", failed)
  BY DEF SenderWriteReady
<1> HIDE DEF s
<1>5. SenderRight(s) /\ CompletionsScheduled(s, bindings) /\ SenderWaits(s)
  BY <1>1, <1>3 DEF SenderRight, CompletionsScheduled, SenderWaits
<1>6. CASE sender.queue = <<>> /\ SenderHandler("none", s)
  BY <1>1, <1>2, <1>3, <1>5, <1>6, SenderMoves
<1>7. ASSUME sender.queue # <<>>
      PROVE  /\ popped \in SenderType /\ item[1] \in sender.sendSet /\ item[1] \in Users
             /\ popped.sendSet = sender.sendSet \ {item[1]} /\ popped.completeSet = sender.completeSet
             /\ SenderRight(popped) /\ CompletionsScheduled(popped, bindings) /\ SenderWaits(popped)
  <2>1. /\ item \in Users \X Kinds /\ item[1] \in sender.sendSet
        /\ Tail(sender.queue) \in Seq(Users \X Kinds) /\ OneEach(Tail(sender.queue))
        /\ UsersOf(Tail(sender.queue)) = sender.sendSet \ {item[1]}
    BY <1>1, <1>7, FirstGone DEF SenderRight, SenderType
  <2> HIDE DEF item
  <2>2. popped \in SenderType
    BY <1>2, <1>3, <2>1 DEF SenderType
  <2>3. /\ popped.queue = Tail(sender.queue) /\ popped.sendSet = sender.sendSet \ {item[1]}
        /\ popped.completeSet = sender.completeSet /\ popped.completing = s.completing
        /\ popped.state = "SCHEDULE_WRITE_READY"
    BY <1>2, <1>3 DEF SenderType
  <2> HIDE DEF popped
  <2>4. SenderRight(popped)
    BY <1>1, <2>1, <2>3 DEF SenderRight
  <2>5. CompletionsScheduled(popped, bindings) /\ SenderWaits(popped)
    BY <1>3, <1>5, <2>3 DEF CompletionsScheduled, SenderWaits
  <2> QED BY <2>1, <2>2, <2>3, <2>4, <2>5
<1> HIDE DEF popped, item
<1>8. CASE sender.queue # <<>> /\ SenderHandler("none", AddToCompleteSet(popped, item[1]))
  <2>1. item[1] \notin popped.sendSet /\ SenderRight(popped) /\ popped \in SenderType
    BY <1>7, <1>8
  <2> DEFINE w == AddToCompleteSet(popped, item[1])
  <2>2. /\ w \in SenderType /\ SenderRight(w) /\ CompletionsScheduled(w, bindings) /\ SenderWaits(w)
        /\ w.sendSet = popped.sendSet /\ w.completeSet = popped.completeSet \cup {item[1]}
    BY <1>7, <1>8, <2>1, AddCompletes DEF SenderRight
  <2> HIDE DEF w
  <2>3. \A u \in w.sendSet \cup w.completeSet : u \in sender.sendSet \cup sender.completeSet
    BY <1>7, <1>8, <2>2
  <2>4. SenderHandler("none", w)
    BY <1>8 DEF w
  <2> QED BY <1>1, <2>2, <2>3, <2>4, SenderMoves
<1>9. CASE sender.queue # <<>> /\ SenderHandler("none", failed)
  <2>1. failed \in SenderType
    BY <1>7, <1>9 DEF SenderType
  <2>2. /\ failed.queue = popped.queue /\ failed.sendSet = popped.sendSet
        /\ failed.completeSet = popped.completeSet /\ failed.completing = popped.completing
        /\ failed.errno
    BY <1>7, <1>9 DEF SenderType
  <2>3. SenderHandler("none", failed)
    BY <1>9
  <2> HIDE DEF failed
  <2>4. SenderRight(failed) /\ CompletionsScheduled(failed, bindings) /\ SenderWaits(failed)
    BY <1>7, <1>9, <2>2 DEF SenderRight, CompletionsScheduled, SenderWaits
  <2>5. \A u \in failed.sendSet \cup failed.completeSet : u \in sender.sendSet \cup sender.completeSet
    BY <1>7, <1>9, <2>2
  <2> QED BY <1>1, <2>1, <2>3, <2>4, <2>5, SenderMoves
<1> QED BY <1>4, <1>6, <1>8, <1>9

LEMMA SendDatagramCompleteKeeps ==
  ASSUME SenderInv, NEW u \in Users, SendDatagramComplete(u)
  PROVE  SenderInv'
<1> DEFINE s == [sender EXCEPT !.completing = @ \ {u}]
           w == [s EXCEPT !.completeSet = @ \ {u}]
<1>1. /\ sender \in SenderType /\ SenderRight(sender) /\ CompletionsScheduled(sender, bindings)
      /\ SenderWaits(sender) /\ UNCHANGED <<bindings, notices>>
  BY DEF SenderInv, SendDatagramComplete
<1>2. s \in SenderType /\ w \in SenderType
  BY <1>1 DEF SenderType
<1>3. /\ s.queue = sender.queue /\ s.sendSet = sender.sendSet /\ s.completeSet = sender.completeSet
      /\ s.completing = sender.completing \ {u} /\ s.state = sender.state /\ s.errno = sender.errno
      /\ s.armed = sender.armed /\ s.errorReported = sender.errorReported /\ s.sched = sender.sched
  BY <1>1 DEF SenderType
<1>4. /\ w.queue = sender.queue /\ w.sendSet = sender.sendSet
      /\ w.completeSet = sender.completeSet \ {u} /\ w.completing = sender.completing \ {u}
      /\ w.state = sender.state /\ w.errno = sender.errno /\ w.armed = sender.armed
  BY <1>1 DEF SenderType
<1>5. CASE u \in Completable(sender, bindings)
  <2>1. SenderHandler("none", w)
    BY <1>5 DEF SendDatagramComplete
  <2> HIDE DEF s, w
  <2>2. SenderRight(w) /\ CompletionsScheduled(w, bindings) /\ SenderWaits(w)
    BY <1>1, <1>4 DEF SenderRight, CompletionsScheduled, SenderWaits
  <2> QED BY <1>1, <1>2, <1>4, <2>1, <2>2, SenderMoves
<1>6. CASE u \notin Completable(sender, bindings)
  <2>1. sender' = s
    BY <1>6 DEF SendDatagramComplete
  <2> HIDE DEF s, w
  <2>2. u \in sender.completeSet => <<"send_complete", u>> \notin bindings
    BY <1>6 DEF Completable
  <2>3. SenderRight(s) /\ CompletionsScheduled(s, bindings) /\ SenderWaits(s)
    BY <1>1, <1>3, <2>2 DEF SenderRight, CompletionsScheduled, SenderWaits
  <2>4. ServedRight(s, bindings, notices)
    BY <1>3 DEF ServedRight, SenderInv
  <2>5. SenderEnabled(s, bindings) \subseteq s.sched
    BY <1>3 DEF SenderEnabled, SenderInv
  <2> QED BY <1>1, <1>2, <2>1, <2>3, <2>4, <2>5 DEF SenderInv
<1> QED BY <1>5, <1>6

LEMMA SenderErrorKeeps ==
  ASSUME SenderInv, SenderError
  PROVE  SenderInv'
<1> DEFINE w == [sender EXCEPT !.errorReported = TRUE]
           s == [sender EXCEPT !.sched = @ \ {"error"}]
<1>1. /\ sender \in SenderType /\ SenderRight(sender) /\ CompletionsScheduled(sender, bindings)
      /\ SenderWaits(sender) /\ UNCHANGED <<bindings, notices>>
  BY DEF SenderInv, SenderError
<1>2. w \in SenderType /\ s \in SenderType
  BY <1>1 DEF SenderType
<1>3. /\ w.queue = sender.queue /\ w.sendSet = sender.sendSet /\ w.completeSet = sender.completeSet
      /\ w.completing = sender.completing /\ w.state = sender.state /\ w.errno = sender.errno
      /\ w.armed = sender.armed
  BY <1>1 DEF SenderType
<1>4. /\ s.queue = sender.queue /\ s.sendSet = sender.sendSet /\ s.completeSet = sender.completeSet
      /\ s.completing = sender.completing /\ s.state = sender.state /\ s.errno = sender.errno
      /\ s.armed = sender.armed /\ s.errorReported = sender.errorReported
      /\ s.sched = sender.sched \ {"error"}
  BY <1>1 DEF SenderType
<1>5. CASE "error" \in SenderEnabled(sender, bindings)
  <2>1. SenderHandler("error", w)
    BY <1>5 DEF SenderError
  <2> HIDE DEF s, w
  <2>2. SenderRight(w) /\ CompletionsScheduled(w, bindings) /\ SenderWaits(w)
    BY <1>1, <1>3 DEF SenderRight, CompletionsScheduled, SenderWaits
  <2> QED BY <1>1, <1>2, <1>3, <2>1, <2>2, SenderMoves
<1>6. CASE "error" \notin SenderEnabled(sender, bindings)
  <2>1. sender' = s
    BY <1>6 DEF SenderError
  <2> HIDE DEF s, w
  <2>2. SenderRight(s) /\ CompletionsScheduled(s, bindings) /\ SenderWaits(s)
    BY <1>1, <1>4 DEF SenderRight, CompletionsScheduled, SenderWaits
  <2>3. ServedRight(s, bindings, notices)
    BY <1>4 DEF ServedRight, SenderInv
  <2>4. SenderEnabled(s, bindings) = SenderEnabled(sender, bindings)
    BY <1>4 DEF SenderEnabled
  <2>5. SenderEnabled(s, bindings) \subseteq s.sched
    BY <1>4, <1>6, <2>4 DEF SenderInv
  <2> QED BY <1>1, <1>2, <2>1, <2>2, <2>3, <2>5 DEF SenderInv
<1> QED BY <1>5, <1>6

\* An output that is bound or unbound is scheduled, and no other binding changes.
LEMMA OutputScheduled ==
  ASSUME SenderInv, NEW b \in UdpBindings, ScheduleOutput(b), bindings' \subseteq bindings \cup {b}
  PROVE  /\ sender' \in SenderType /\ SenderRight(sender') /\ SenderWaits(sender')
         /\ SenderEnabled(sender', bindings') \subseteq sender'.sched
         /\ CompletionsScheduled(sender', bindings')
         /\ sender'.sendSet = sender.sendSet /\ sender'.completeSet = sender.completeSet
         /\ sender'.errno = sender.errno
<1> DEFINE c == IF b[1] = "send_complete" THEN sender.completing \cup {b[2]} ELSE sender.completing
           d == IF b[1] = "error" THEN sender.sched \cup {"error"} ELSE sender.sched
           w == [sender EXCEPT !.completing = c, !.sched = d]
<1>1. /\ sender \in SenderType /\ SenderRight(sender) /\ CompletionsScheduled(sender, bindings)
      /\ SenderWaits(sender) /\ SenderEnabled(sender, bindings) \subseteq sender.sched
  BY DEF SenderInv
<1>2. sender' = w
  BY <1>1 DEF ScheduleOutput, SenderType
<1>3. c \subseteq Users /\ d \subseteq {"schedule_write_ready", "error"}
  BY <1>1 DEF SenderType, UdpBindings, Served
<1>4. /\ sender.completing \subseteq c /\ sender.sched \subseteq d
      /\ \A u \in Users : b = <<"send_complete", u>> => u \in c
      /\ b = <<"error", "error">> => "error" \in d
  OBVIOUS
<1> HIDE DEF c, d
<1>5. w \in SenderType
  BY <1>1, <1>3 DEF SenderType
<1>6. /\ w.queue = sender.queue /\ w.sendSet = sender.sendSet /\ w.completeSet = sender.completeSet
      /\ w.state = sender.state /\ w.errno = sender.errno /\ w.armed = sender.armed
      /\ w.errorReported = sender.errorReported /\ w.completing = c /\ w.sched = d
  BY <1>1 DEF SenderType
<1> HIDE DEF w
<1>7. SenderRight(w) /\ SenderWaits(w)
  BY <1>1, <1>6 DEF SenderRight, SenderWaits
<1>8. SenderEnabled(w, bindings') \subseteq w.sched
  <2>1. "schedule_write_ready" \in SenderEnabled(w, bindings') => "schedule_write_ready" \in w.sched
    BY <1>1, <1>4, <1>6, SenderEnabledMeans
  <2>2. "error" \in SenderEnabled(w, bindings') => "error" \in w.sched
    BY <1>1, <1>4, <1>6, SenderEnabledMeans
  <2> QED BY <2>1, <2>2, SenderEnabledMeans
<1>9. CompletionsScheduled(w, bindings')
  <2>1. w.completeSet \subseteq Users
    BY <1>5 DEF SenderType
  <2> QED BY <1>1, <1>4, <1>6, <2>1 DEF CompletionsScheduled
<1> QED BY <1>2, <1>5, <1>6, <1>7, <1>8, <1>9

LEMMA BindSenderKeeps ==
  ASSUME SenderInv, NEW b \in UdpBindings, BindSender(b)
  PROVE  SenderInv'
<1>1. /\ bindings' = bindings \cup {b} /\ ScheduleOutput(b) /\ notices' = notices
      /\ bindings \subseteq UdpBindings /\ notices \in Seq(UdpBindings)
  BY DEF BindSender, SenderInv
<1>2. ServedRight(sender', bindings', notices')
  BY <1>1, OutputScheduled DEF ServedRight, SenderInv
<1> QED BY <1>1, <1>2, OutputScheduled DEF SenderInv

LEMMA UnbindSenderKeeps ==
  ASSUME SenderInv, NEW b \in UdpBindings, UnbindSender(b)
  PROVE  SenderInv'
<1>1. /\ bindings' = bindings \ {b} /\ ScheduleOutput(b) /\ notices' = Append(notices, b)
      /\ bindings \subseteq UdpBindings /\ notices \in Seq(UdpBindings)
      /\ ServedRight(sender, bindings, notices)
  BY DEF UnbindSender, SenderInv
<1> DEFINE n == Append(notices, b)
<1>2. /\ n \in Seq(UdpBindings) /\ DOMAIN n = 1..(Len(notices) + 1) /\ n[Len(notices) + 1] = b
      /\ DOMAIN notices = 1..Len(notices) /\ Len(notices) \in Nat
      /\ \A i \in 1..Len(notices) : n[i] = notices[i]
  BY <1>1, AppendProperties
<1> HIDE DEF n
<1>3. /\ \E i \in DOMAIN n : n[i] = b
      /\ \A i \in DOMAIN notices : i \in DOMAIN n /\ n[i] = notices[i]
  BY <1>2
<1>4. ServedRight(sender', bindings', n)
  <2> SUFFICES ASSUME NEW u \in sender'.sendSet \cup sender'.completeSet
               PROVE  <<"send", u>> \in bindings' \/ \E i \in DOMAIN n : n[i] = <<"send", u>>
    BY DEF ServedRight
  <2>1. <<"send", u>> \in bindings \/ \E i \in DOMAIN notices : notices[i] = <<"send", u>>
    BY <1>1, OutputScheduled DEF ServedRight
  <2> QED BY <1>1, <1>3, <2>1
<1>5. notices' = n
  BY <1>1 DEF n
<1>6. bindings' \subseteq UdpBindings /\ bindings' \subseteq bindings \cup {b}
  BY <1>1
<1> QED BY <1>1, <1>2, <1>4, <1>5, <1>6, OutputScheduled DEF SenderInv

LEMMA ObserveUnboundKeeps ==
  ASSUME SenderInv, ObserveUnbound
  PROVE  SenderInv'
<1>1. /\ sender \in SenderType /\ SenderRight(sender) /\ CompletionsScheduled(sender, bindings)
      /\ SenderWaits(sender) /\ bindings' = bindings /\ notices' = Tail(notices)
      /\ bindings \subseteq UdpBindings /\ notices \in Seq(UdpBindings) /\ notices # <<>>
      /\ ServedRight(sender, bindings, notices) /\ SenderEnabled(sender, bindings) \subseteq sender.sched
  BY DEF SenderInv, ObserveUnbound
<1> DEFINE h == Head(notices)
           n == Tail(notices)
<1>2. /\ n \in Seq(UdpBindings) /\ h = notices[1] /\ h \in UdpBindings
      /\ \A i \in DOMAIN notices : i = 1 \/ (i - 1 \in DOMAIN n /\ n[i - 1] = notices[i])
  BY <1>1, HeadTailProperties
<1> HIDE DEF h, n
<1>3. \A b : (\E i \in DOMAIN notices : notices[i] = b) => b = h \/ \E i \in DOMAIN n : n[i] = b
  BY <1>2
<1>4. notices' = n
  BY <1>1 DEF n
<1>5. CASE h \notin Served
  <2>1. sender' = sender
    BY <1>5 DEF ObserveUnbound, h
  <2>2. \A u \in Users : <<"send", u>> # h
    BY <1>5 DEF Served
  <2>3. sender.sendSet \cup sender.completeSet \subseteq Users
    BY <1>1 DEF SenderType
  <2>4. ServedRight(sender, bindings, n)
    BY <1>1, <1>3, <2>2, <2>3 DEF ServedRight
  <2> QED BY <1>1, <1>2, <1>4, <2>1, <2>4 DEF SenderInv
<1>6. CASE h \in Served
  <2> DEFINE u == h[2]
             q == Unqueued(sender, u)
             w == [sender EXCEPT !.queue = q, !.sendSet = @ \ {u}, !.completeSet = @ \ {u}]
  <2>1. sender' = w
    BY <1>6 DEF ObserveUnbound, Purge, h
  <2>2. u \in Users /\ \A v : h = <<"send", v>> => v = u
    BY <1>6 DEF Served
  <2>3. /\ q \in Seq(Users \X Kinds) /\ OneEach(q) /\ UsersOf(q) = UsersOf(sender.queue) \ {u}
        /\ q # <<>> => sender.queue # <<>>
    BY <1>1, OneGone
  <2> HIDE DEF u, q
  <2>4. w \in SenderType
    BY <1>1, <2>3 DEF SenderType
  <2>5. /\ w.queue = q /\ w.sendSet = sender.sendSet \ {u} /\ w.completeSet = sender.completeSet \ {u}
        /\ w.state = sender.state /\ w.errno = sender.errno /\ w.armed = sender.armed
        /\ w.errorReported = sender.errorReported /\ w.completing = sender.completing
        /\ w.sched = sender.sched
    BY <1>1 DEF SenderType
  <2> HIDE DEF w
  <2>6. SenderRight(w) /\ SenderWaits(w) /\ CompletionsScheduled(w, bindings)
    BY <1>1, <2>3, <2>5 DEF SenderRight, SenderWaits, CompletionsScheduled
  <2>7. ServedRight(w, bindings, n)
    BY <1>1, <1>3, <2>2, <2>5 DEF ServedRight
  <2>8. SenderEnabled(w, bindings) \subseteq w.sched
    <3>1. "schedule_write_ready" \in SenderEnabled(w, bindings) => "schedule_write_ready" \in w.sched
      BY <1>1, <2>3, <2>5, SenderEnabledMeans
    <3>2. "error" \in SenderEnabled(w, bindings) => "error" \in w.sched
      BY <1>1, <2>5, SenderEnabledMeans
    <3> QED BY <3>1, <3>2, SenderEnabledMeans
  <2> QED BY <1>1, <1>2, <1>4, <2>1, <2>4, <2>6, <2>7, <2>8 DEF SenderInv
<1> QED BY <1>5, <1>6
-----------------------------------------------------------------------------
LEMMA ReceiverMoves ==
  ASSUME NEW r \in ReceiverType, NEW a, ReceiverHandler(a, r), ReceiverWaits(r),
         network' \subseteq Users \X Kinds
  PROVE  ReceiverInv'
<1> DEFINE t == (r.sched \ {a}) \cup ReceiverEnabled(r)
           w == [r EXCEPT !.sched = t]
<1>1. t \subseteq {"receive", "error", "schedule_read_ready"}
  BY ReceiverEnabledMeans DEF ReceiverType
<1>2. receiver' = w
  BY DEF ReceiverHandler
<1>3. ReceiverEnabled(r) \subseteq t
  OBVIOUS
<1> HIDE DEF t
<1>4. w \in ReceiverType
  BY <1>1 DEF ReceiverType
<1>5. /\ w.queue = r.queue /\ w.state = r.state /\ w.errno = r.errno
      /\ w.errorReported = r.errorReported /\ w.errorBound = r.errorBound
      /\ w.armed = r.armed /\ w.sched = t
  BY DEF ReceiverType
<1> HIDE DEF w
<1>6. ReceiverWaits(w)
  BY <1>5 DEF ReceiverWaits
<1>7. ReceiverEnabled(w) \subseteq w.sched
  BY <1>3, <1>5 DEF ReceiverEnabled
<1> QED BY <1>2, <1>4, <1>6, <1>7 DEF ReceiverInv

LEMMA DatagramKeeps ==
  ASSUME ReceiverInv, NEW item \in network, NEW stays \in BOOLEAN, NEW stale \in BOOLEAN,
         Datagram(item, stays, stale)
  PROVE  ReceiverInv'
<1> DEFINE r == [receiver EXCEPT !.state = "SCHEDULE_READ_READY", !.armed = FALSE]
           e == [r EXCEPT !.errno = stale]
           q == [r EXCEPT !.queue = Append(@, item)]
<1>1. receiver \in ReceiverType /\ item \in Users \X Kinds /\ network' \subseteq Users \X Kinds
  BY DEF ReceiverInv, Datagram
<1>2. r \in ReceiverType /\ r.state = "SCHEDULE_READ_READY"
  BY <1>1 DEF ReceiverType
<1>3. Append(r.queue, item) \in Seq(Users \X Kinds)
  BY <1>1, <1>2, AppendProperties DEF ReceiverType
<1>4. ReceiverHandler("none", IF item[2] = "empty" THEN e ELSE q)
  BY DEF Datagram
<1> HIDE DEF r
<1>5. e \in ReceiverType /\ e.state = "SCHEDULE_READ_READY"
  BY <1>2 DEF ReceiverType
<1>6. q \in ReceiverType /\ q.state = "SCHEDULE_READ_READY"
  BY <1>2, <1>3 DEF ReceiverType
<1> HIDE DEF e, q
<1>7. ReceiverWaits(e) /\ ReceiverWaits(q)
  BY <1>5, <1>6 DEF ReceiverWaits
<1> QED BY <1>1, <1>4, <1>5, <1>6, <1>7, ReceiverMoves

LEMMA ReceiverStepsKeep ==
  ASSUME ReceiverInv, ReceiverSteps \/ BindReceiverError
  PROVE  ReceiverInv'
<1>1. /\ receiver \in ReceiverType /\ network' = network /\ network \subseteq Users \X Kinds
      /\ ReceiverWaits(receiver) /\ ReceiverEnabled(receiver) \subseteq receiver.sched
  BY DEF ReceiverInv, ReceiverSteps, ReceiverScheduleReadReady, ReceiveDatagram, ReceiverError,
     BindReceiverError
<1>2. CASE ReceiverScheduleReadReady
  <2> DEFINE w == [receiver EXCEPT !.state = "READ_READY_WAIT", !.armed = TRUE]
  <2>1. w \in ReceiverType /\ ReceiverWaits(w)
    BY <1>1 DEF ReceiverType, ReceiverWaits
  <2>2. ReceiverHandler("schedule_read_ready", w)
    BY <1>2 DEF ReceiverScheduleReadReady
  <2> QED BY <1>1, <2>1, <2>2, ReceiverMoves
<1>3. CASE ReceiveDatagram
  <2> DEFINE w == [receiver EXCEPT !.queue = Tail(@)]
  <2>1. receiver.queue # <<>>
    BY <1>3, ReceiverEnabledMeans DEF ReceiveDatagram
  <2>2. Tail(receiver.queue) \in Seq(Users \X Kinds)
    BY <1>1, <2>1, HeadTailProperties DEF ReceiverType
  <2>3. w \in ReceiverType /\ ReceiverWaits(w)
    BY <1>1, <2>2 DEF ReceiverType, ReceiverWaits
  <2>4. ReceiverHandler("receive", w)
    BY <1>3 DEF ReceiveDatagram
  <2> QED BY <1>1, <2>3, <2>4, ReceiverMoves
<1>4. CASE ReceiverError
  <2> DEFINE w == [receiver EXCEPT !.errorReported = TRUE]
             v == [receiver EXCEPT !.sched = @ \ {"error"}]
  <2>1. w \in ReceiverType /\ ReceiverWaits(w)
    BY <1>1 DEF ReceiverType, ReceiverWaits
  <2>2. CASE "error" \in ReceiverEnabled(receiver)
    <3>1. ReceiverHandler("error", w)
      BY <1>4, <2>2 DEF ReceiverError
    <3> QED BY <1>1, <2>1, <3>1, ReceiverMoves
  <2>3. CASE "error" \notin ReceiverEnabled(receiver)
    <3>1. receiver' = v
      BY <1>4, <2>3 DEF ReceiverError
    <3>2. v \in ReceiverType
      BY <1>1 DEF ReceiverType
    <3>3. /\ v.queue = receiver.queue /\ v.state = receiver.state /\ v.errno = receiver.errno
          /\ v.errorReported = receiver.errorReported /\ v.errorBound = receiver.errorBound
          /\ v.armed = receiver.armed /\ v.sched = receiver.sched \ {"error"}
      BY <1>1 DEF ReceiverType
    <3> HIDE DEF v
    <3>4. ReceiverWaits(v) /\ ReceiverEnabled(v) = ReceiverEnabled(receiver)
      BY <1>1, <3>3 DEF ReceiverWaits, ReceiverEnabled
    <3> QED BY <1>1, <2>3, <3>1, <3>2, <3>3, <3>4 DEF ReceiverInv
  <2> QED BY <2>2, <2>3
<1>5. CASE BindReceiverError
  <2> DEFINE v == [receiver EXCEPT !.errorBound = TRUE, !.sched = @ \cup {"error"}]
  <2>1. receiver' = v
    BY <1>5 DEF BindReceiverError
  <2>2. v \in ReceiverType
    BY <1>1 DEF ReceiverType
  <2>3. /\ v.queue = receiver.queue /\ v.state = receiver.state /\ v.errno = receiver.errno
        /\ v.errorReported = receiver.errorReported /\ v.armed = receiver.armed
        /\ v.sched = receiver.sched \cup {"error"}
    BY <1>1 DEF ReceiverType
  <2> HIDE DEF v
  <2>4. ReceiverWaits(v)
    BY <1>1, <2>3 DEF ReceiverWaits
  <2>5. ReceiverEnabled(v) \subseteq ReceiverEnabled(receiver) \cup {"error"}
    BY <2>3, ReceiverEnabledMeans
  <2> QED BY <1>1, <2>1, <2>2, <2>3, <2>4, <2>5 DEF ReceiverInv
<1> QED BY <1>2, <1>3, <1>4, <1>5 DEF ReceiverSteps
-----------------------------------------------------------------------------
\* What an automaton waits for is under way: in one of the sets of the sender s.
UnderWay(s, aw) ==
  \A u \in Users : aw[u] = "yes" => u \in s.sendSet \/ u \in s.completeSet \/ s.errno

AwaitInv == awaiting \in [Users -> {"no", "yes", "forgotten"}] /\ UnderWay(sender, awaiting)

LEMMA HandledIs ==
  ASSUME NEW s \in SenderType, NEW a, SenderHandler(a, s)
  PROVE  /\ sender'.sendSet = s.sendSet /\ sender'.completeSet = s.completeSet
         /\ sender'.errno = s.errno
<1> DEFINE t == (s.sched \ {a}) \cup SenderEnabled(s, bindings)
<1>1. sender' = [s EXCEPT !.sched = t]
  BY DEF SenderHandler
<1> HIDE DEF t
<1> QED BY <1>1 DEF SenderType

\* The sets of the sender, and what is awaited, after each of its actions.
LEMMA SendAwaits ==
  ASSUME SenderInv, AwaitInv, NEW u \in Users, NEW k \in Kinds, SendDatagram(u, k)
  PROVE  AwaitInv'
<1> DEFINE takes == ~sender.errno /\ u \notin sender.sendSet \cup sender.completeSet
           q == Append(sender.queue, <<u, k>>)
           w == [sender EXCEPT !.queue = q, !.sendSet = @ \cup {u}]
           v == AddToCompleteSet(sender, u)
<1>1. sender \in SenderType /\ awaiting \in [Users -> {"no", "yes", "forgotten"}]
      /\ UnderWay(sender, awaiting)
  BY DEF SenderInv, AwaitInv
<1>2. CASE ~takes
  <2>1. SenderHandler("none", sender) /\ awaiting' = awaiting
    BY <1>2 DEF SendDatagram
  <2> QED BY <1>1, <2>1, HandledIs DEF AwaitInv, UnderWay
<1>3. ASSUME takes, NEW s \in SenderType, SenderHandler("none", s), s.errno = sender.errno,
             s.sendSet \cup s.completeSet = sender.sendSet \cup sender.completeSet \cup {u}
      PROVE  AwaitInv'
  <2>1. awaiting' = [awaiting EXCEPT ![u] = "yes"]
    BY <1>3 DEF SendDatagram
  <2>2. \A x \in Users : x # u => awaiting'[x] = awaiting[x]
    BY <1>1, <2>1
  <2>3. awaiting' \in [Users -> {"no", "yes", "forgotten"}]
    BY <1>1, <2>1
  <2> HIDE DEF takes
  <2>4. UnderWay(sender', awaiting')
    BY <1>1, <1>3, <2>2, HandledIs DEF UnderWay
  <2> QED BY <2>3, <2>4 DEF AwaitInv
<1>4. CASE takes /\ k = "bad"
  <2>1. SenderHandler("none", v)
    BY <1>4 DEF SendDatagram
  <2>2. v \in SenderType /\ v.errno = sender.errno /\ v.sendSet = sender.sendSet
        /\ v.completeSet = sender.completeSet \cup {u}
    BY <1>1 DEF AddToCompleteSet, SenderType
  <2> HIDE DEF v, takes
  <2> QED BY <1>3, <1>4, <2>1, <2>2
<1>5. CASE takes /\ k # "bad"
  <2>1. SenderHandler("none", w)
    BY <1>5 DEF SendDatagram
  <2>2. q \in Seq(Users \X Kinds)
    BY <1>1, AppendProperties DEF SenderType
  <2> HIDE DEF q
  <2>3. w \in SenderType /\ w.errno = sender.errno /\ w.completeSet = sender.completeSet
        /\ w.sendSet = sender.sendSet \cup {u}
    BY <1>1, <2>2 DEF SenderType
  <2> HIDE DEF w, takes
  <2> QED BY <1>3, <1>5, <2>1, <2>3
<1> QED BY <1>2, <1>4, <1>5

LEMMA WriteReadyAwaits ==
  ASSUME SenderInv, AwaitInv, NEW ok \in BOOLEAN, SenderWriteReady(ok)
  PROVE  AwaitInv'
<1> DEFINE s == [sender EXCEPT !.state = "SCHEDULE_WRITE_READY", !.armed = FALSE]
           item == Head(sender.queue)
           popped == [s EXCEPT !.queue = Tail(@), !.sendSet = @ \ {item[1]}]
           failed == [popped EXCEPT !.errno = TRUE]
           v == AddToCompleteSet(popped, item[1])
<1>1. /\ sender \in SenderType /\ awaiting \in [Users -> {"no", "yes", "forgotten"}]
      /\ UnderWay(sender, awaiting) /\ awaiting' = awaiting
  BY DEF SenderInv, AwaitInv, SenderWriteReady
<1>2. s \in SenderType /\ s.queue = sender.queue /\ s.sendSet = sender.sendSet
      /\ s.completeSet = sender.completeSet /\ s.errno = sender.errno
  BY <1>1 DEF SenderType
<1>3. \/ sender.queue = <<>> /\ SenderHandler("none", s)
      \/ sender.queue # <<>> /\ SenderHandler("none", v)
      \/ sender.queue # <<>> /\ SenderHandler("none", failed)
  BY DEF SenderWriteReady
<1> HIDE DEF s
<1>4. ASSUME NEW r \in SenderType, SenderHandler("none", r),
             \/ r.errno
             \/ r.errno = sender.errno
                /\ sender.sendSet \cup sender.completeSet \subseteq r.sendSet \cup r.completeSet
      PROVE  AwaitInv'
  <2>1. UnderWay(sender', awaiting')
    BY <1>1, <1>4, HandledIs DEF UnderWay
  <2> QED BY <1>1, <2>1 DEF AwaitInv
<1>5. CASE sender.queue = <<>> /\ SenderHandler("none", s)
  BY <1>2, <1>4, <1>5
<1>6. CASE sender.queue # <<>>
  <2>1. item \in Users \X Kinds /\ Tail(sender.queue) \in Seq(Users \X Kinds)
    BY <1>1, <1>6, HeadTailProperties DEF SenderType
  <2> HIDE DEF item
  <2>2. popped \in SenderType /\ popped.sendSet = sender.sendSet \ {item[1]}
        /\ popped.completeSet = sender.completeSet /\ popped.errno = sender.errno
    BY <1>2, <2>1 DEF SenderType
  <2> HIDE DEF popped
  <2>3. failed \in SenderType /\ failed.errno
    BY <2>2 DEF SenderType
  <2>4. v \in SenderType /\ v.errno = sender.errno /\ v.sendSet = sender.sendSet \ {item[1]}
        /\ v.completeSet = sender.completeSet \cup {item[1]}
    BY <2>1, <2>2 DEF AddToCompleteSet, SenderType
  <2> HIDE DEF failed, v
  <2>5. sender.sendSet \cup sender.completeSet \subseteq v.sendSet \cup v.completeSet
    BY <2>4
  <2> QED BY <1>3, <1>4, <1>6, <2>3, <2>4, <2>5
<1> QED BY <1>3, <1>5, <1>6

LEMMA CompleteAwaits ==
  ASSUME SenderInv, AwaitInv, NEW u \in Users, SendDatagramComplete(u)
  PROVE  AwaitInv'
<1> DEFINE s == [sender EXCEPT !.completing = @ \ {u}]
           w == [s EXCEPT !.completeSet = @ \ {u}]
<1>1. /\ sender \in SenderType /\ awaiting \in [Users -> {"no", "yes", "forgotten"}]
      /\ UnderWay(sender, awaiting)
  BY DEF SenderInv, AwaitInv
<1>2. /\ w \in SenderType /\ w.sendSet = sender.sendSet /\ w.errno = sender.errno
      /\ w.completeSet = sender.completeSet \ {u}
  BY <1>1 DEF SenderType
<1>3. /\ s.sendSet = sender.sendSet /\ s.completeSet = sender.completeSet /\ s.errno = sender.errno
  BY <1>1 DEF SenderType
<1>4. \/ SenderHandler("none", w) /\ awaiting' = [awaiting EXCEPT ![u] = "no"]
      \/ sender' = s /\ awaiting' = awaiting
  BY DEF SendDatagramComplete
<1> HIDE DEF s, w
<1>5. CASE SenderHandler("none", w) /\ awaiting' = [awaiting EXCEPT ![u] = "no"]
  <2>1. \A x \in Users : awaiting'[x] = IF x = u THEN "no" ELSE awaiting[x]
    BY <1>1, <1>5
  <2>2. awaiting' \in [Users -> {"no", "yes", "forgotten"}]
    BY <1>1, <1>5
  <2>3. UnderWay(sender', awaiting')
    BY <1>1, <1>2, <1>5, <2>1, HandledIs DEF UnderWay
  <2> QED BY <2>2, <2>3 DEF AwaitInv
<1>6. CASE sender' = s /\ awaiting' = awaiting
  BY <1>1, <1>3, <1>6 DEF AwaitInv, UnderWay
<1> QED BY <1>4, <1>5, <1>6

LEMMA BindingsAwait ==
  ASSUME SenderInv, AwaitInv, NEW b \in UdpBindings, BindSender(b) \/ UnbindSender(b)
  PROVE  AwaitInv'
<1>1. awaiting \in [Users -> {"no", "yes", "forgotten"}] /\ UnderWay(sender, awaiting)
  BY DEF AwaitInv
<1>2. ScheduleOutput(b) /\ bindings' \subseteq bindings \cup {b}
  BY DEF BindSender, UnbindSender
<1>3. awaiting' = awaiting \/ awaiting' = [u \in Users |-> IF u = b[2] THEN "no" ELSE awaiting[u]]
  BY DEF BindSender, UnbindSender
<1>4. /\ awaiting' \in [Users -> {"no", "yes", "forgotten"}]
      /\ \A u \in Users : awaiting'[u] = "yes" => awaiting[u] = "yes"
  BY <1>1, <1>3
<1>5. UnderWay(sender', awaiting')
  BY <1>1, <1>2, <1>4, OutputScheduled DEF UnderWay
<1> QED BY <1>4, <1>5 DEF AwaitInv

LEMMA ObserveAwaits ==
  ASSUME SenderInv, AwaitInv, ObserveUnbound
  PROVE  AwaitInv'
<1> DEFINE h == Head(notices)
           u == h[2]
           w == Purge(sender, u)
<1>1. /\ sender \in SenderType /\ awaiting \in [Users -> {"no", "yes", "forgotten"}]
      /\ UnderWay(sender, awaiting)
  BY DEF SenderInv, AwaitInv
<1>2. w.sendSet = sender.sendSet \ {u} /\ w.completeSet = sender.completeSet \ {u} /\ w.errno = sender.errno
  BY <1>1 DEF Purge, SenderType
<1>3. \/ sender' = w /\ awaiting' = [awaiting EXCEPT ![u] = IF @ = "yes" THEN "forgotten" ELSE @]
      \/ UNCHANGED <<sender, awaiting>>
  BY DEF ObserveUnbound
<1> HIDE DEF w, u
<1>4. CASE sender' = w /\ awaiting' = [awaiting EXCEPT ![u] = IF @ = "yes" THEN "forgotten" ELSE @]
  <2>1. \A x \in Users : awaiting'[x] = IF x = u /\ awaiting[x] = "yes" THEN "forgotten" ELSE awaiting[x]
    BY <1>1, <1>4
  <2>2. awaiting' \in [Users -> {"no", "yes", "forgotten"}]
    BY <1>1, <1>4
  <2>3. UnderWay(sender', awaiting')
    BY <1>1, <1>2, <1>4, <2>1 DEF UnderWay
  <2> QED BY <2>2, <2>3 DEF AwaitInv
<1>5. CASE UNCHANGED <<sender, awaiting>>
  BY <1>1, <1>5 DEF AwaitInv
<1> QED BY <1>3, <1>4, <1>5

LEMMA AwaitKeeps ==
  ASSUME SenderInv, AwaitInv, SenderSteps \/ SenderInputs
  PROVE  AwaitInv'
<1>1. sender \in SenderType /\ UnderWay(sender, awaiting)
      /\ awaiting \in [Users -> {"no", "yes", "forgotten"}]
  BY DEF SenderInv, AwaitInv
<1>2. CASE SenderScheduleWriteReady
  <2> DEFINE w == [sender EXCEPT !.state = "WRITE_READY_WAIT", !.armed = TRUE]
  <2>1. SenderHandler("schedule_write_ready", w) /\ awaiting' = awaiting
    BY <1>2 DEF SenderScheduleWriteReady
  <2>2. w \in SenderType /\ w.sendSet = sender.sendSet /\ w.completeSet = sender.completeSet
        /\ w.errno = sender.errno
    BY <1>1 DEF SenderType
  <2> HIDE DEF w
  <2> QED BY <1>1, <2>1, <2>2, HandledIs DEF AwaitInv, UnderWay
<1>3. CASE SenderError
  <2> DEFINE w == [sender EXCEPT !.errorReported = TRUE]
             s == [sender EXCEPT !.sched = @ \ {"error"}]
  <2>1. (SenderHandler("error", w) \/ sender' = s) /\ awaiting' = awaiting
    BY <1>3 DEF SenderError
  <2>2. /\ w \in SenderType /\ w.sendSet = sender.sendSet /\ w.completeSet = sender.completeSet
        /\ w.errno = sender.errno
        /\ s.sendSet = sender.sendSet /\ s.completeSet = sender.completeSet
        /\ s.errno = sender.errno
    BY <1>1 DEF SenderType
  <2> HIDE DEF w, s
  <2>3. /\ sender'.sendSet = sender.sendSet /\ sender'.completeSet = sender.completeSet
        /\ sender'.errno = sender.errno
    BY <2>1, <2>2, HandledIs
  <2> QED BY <1>1, <2>1, <2>3 DEF AwaitInv, UnderWay
<1> QED BY <1>2, <1>3, SendAwaits, WriteReadyAwaits, CompleteAwaits, BindingsAwait, ObserveAwaits
        DEF SenderSteps, SenderInputs, UdpBindings
-----------------------------------------------------------------------------
UdpInv == SenderInv /\ ReceiverInv /\ AwaitInv

LEMMA UdpInitInv == UdpInit => UdpInv
<1> SUFFICES ASSUME UdpInit PROVE UdpInv
  OBVIOUS
<1>1. <<>> \in Seq(Users \X Kinds) /\ <<>> \in Seq(UdpBindings) /\ DOMAIN <<>> = {}
  OBVIOUS
<1>2. SenderInv
  <2>1. PICK failed \in BOOLEAN :
          sender = [queue |-> <<>>, sendSet |-> {}, completeSet |-> {},
                    state |-> "SCHEDULE_WRITE_READY", errno |-> failed, errorReported |-> FALSE,
                    sched |-> {}, completing |-> {}, armed |-> FALSE]
    BY DEF UdpInit, SenderInit
  <2>2. sender \in SenderType
    BY <1>1, <2>1 DEF SenderType
  <2>3. bindings = {} /\ notices = <<>>
    BY DEF UdpInit
  <2>4. SenderEnabled(sender, bindings) \subseteq sender.sched
    <3>1. "schedule_write_ready" \notin SenderEnabled(sender, bindings)
      BY <2>1, SenderEnabledMeans
    <3>2. "error" \notin SenderEnabled(sender, bindings)
      BY <2>3, SenderEnabledMeans
    <3> QED BY <3>1, <3>2, SenderEnabledMeans
  <2>5. SenderRight(sender)
    BY <1>1, <2>1 DEF SenderRight, OneEach, UsersOf
  <2> QED BY <1>1, <2>1, <2>2, <2>3, <2>4, <2>5
          DEF SenderInv, ServedRight, CompletionsScheduled, SenderWaits
<1>3. ReceiverInv
  <2>1. PICK failed \in BOOLEAN :
          LET r == [queue |-> <<>>, state |-> "SCHEDULE_READ_READY", errno |-> failed,
                    errorReported |-> FALSE, errorBound |-> FALSE, sched |-> {}, armed |-> FALSE]
          IN receiver = [r EXCEPT !.sched = ReceiverEnabled(r)]
    BY DEF UdpInit, ReceiverInit
  <2> DEFINE r == [queue |-> <<>>, state |-> "SCHEDULE_READ_READY", errno |-> failed,
                   errorReported |-> FALSE, errorBound |-> FALSE, sched |-> {}, armed |-> FALSE]
  <2>2. r \in ReceiverType /\ ReceiverWaits(r) /\ r.sched = {}
    BY <1>1 DEF ReceiverType, ReceiverWaits
  <2>3. receiver = [r EXCEPT !.sched = ReceiverEnabled(r)]
    BY <2>1
  <2> DEFINE t == ReceiverEnabled(r)
             w == [r EXCEPT !.sched = t]
  <2>4. t \subseteq {"receive", "error", "schedule_read_ready"}
    BY ReceiverEnabledMeans
  <2>5. ReceiverEnabled(r) \subseteq t
    OBVIOUS
  <2>6. receiver = w
    BY <2>3
  <2> HIDE DEF t, r
  <2>7. w \in ReceiverType
    BY <2>2, <2>4 DEF ReceiverType
  <2>8. /\ w.queue = r.queue /\ w.state = r.state /\ w.errno = r.errno
        /\ w.errorReported = r.errorReported /\ w.errorBound = r.errorBound
        /\ w.armed = r.armed /\ w.sched = t
    BY <2>2 DEF ReceiverType
  <2> HIDE DEF w
  <2>9. ReceiverWaits(w) /\ ReceiverEnabled(w) \subseteq w.sched
    BY <2>2, <2>5, <2>8 DEF ReceiverWaits, ReceiverEnabled
  <2>10. network = {}
    BY DEF UdpInit
  <2> QED BY <2>6, <2>7, <2>9, <2>10 DEF ReceiverInv
<1>4. AwaitInv
  BY DEF UdpInit, AwaitInv, UnderWay
<1> QED BY <1>2, <1>3, <1>4 DEF UdpInv

\* The sender and the receiver share only the network, which the sender fills.
LEMMA SenderFillsNetwork ==
  ASSUME UdpInv, SenderSteps \/ SenderInputs
  PROVE  SenderInv' /\ ReceiverInv'
<1>1. SenderInv /\ ReceiverInv
  BY DEF UdpInv
<1>2. SenderInv'
  BY <1>1, SendDatagramKeeps, SenderScheduleWriteReadyKeeps, SenderWriteReadyKeeps,
     SendDatagramCompleteKeeps, SenderErrorKeeps, BindSenderKeeps, UnbindSenderKeeps,
     ObserveUnboundKeeps DEF SenderSteps, SenderInputs, UdpBindings
<1>3. receiver' = receiver
  BY DEF SenderSteps, SenderInputs, SenderScheduleWriteReady, SenderError, ObserveUnbound,
     SenderWriteReady, SendDatagramComplete, SendDatagram, BindSender, UnbindSender
<1>4. network' \subseteq Users \X Kinds
  <2>1. network \subseteq Users \X Kinds
    BY <1>1 DEF ReceiverInv
  <2>2. ASSUME NEW ok \in BOOLEAN, SenderWriteReady(ok)
        PROVE  network' \subseteq Users \X Kinds
    <3>1. network' = network \/ (sender.queue # <<>> /\ network' = network \cup {Head(sender.queue)})
      BY <2>2 DEF SenderWriteReady
    <3>2. sender.queue # <<>> => Head(sender.queue) \in Users \X Kinds
      BY <1>1, HeadTailProperties DEF SenderInv, SenderType
    <3> QED BY <2>1, <3>1, <3>2
  <2>3. ASSUME ~\E ok \in BOOLEAN : SenderWriteReady(ok)
        PROVE  network' = network
    BY <2>3 DEF SenderSteps, SenderInputs, SenderScheduleWriteReady, SenderError, ObserveUnbound,
       SendDatagramComplete, SendDatagram, BindSender, UnbindSender
  <2> QED BY <2>1, <2>2, <2>3
<1> QED BY <1>1, <1>2, <1>3, <1>4 DEF ReceiverInv

LEMMA UdpNextInv ==
  UdpInv /\ [SenderSteps \/ ReceiverSteps \/ SenderInputs \/ ReceiverInputs]_udpVars => UdpInv'
<1> SUFFICES ASSUME UdpInv, [SenderSteps \/ ReceiverSteps \/ SenderInputs \/ ReceiverInputs]_udpVars
             PROVE  UdpInv'
  OBVIOUS
<1>1. CASE SenderSteps \/ SenderInputs
  BY <1>1, SenderFillsNetwork, AwaitKeeps DEF UdpInv
<1>2. CASE ReceiverSteps \/ ReceiverInputs
  <2>1. UNCHANGED <<sender, bindings, notices, awaiting>>
    BY <1>2 DEF ReceiverSteps, ReceiverInputs, ReceiverScheduleReadReady, ReceiveDatagram,
       ReceiverError, BindReceiverError, LoseDatagram, Datagram
  <2>2. SenderInv'
    BY <2>1 DEF UdpInv, SenderInv
  <2>3. ASSUME NEW item \in network, LoseDatagram(item)
        PROVE  ReceiverInv'
    BY <2>3 DEF UdpInv, ReceiverInv, LoseDatagram
  <2>4. ReceiverInv'
    BY <1>2, <2>3, DatagramKeeps, ReceiverStepsKeep DEF UdpInv, ReceiverInputs
  <2>5. AwaitInv'
    BY <2>1 DEF UdpInv, AwaitInv
  <2> QED BY <2>2, <2>4, <2>5 DEF UdpInv
<1>3. CASE UNCHANGED udpVars
  BY <1>3 DEF udpVars, UdpInv, SenderInv, ReceiverInv, AwaitInv
<1> QED BY <1>1, <1>2, <1>3

LEMMA UdpInvMeans ==
  ASSUME UdpInv
  PROVE  UdpTypeOK /\ UdpEnabledScheduled /\ OneOutstandingSend
<1>1. UdpTypeOK
  BY DEF UdpInv, SenderInv, ReceiverInv, AwaitInv, UdpTypeOK, SenderType, ReceiverType, UdpBindings
<1>2. UdpEnabledScheduled
  BY DEF UdpInv, SenderInv, ReceiverInv, UdpEnabledScheduled, Completable, CompletionsScheduled,
     SenderWaits, ReceiverWaits
<1>3. OneOutstandingSend
  <2>1. /\ sender.queue \in Seq(Users \X Kinds) /\ OneEach(sender.queue)
        /\ sender.sendSet = UsersOf(sender.queue) /\ sender.sendSet \cap sender.completeSet = {}
        /\ ServedRight(sender, bindings, notices)
    BY DEF UdpInv, SenderInv, SenderRight, SenderType
  <2>2. Len(sender.queue) = Cardinality(sender.sendSet)
    BY <2>1, OneEachCounts
  <2>3. ASSUME NEW u \in sender.sendSet \cup sender.completeSet,
               \A i \in DOMAIN notices : notices[i][2] # u
        PROVE  <<"send", u>> \in bindings
    BY <2>1, <2>3 DEF ServedRight
  <2>4. \A u \in Users : awaiting[u] = "yes" => u \in sender.sendSet \cup sender.completeSet \/ sender.errno
    BY DEF UdpInv, AwaitInv, UnderWay
  <2> QED BY <2>1, <2>2, <2>3, <2>4 DEF OneOutstandingSend, UsersOf
<1> QED BY <1>1, <1>2, <1>3

(* Whatever is sent, bound, unbound, bound again, lost and repeated: the    *)
(* sender has at most one datagram or completion of each automaton under    *)
(* way, and none of one that is not bound once it was told; what an         *)
(* automaton waits for is under way until the socket fails or the notice of *)
(* an unbinding purges it; what is enabled is queued.                       *)
THEOREM SenderServesRight ==
  UdpSpec => [](UdpTypeOK /\ OneOutstandingSend /\ UdpEnabledScheduled)
BY UdpInitInv, UdpNextInv, UdpInvMeans, PTL DEF UdpSpec
-----------------------------------------------------------------------------
(* The automata of TcpSetup. *)

AcceptorType ==
  [alive : BOOLEAN, state : {"SCHEDULE_READ_READY", "READ_READY_WAIT"}, errno : BOOLEAN,
   errorReported : BOOLEAN, errorBound : BOOLEAN, connectionQueue : Seq(Conns), fdQueue : Seq(Fds),
   sched : SUBSET {"error", "schedule_read_ready", "create_helper"}]

ConnectorType ==
  [alive : BOOLEAN, fd : Fds \cup {NoFd}, errno : BOOLEAN, errorReported : BOOLEAN,
   errorBound : BOOLEAN, armed : BOOLEAN, sched : SUBSET {"error"}]

HelperType ==
  [state : {"asked", "START", "SUCCESS", "FAIL", "STOP"}, owner : {"acceptor", "connector"},
   conn : Conns, fd : Fds, init : {"unasked", "asked", "bound", "unbound", "failed"},
   done : {"unasked", "asked", "bound"}, sched : SUBSET {"init", "done"}]

SetupTypes ==
  /\ acceptor \in AcceptorType /\ connector \in ConnectorType
  /\ helper \in [Helpers -> HelperType \cup {Free}]
  /\ holds \in [Conns -> Fds \cup {NoFd, Gone}]
  /\ offers \in Seq(Conns) /\ ignored \subseteq Fds /\ opened \subseteq Fds
  /\ closes \in [Fds -> Nat]

\* An owner that is gone has nothing queued, and its helpers went with it.
OwnersRight ==
  /\ ~acceptor.alive => /\ acceptor.sched = {} /\ acceptor.fdQueue = <<>>
                        /\ \A h \in Helpers : helper[h] # Free => helper[h].owner = "connector"
  /\ ~connector.alive => /\ connector.sched = {} /\ ~connector.armed
                         /\ \A h \in Helpers : helper[h] # Free => helper[h].owner = "acceptor"

\* What is enabled is queued: for the members of an acceptor, a connector, a helper.
AcceptorQueued(r) == r.alive => AcceptorEnabled(r) \subseteq r.sched
ConnectorQueued(r) == r.alive => ConnectorEnabled(r) \subseteq r.sched

\* A helper r is bound to init only while its connection, which holds x, is there.
HelperRight(r, x) ==
  r # Free =>
    /\ r.state = "asked" => r.init = "unasked" /\ r.done = "unasked"
    /\ r.init = "asked" => r.state = "START"
    /\ r.init = "bound" => x # Gone
    /\ r.state # "asked" => HelperEnabled(r) \subseteq r.sched

HelpersRight == \A h \in Helpers : helper[h] # Free => HelperRight(helper[h], holds[helper[h].conn])

\* With a connector there is its descriptor and no other, and it asks for a helper
\* when there is none.
OneCaller ==
  /\ ~acceptor.alive /\ opened \subseteq {connector.fd}
  /\ connector.armed => connector.fd \in Fds /\ \A h \in Helpers : helper[h] = Free

\* With an acceptor a connection that was offered once waits, or is with one helper,
\* or was served.
Waits(r) == r # Free /\ r.state \in {"asked", "START"}
Keeps(r) == r # Free /\ r.state \in {"asked", "START", "FAIL"}

Offered == {c \in Conns : \E i \in DOMAIN offers : offers[i] = c}

ServedOnce(q, hs, ho, off, twice) ==
  /\ \A i, j \in DOMAIN q : q[i] = q[j] => i = j \/ q[i] \in twice
  /\ \A h, k \in Helpers : Waits(hs[h]) /\ Waits(hs[k]) /\ hs[h].conn = hs[k].conn
                             => h = k \/ hs[h].conn \in twice
  /\ \A h \in Helpers, i \in DOMAIN q : Waits(hs[h]) /\ hs[h].conn = q[i] => q[i] \in twice
  /\ \A h \in Helpers : Waits(hs[h]) => /\ hs[h].conn \in off
                                       /\ (hs[h].conn \in twice \/ ho[hs[h].conn] \notin Fds)
  /\ \A i \in DOMAIN q : q[i] \in off /\ (q[i] \in twice \/ ho[q[i]] \notin Fds)
  /\ \A c \in Conns : ho[c] \in Fds => c \in off

\* Where a descriptor is: in the queue q, with a helper, with a connection, or closed.
InQueue(q, fd) == \E i \in DOMAIN q : q[i] = fd
WithHelper(hs, fd) == \E h \in Helpers : Keeps(hs[h]) /\ hs[h].fd = fd
WithConnection(ho, fd) == \E c \in Conns : ho[c] = fd

HeldOnce(q, hs, ho, cl, fd) ==
  /\ \A i, j \in DOMAIN q : q[i] = fd /\ q[j] = fd => i = j
  /\ \A h, k \in Helpers : Keeps(hs[h]) /\ Keeps(hs[k]) /\ hs[h].fd = fd /\ hs[k].fd = fd => h = k
  /\ \A c, d \in Conns : ho[c] = fd /\ ho[d] = fd => c = d
  /\ InQueue(q, fd) => ~WithHelper(hs, fd) /\ ~WithConnection(ho, fd) /\ cl[fd] = 0
  /\ WithHelper(hs, fd) => ~WithConnection(ho, fd) /\ cl[fd] = 0
  /\ WithConnection(ho, fd) => cl[fd] = 0
  /\ cl[fd] \in {0, 1}

Somewhere(q, hs, ho, cl, fd) ==
  InQueue(q, fd) \/ WithHelper(hs, fd) \/ WithConnection(ho, fd) \/ cl[fd] = 1

Accepts ==
  /\ ~connector.alive /\ connector.fd = NoFd
  /\ ServedOnce(acceptor.connectionQueue, helper, holds, Offered, OfferedAgain)
  /\ \A fd \in Fds :
       /\ HeldOnce(acceptor.fdQueue, helper, holds, closes, fd)
       /\ Somewhere(acceptor.fdQueue, helper, holds, closes, fd) => fd \in opened
       /\ acceptor.alive /\ fd \in opened
            => (fd \notin ignored <=> Somewhere(acceptor.fdQueue, helper, holds, closes, fd))
  /\ ignored \subseteq opened /\ (ignored # {} => OfferedAgain # {})

SetupInv ==
  /\ SetupTypes /\ OwnersRight /\ HelpersRight
  /\ AcceptorQueued(acceptor) /\ ConnectorQueued(connector)
  /\ OneCaller \/ Accepts
-----------------------------------------------------------------------------
LEMMA OffersSame ==
  ASSUME offers' = offers
  PROVE  Offered' = Offered /\ OfferedAgain' = OfferedAgain
BY DEF Offered, OfferedAgain

LEMMA AcceptorEnabledMeans ==
  ASSUME NEW r
  PROVE  /\ AcceptorEnabled(r) \subseteq {"error", "schedule_read_ready", "create_helper"}
         /\ "error" \in AcceptorEnabled(r) <=> r.errno /\ ~r.errorReported /\ r.errorBound
         /\ "schedule_read_ready" \in AcceptorEnabled(r) <=>
              /\ r.state = "SCHEDULE_READ_READY" /\ ~r.errno
              /\ r.connectionQueue # <<>> /\ r.fdQueue = <<>>
         /\ "create_helper" \in AcceptorEnabled(r) <=> r.connectionQueue # <<>> /\ r.fdQueue # <<>>
BY DEF AcceptorEnabled

LEMMA HelperEnabledMeans ==
  ASSUME NEW r
  PROVE  /\ HelperEnabled(r) \subseteq {"init", "done"}
         /\ "init" \in HelperEnabled(r) <=> r.state = "START" /\ r.init = "bound"
         /\ "done" \in HelperEnabled(r) <=> r.state \in {"SUCCESS", "FAIL"} /\ r.done = "bound"
BY DEF HelperEnabled

LEMMA AcceptorHandlerMeans ==
  ASSUME NEW r \in AcceptorType, NEW a, AcceptorHandler(a, r)
  PROVE  /\ acceptor' \in AcceptorType /\ AcceptorQueued(acceptor')
         /\ acceptor'.alive = r.alive /\ acceptor'.connectionQueue = r.connectionQueue
         /\ acceptor'.fdQueue = r.fdQueue
<1> DEFINE t == (r.sched \ {a}) \cup AcceptorEnabled(r)
           w == [r EXCEPT !.sched = t]
<1>1. t \subseteq {"error", "schedule_read_ready", "create_helper"}
  BY AcceptorEnabledMeans DEF AcceptorType
<1>2. acceptor' = w
  BY DEF AcceptorHandler
<1>3. AcceptorEnabled(r) \subseteq t
  OBVIOUS
<1> HIDE DEF t
<1>4. w \in AcceptorType
  BY <1>1 DEF AcceptorType
<1>5. /\ w.alive = r.alive /\ w.state = r.state /\ w.errno = r.errno
      /\ w.errorReported = r.errorReported /\ w.errorBound = r.errorBound
      /\ w.connectionQueue = r.connectionQueue /\ w.fdQueue = r.fdQueue /\ w.sched = t
  BY DEF AcceptorType
<1> HIDE DEF w
<1>6. AcceptorQueued(w)
  BY <1>3, <1>5 DEF AcceptorQueued, AcceptorEnabled
<1> QED BY <1>2, <1>4, <1>5, <1>6

LEMMA ConnectorHandlerMeans ==
  ASSUME NEW r \in ConnectorType, NEW a, ConnectorHandler(a, r)
  PROVE  /\ connector' \in ConnectorType /\ ConnectorQueued(connector')
         /\ connector'.alive = r.alive /\ connector'.armed = r.armed /\ connector'.fd = r.fd
<1> DEFINE t == (r.sched \ {a}) \cup ConnectorEnabled(r)
           w == [r EXCEPT !.sched = t]
<1>1. t \subseteq {"error"}
  BY DEF ConnectorEnabled, ConnectorType
<1>2. connector' = w
  BY DEF ConnectorHandler
<1>3. ConnectorEnabled(r) \subseteq t
  OBVIOUS
<1> HIDE DEF t
<1>4. w \in ConnectorType
  BY <1>1 DEF ConnectorType
<1>5. /\ w.alive = r.alive /\ w.fd = r.fd /\ w.errno = r.errno /\ w.armed = r.armed
      /\ w.errorReported = r.errorReported /\ w.errorBound = r.errorBound /\ w.sched = t
  BY DEF ConnectorType
<1> HIDE DEF w
<1>6. ConnectorQueued(w)
  BY <1>3, <1>5 DEF ConnectorQueued, ConnectorEnabled
<1> QED BY <1>2, <1>4, <1>5, <1>6

LEMMA HelperHandlerMeans ==
  ASSUME NEW r \in HelperType, NEW a
  PROVE  LET w == HelperHandler(a, r) IN
         /\ w \in HelperType /\ HelperEnabled(w) \subseteq w.sched
         /\ w.state = r.state /\ w.owner = r.owner /\ w.conn = r.conn /\ w.fd = r.fd
         /\ w.init = r.init /\ w.done = r.done
<1> DEFINE t == (r.sched \ {a}) \cup HelperEnabled(r)
           w == [r EXCEPT !.sched = t]
<1>1. t \subseteq {"init", "done"}
  BY HelperEnabledMeans DEF HelperType
<1>2. HelperHandler(a, r) = w
  BY DEF HelperHandler
<1>3. HelperEnabled(r) \subseteq t
  OBVIOUS
<1> HIDE DEF t
<1>4. w \in HelperType
  BY <1>1 DEF HelperType
<1>5. /\ w.state = r.state /\ w.owner = r.owner /\ w.conn = r.conn /\ w.fd = r.fd
      /\ w.init = r.init /\ w.done = r.done /\ w.sched = t
  BY DEF HelperType
<1> HIDE DEF w
<1>6. HelperEnabled(w) \subseteq w.sched
  BY <1>3, <1>5 DEF HelperEnabled
<1> QED BY <1>2, <1>4, <1>5, <1>6

\* A helper is one, or there is none.
LEMMA HelperIs ==
  ASSUME SetupTypes, NEW h \in Helpers
  PROVE  /\ helper[h] # Free => helper[h] \in HelperType
         /\ Live(h) => helper[h] # Free /\ helper[h].state # "asked"
         /\ helper[h] # Free /\ helper[h].state # "asked" => Live(h)
         /\ \A r \in HelperType : r # Free
<1>1. helper[h] \in HelperType \cup {Free}
  BY DEF SetupTypes
<1>2. Free.state = "free"
  BY DEF Free
<1>3. \A r \in HelperType : r.state \in {"asked", "START", "SUCCESS", "FAIL", "STOP"}
  BY DEF HelperType
<1>4. \A r \in HelperType : r # Free
  BY <1>2, <1>3
<1>5. Live(h) <=> helper[h] # Free /\ helper[h].state # "asked"
  BY <1>1, <1>2, <1>3, <1>4 DEF Live
<1> QED BY <1>1, <1>4, <1>5
-----------------------------------------------------------------------------
\* What moves nothing: an acceptor, a connector or a helper changes its state only.
LEMMA AcceptorQuiet ==
  ASSUME SetupInv, acceptor' \in AcceptorType, acceptor'.alive = acceptor.alive, acceptor.alive,
         acceptor'.connectionQueue = acceptor.connectionQueue, acceptor'.fdQueue = acceptor.fdQueue,
         AcceptorQueued(acceptor'), UNCHANGED <<connector, helper, holds, offers, ignored, opened, closes>>
  PROVE  SetupInv'
<1>1. SetupTypes' /\ OwnersRight' /\ HelpersRight'
  BY DEF SetupInv, SetupTypes, OwnersRight, HelpersRight
<1>2. Accepts
  BY DEF SetupInv, OneCaller
<1>3. Accepts'
  BY <1>2, OffersSame DEF Accepts
<1> QED BY <1>1, <1>3 DEF SetupInv

LEMMA ConnectorQuiet ==
  ASSUME SetupInv, connector' \in ConnectorType, connector'.alive = connector.alive, connector.alive,
         connector'.fd = connector.fd, connector'.armed => connector.armed,
         ConnectorQueued(connector'), UNCHANGED <<acceptor, helper, holds, offers, ignored, opened, closes>>
  PROVE  SetupInv'
<1>1. SetupTypes' /\ OwnersRight' /\ HelpersRight'
  BY DEF SetupInv, SetupTypes, OwnersRight, HelpersRight
<1>2. OneCaller
  BY DEF SetupInv, Accepts
<1>3. OneCaller'
  BY <1>2 DEF OneCaller
<1> QED BY <1>1, <1>3 DEF SetupInv

\* A helper changes, and keeps what it had to hand over or leaves it where it is.
LEMMA HelpersChange ==
  ASSUME NEW hs \in [Helpers -> HelperType \cup {Free}], NEW h \in Helpers, NEW r, NEW gs,
         gs = [hs EXCEPT ![h] = r], hs[h] # Free, r.conn = hs[h].conn, r.fd = hs[h].fd,
         Waits(r) => Waits(hs[h]), Keeps(r) <=> Keeps(hs[h])
  PROVE  /\ \A q, ho, off, twice : ServedOnce(q, hs, ho, off, twice) => ServedOnce(q, gs, ho, off, twice)
         /\ \A q, ho, cl, fd : HeldOnce(q, hs, ho, cl, fd) => HeldOnce(q, gs, ho, cl, fd)
         /\ \A q, ho, cl, fd : Somewhere(q, hs, ho, cl, fd) <=> Somewhere(q, gs, ho, cl, fd)
<1>1. /\ \A k \in Helpers : Waits(gs[k]) => Waits(hs[k]) /\ gs[k].conn = hs[k].conn
      /\ \A k \in Helpers : Keeps(gs[k]) <=> Keeps(hs[k])
      /\ \A k \in Helpers : Keeps(hs[k]) => gs[k].fd = hs[k].fd
  <2>1. \A k \in Helpers : gs[k] = IF k = h THEN r ELSE hs[k]
    OBVIOUS
  <2> QED BY <2>1
<1>2. \A fd : WithHelper(gs, fd) <=> WithHelper(hs, fd)
  BY <1>1 DEF WithHelper
<1>3. ASSUME NEW q, NEW ho, NEW off, NEW twice, ServedOnce(q, hs, ho, off, twice)
      PROVE  ServedOnce(q, gs, ho, off, twice)
  BY <1>1, <1>3 DEF ServedOnce
<1>4. ASSUME NEW q, NEW ho, NEW cl, NEW fd, HeldOnce(q, hs, ho, cl, fd)
      PROVE  HeldOnce(q, gs, ho, cl, fd)
  BY <1>1, <1>2, <1>4 DEF HeldOnce
<1> QED BY <1>2, <1>3, <1>4 DEF Somewhere

LEMMA HelperQuiet ==
  ASSUME SetupInv, NEW h \in Helpers, helper[h] # Free, NEW r \in HelperType,
         helper' = [helper EXCEPT ![h] = r], r.owner = helper[h].owner, r.conn = helper[h].conn,
         r.fd = helper[h].fd, Waits(r) => Waits(helper[h]), Keeps(r) <=> Keeps(helper[h]),
         HelperRight(r, holds[r.conn]), UNCHANGED <<acceptor, connector, holds, offers, ignored, opened, closes>>
  PROVE  SetupInv'
<1>1. SetupTypes /\ OwnersRight /\ HelpersRight /\ (OneCaller \/ Accepts) /\ r # Free
  BY HelperIs DEF SetupInv
<1>2. \A k \in Helpers : helper'[k] = IF k = h THEN r ELSE helper[k]
  BY <1>1 DEF SetupTypes
<1>3. SetupTypes'
  BY <1>1 DEF SetupTypes
<1>4. OwnersRight'
  BY <1>1, <1>2 DEF OwnersRight
<1>5. HelpersRight'
  BY <1>1, <1>2 DEF HelpersRight
<1>6. OneCaller => OneCaller'
  BY <1>1, <1>2 DEF OneCaller
<1>7. Accepts => Accepts'
  <2>1. /\ \A q, ho, off, twice : ServedOnce(q, helper, ho, off, twice) => ServedOnce(q, helper', ho, off, twice)
        /\ \A q, ho, cl, fd : HeldOnce(q, helper, ho, cl, fd) => HeldOnce(q, helper', ho, cl, fd)
        /\ \A q, ho, cl, fd : Somewhere(q, helper, ho, cl, fd) <=> Somewhere(q, helper', ho, cl, fd)
    BY <1>1, HelpersChange DEF SetupTypes
  <2> QED BY <2>1, OffersSame DEF Accepts
<1> QED BY <1>1, <1>3, <1>4, <1>5, <1>6, <1>7 DEF SetupInv, AcceptorQueued, ConnectorQueued
-----------------------------------------------------------------------------
LEMMA SetupOwnersQuiet ==
  ASSUME SetupInv,
         \/ AcceptorScheduleReadReady \/ AcceptorError \/ ConnectorError \/ BindError
         \/ SetupRunDisabled /\ UNCHANGED helper
  PROVE  SetupInv'
<1>0. /\ acceptor \in AcceptorType /\ connector \in ConnectorType
      /\ ~acceptor.alive => acceptor.sched = {}
      /\ ~connector.alive => connector.sched = {}
      /\ AcceptorQueued(acceptor) /\ ConnectorQueued(connector)
  BY DEF SetupInv, SetupTypes, OwnersRight
<1>1. CASE AcceptorScheduleReadReady
  <2> DEFINE r == [acceptor EXCEPT !.state = "READ_READY_WAIT"]
  <2>1. AcceptorHandler("schedule_read_ready", r) /\ acceptor.alive
    BY <1>0, <1>1 DEF AcceptorScheduleReadReady
  <2>2. /\ r \in AcceptorType /\ r.alive = acceptor.alive
        /\ r.connectionQueue = acceptor.connectionQueue /\ r.fdQueue = acceptor.fdQueue
    BY <1>0 DEF AcceptorType
  <2> HIDE DEF r
  <2> QED BY <1>1, <2>1, <2>2, AcceptorHandlerMeans, AcceptorQuiet DEF AcceptorScheduleReadReady
<1>2. CASE AcceptorError
  <2> DEFINE r == [acceptor EXCEPT !.errorReported = TRUE]
  <2>1. AcceptorHandler("error", r) /\ acceptor.alive
    BY <1>0, <1>2 DEF AcceptorError
  <2>2. /\ r \in AcceptorType /\ r.alive = acceptor.alive
        /\ r.connectionQueue = acceptor.connectionQueue /\ r.fdQueue = acceptor.fdQueue
    BY <1>0 DEF AcceptorType
  <2> HIDE DEF r
  <2> QED BY <1>2, <2>1, <2>2, AcceptorHandlerMeans, AcceptorQuiet DEF AcceptorError
<1>3. CASE ConnectorError
  <2> DEFINE r == [connector EXCEPT !.errorReported = TRUE]
  <2>1. ConnectorHandler("error", r) /\ connector.alive
    BY <1>0, <1>3 DEF ConnectorError
  <2>2. /\ r \in ConnectorType /\ r.alive = connector.alive
        /\ r.armed = connector.armed /\ r.fd = connector.fd
    BY <1>0 DEF ConnectorType
  <2> HIDE DEF r
  <2> QED BY <1>3, <2>1, <2>2, ConnectorHandlerMeans, ConnectorQuiet DEF ConnectorError
<1>4. ASSUME acceptor.alive, NEW b \in BOOLEAN, NEW t \in SUBSET {"error", "schedule_read_ready", "create_helper"},
             acceptor' = [acceptor EXCEPT !.errorBound = b, !.sched = t], b \/ ~acceptor.errorBound,
             \/ acceptor.sched \cup {"error"} \subseteq t
             \/ b = acceptor.errorBound /\ AcceptorEnabled(acceptor) \subseteq t,
             UNCHANGED <<connector, helper, holds, offers, ignored, opened, closes>>
      PROVE  SetupInv'
  <2> DEFINE r == [acceptor EXCEPT !.errorBound = b, !.sched = t]
  <2>1. /\ r \in AcceptorType /\ r.alive = acceptor.alive /\ r.state = acceptor.state
        /\ r.errno = acceptor.errno /\ r.errorReported = acceptor.errorReported
        /\ r.connectionQueue = acceptor.connectionQueue /\ r.fdQueue = acceptor.fdQueue
        /\ r.errorBound = b /\ r.sched = t
    BY <1>0 DEF AcceptorType
  <2>2. acceptor' = r
    BY <1>4
  <2> HIDE DEF r
  <2>3. AcceptorEnabled(r) \subseteq t
    <3>1. CASE acceptor.sched \cup {"error"} \subseteq t
      BY <1>0, <1>4, <2>1, <3>1, AcceptorEnabledMeans DEF AcceptorQueued
    <3>2. CASE b = acceptor.errorBound /\ AcceptorEnabled(acceptor) \subseteq t
      BY <2>1, <3>2 DEF AcceptorEnabled
    <3> QED BY <1>4, <3>1, <3>2
  <2> QED BY <1>4, <2>1, <2>2, <2>3, AcceptorQuiet DEF AcceptorQueued
<1>5. ASSUME connector.alive, NEW b \in BOOLEAN, NEW t \in SUBSET {"error"},
             connector' = [connector EXCEPT !.errorBound = b, !.sched = t],
             \/ "error" \in t
             \/ b = connector.errorBound /\ ConnectorEnabled(connector) \subseteq t,
             UNCHANGED <<acceptor, helper, holds, offers, ignored, opened, closes>>
      PROVE  SetupInv'
  <2> DEFINE r == [connector EXCEPT !.errorBound = b, !.sched = t]
  <2>1. /\ r \in ConnectorType /\ r.alive = connector.alive /\ r.armed = connector.armed
        /\ r.errno = connector.errno /\ r.errorReported = connector.errorReported
        /\ r.fd = connector.fd /\ r.errorBound = b /\ r.sched = t
    BY <1>0 DEF ConnectorType
  <2>2. connector' = r
    BY <1>5
  <2> HIDE DEF r
  <2>3. ConnectorEnabled(r) \subseteq t
    BY <1>5, <2>1 DEF ConnectorEnabled
  <2> QED BY <1>5, <2>1, <2>2, <2>3, ConnectorQuiet DEF ConnectorQueued
<1>6. CASE BindError
  <2>1. UNCHANGED <<helper, holds, offers, ignored, opened, closes>>
    BY <1>6 DEF BindError
  <2>2. CASE acceptor.alive /\ UNCHANGED connector
               /\ acceptor' = [acceptor EXCEPT !.errorBound = TRUE, !.sched = @ \cup {"error"}]
    <3> DEFINE t == acceptor.sched \cup {"error"}
    <3>1. acceptor' = [acceptor EXCEPT !.errorBound = TRUE, !.sched = t]
      BY <1>0, <2>2 DEF AcceptorType
    <3>2. t \in SUBSET {"error", "schedule_read_ready", "create_helper"}
      BY <1>0 DEF AcceptorType
    <3>3. acceptor.sched \cup {"error"} \subseteq t
      OBVIOUS
    <3> HIDE DEF t
    <3> QED BY <1>4, <2>1, <2>2, <3>1, <3>2, <3>3
  <2>3. CASE connector.alive /\ UNCHANGED acceptor
               /\ connector' = [connector EXCEPT !.errorBound = TRUE, !.sched = @ \cup {"error"}]
    <3> DEFINE t == connector.sched \cup {"error"}
    <3>1. connector' = [connector EXCEPT !.errorBound = TRUE, !.sched = t]
      BY <1>0, <2>3 DEF ConnectorType
    <3>2. t \in SUBSET {"error"} /\ "error" \in t
      BY <1>0 DEF ConnectorType
    <3> HIDE DEF t
    <3> QED BY <1>5, <2>1, <2>3, <3>1, <3>2
  <2> QED BY <1>6, <2>2, <2>3 DEF BindError
<1>7. CASE SetupRunDisabled /\ UNCHANGED helper
  <2>1. UNCHANGED <<helper, holds, offers, ignored, opened, closes>>
    BY <1>7 DEF SetupRunDisabled
  <2>2. CASE acceptor.sched \ AcceptorEnabled(acceptor) # {} /\ UNCHANGED connector
               /\ acceptor' = [acceptor EXCEPT !.sched = @ \cap AcceptorEnabled(acceptor)]
    <3> DEFINE t == acceptor.sched \cap AcceptorEnabled(acceptor)
               b == acceptor.errorBound
    <3>1. acceptor' = [acceptor EXCEPT !.errorBound = b, !.sched = t] /\ b \in BOOLEAN
      BY <1>0, <2>2 DEF AcceptorType
    <3>2. t \in SUBSET {"error", "schedule_read_ready", "create_helper"} /\ acceptor.alive
      BY <1>0, <2>2 DEF AcceptorType
    <3>3. b = acceptor.errorBound /\ AcceptorEnabled(acceptor) \subseteq t
      BY <1>0, <3>2 DEF AcceptorQueued
    <3> HIDE DEF t, b
    <3> QED BY <1>4, <2>1, <2>2, <3>1, <3>2, <3>3
  <2>3. CASE connector.sched \ ConnectorEnabled(connector) # {} /\ UNCHANGED acceptor
               /\ connector' = [connector EXCEPT !.sched = @ \cap ConnectorEnabled(connector)]
    <3> DEFINE t == connector.sched \cap ConnectorEnabled(connector)
               b == connector.errorBound
    <3>1. connector' = [connector EXCEPT !.errorBound = b, !.sched = t] /\ b \in BOOLEAN
      BY <1>0, <2>3 DEF ConnectorType
    <3>2. t \in SUBSET {"error"} /\ connector.alive
      BY <1>0, <2>3 DEF ConnectorType
    <3>3. b = connector.errorBound /\ ConnectorEnabled(connector) \subseteq t
      BY <1>0, <3>2 DEF ConnectorQueued
    <3> HIDE DEF t, b
    <3> QED BY <1>5, <2>1, <2>3, <3>1, <3>2, <3>3
  <2>4. ASSUME NEW h \in Helpers, Live(h), helper[h].sched \ HelperEnabled(helper[h]) # {},
               helper' = [helper EXCEPT ![h].sched = @ \cap HelperEnabled(helper[h])]
        PROVE  FALSE
    <3>1. helper[h] \in HelperType /\ helper \in [Helpers -> HelperType \cup {Free}]
      BY <2>4, HelperIs DEF SetupInv, SetupTypes
    <3>2. helper'[h].sched = helper[h].sched \cap HelperEnabled(helper[h])
      BY <2>4, <3>1 DEF HelperType
    <3> QED BY <1>7, <2>4, <3>2
  <2> QED BY <1>7, <2>2, <2>3, <2>4 DEF SetupRunDisabled
<1> QED BY <1>1, <1>2, <1>3, <1>6, <1>7

LEMMA SetupHelpersQuiet ==
  ASSUME SetupInv, NEW h \in Helpers,
         \/ CreateHelper(h) \/ HelperCreated(h) \/ BindInit(h) \/ BindDone(h)
         \/ /\ SetupRunDisabled /\ Live(h) /\ UNCHANGED <<acceptor, connector>>
            /\ helper' = [helper EXCEPT ![h].sched = @ \cap HelperEnabled(helper[h])]
  PROVE  SetupInv'
<1> DEFINE e == helper[h]
           x == holds[e.conn]
<1>0. /\ helper[h] \in HelperType /\ helper[h] # Free /\ HelperRight(e, x)
      /\ helper \in [Helpers -> HelperType \cup {Free}]
      /\ UNCHANGED <<acceptor, connector, holds, offers, ignored, opened, closes>>
  <2>1. helper[h].state = "asked" \/ Live(h)
    BY DEF CreateHelper, HelperCreated, BindInit, BindDone
  <2>2. helper[h] # Free
    BY <2>1, HelperIs DEF SetupInv, Free
  <2> QED BY <2>2, HelperIs
          DEF SetupInv, SetupTypes, HelpersRight, CreateHelper, HelperCreated, BindInit, BindDone,
              SetupRunDisabled
<1>1. ASSUME NEW r \in HelperType, helper' = [helper EXCEPT ![h] = r], r.owner = e.owner,
             r.conn = e.conn, r.fd = e.fd, HelperRight(r, x),
             e.state = "asked" \/ Live(h),
             \/ r.state = e.state
             \/ e.state \in {"asked", "START"} /\ r.state \in {"START", "FAIL"}
      PROVE  SetupInv'
  <2>1. r # Free /\ helper[h] # Free
    BY <1>0, HelperIs DEF SetupInv
  <2>2. (Waits(r) => Waits(helper[h])) /\ (Keeps(r) <=> Keeps(helper[h]))
    BY <1>1, <2>1 DEF Waits, Keeps
  <2> QED BY <1>0, <1>1, <2>1, <2>2, HelperQuiet
<1>2. CASE CreateHelper(h)
  <2> DEFINE r == [e EXCEPT !.state = "START", !.init = "asked"]
  <2>1. helper' = [helper EXCEPT ![h] = r] /\ e.state = "asked"
    BY <1>0, <1>2 DEF CreateHelper, HelperType
  <2>2. /\ r \in HelperType /\ r.owner = e.owner /\ r.conn = e.conn /\ r.fd = e.fd
        /\ r.state = "START" /\ r.init = "asked" /\ r.done = e.done /\ r.sched = e.sched
    BY <1>0 DEF HelperType
  <2> HIDE DEF r
  <2>3. HelperEnabled(r) = {}
    BY <2>2, HelperEnabledMeans
  <2>4. HelperRight(r, x)
    BY <2>2, <2>3 DEF HelperRight
  <2> QED BY <1>1, <2>1, <2>2, <2>4
<1>3. CASE HelperCreated(h)
  <2> DEFINE r == [e EXCEPT !.done = "asked"]
  <2>1. helper' = [helper EXCEPT ![h] = r] /\ Live(h)
    BY <1>0, <1>3 DEF HelperCreated, HelperType
  <2>2. /\ r \in HelperType /\ r.owner = e.owner /\ r.conn = e.conn /\ r.fd = e.fd
        /\ r.state = e.state /\ r.init = e.init /\ r.done = "asked" /\ r.sched = e.sched
    BY <1>0 DEF HelperType
  <2> HIDE DEF r
  <2>3. e.state # "asked"
    BY <2>1, HelperIs DEF SetupInv
  <2>4. HelperEnabled(r) \subseteq HelperEnabled(e)
    BY <2>2, HelperEnabledMeans
  <2>5. HelperRight(r, x)
    BY <1>0, <2>2, <2>3, <2>4 DEF HelperRight
  <2> QED BY <1>1, <2>1, <2>2, <2>5
<1>4. CASE BindDone(h)
  <2> DEFINE t == e.sched \cup {"done"}
             r == [e EXCEPT !.done = "bound", !.sched = t]
  <2>1. helper' = [helper EXCEPT ![h] = r] /\ Live(h)
    BY <1>0, <1>4 DEF BindDone, HelperType
  <2>2. t \subseteq {"init", "done"}
    BY <1>0 DEF HelperType
  <2>3. e.sched \subseteq t /\ "done" \in t
    OBVIOUS
  <2> HIDE DEF t
  <2>4. /\ r \in HelperType /\ r.owner = e.owner /\ r.conn = e.conn /\ r.fd = e.fd
        /\ r.state = e.state /\ r.init = e.init /\ r.done = "bound" /\ r.sched = t
    BY <1>0, <2>2 DEF HelperType
  <2> HIDE DEF r
  <2>5. e.state # "asked"
    BY <2>1, HelperIs DEF SetupInv
  <2>6. HelperEnabled(r) \subseteq HelperEnabled(e) \cup {"done"}
    BY <2>4, HelperEnabledMeans
  <2>7. HelperRight(r, x)
    BY <1>0, <2>3, <2>4, <2>5, <2>6 DEF HelperRight
  <2> QED BY <1>1, <2>1, <2>4, <2>7
<1>5. CASE BindInit(h)
  <2>1. e.init = "asked" /\ Live(h) /\ e.state = "START"
    BY <1>0, <1>5 DEF BindInit, HelperRight
  <2>2. CASE x # Gone /\ ~Occupied(e.conn, h)
    <3> DEFINE t == e.sched \cup {"init"}
               r == [e EXCEPT !.init = "bound", !.sched = t]
    <3>1. helper' = [helper EXCEPT ![h] = r]
      BY <1>0, <1>5, <2>2 DEF BindInit, HelperType
    <3>2. t \subseteq {"init", "done"}
      BY <1>0 DEF HelperType
    <3>3. e.sched \subseteq t /\ "init" \in t
      OBVIOUS
    <3> HIDE DEF t
    <3>4. /\ r \in HelperType /\ r.owner = e.owner /\ r.conn = e.conn /\ r.fd = e.fd
          /\ r.state = e.state /\ r.init = "bound" /\ r.done = e.done /\ r.sched = t
      BY <1>0, <3>2 DEF HelperType
    <3> HIDE DEF r
    <3>5. HelperEnabled(r) \subseteq HelperEnabled(e) \cup {"init"}
      BY <3>4, HelperEnabledMeans
    <3>6. HelperRight(r, x)
      BY <1>0, <2>1, <2>2, <3>3, <3>4, <3>5 DEF HelperRight
    <3> QED BY <1>1, <2>1, <3>1, <3>4, <3>6
  <2>3. CASE x = Gone \/ Occupied(e.conn, h)
    <3> DEFINE s == [e EXCEPT !.init = "failed", !.state = "FAIL"]
               r == HelperHandler("none", s)
    <3>1. helper' = [helper EXCEPT ![h] = r]
      BY <1>5, <2>3 DEF BindInit
    <3>2. /\ s \in HelperType /\ s.owner = e.owner /\ s.conn = e.conn /\ s.fd = e.fd
          /\ s.state = "FAIL" /\ s.init = "failed"
      BY <1>0 DEF HelperType
    <3> HIDE DEF s
    <3>3. /\ r \in HelperType /\ r.owner = e.owner /\ r.conn = e.conn /\ r.fd = e.fd
          /\ r.state = "FAIL" /\ r.init = "failed" /\ HelperEnabled(r) \subseteq r.sched
      BY <3>2, HelperHandlerMeans
    <3> HIDE DEF r
    <3>4. HelperRight(r, x)
      BY <3>3 DEF HelperRight
    <3> QED BY <1>1, <2>1, <3>1, <3>3, <3>4
  <2> QED BY <2>2, <2>3
<1>6. CASE Live(h) /\ helper' = [helper EXCEPT ![h].sched = @ \cap HelperEnabled(helper[h])]
  <2> DEFINE t == e.sched \cap HelperEnabled(e)
             r == [e EXCEPT !.sched = t]
  <2>1. helper' = [helper EXCEPT ![h] = r] /\ Live(h)
    BY <1>0, <1>6 DEF HelperType
  <2>2. t \subseteq {"init", "done"}
    BY <1>0 DEF HelperType
  <2>3. e.state # "asked"
    BY <2>1, HelperIs DEF SetupInv
  <2>4. HelperEnabled(e) \subseteq t
    BY <1>0, <2>3 DEF HelperRight
  <2> HIDE DEF t
  <2>5. /\ r \in HelperType /\ r.owner = e.owner /\ r.conn = e.conn /\ r.fd = e.fd
        /\ r.state = e.state /\ r.init = e.init /\ r.done = e.done /\ r.sched = t
    BY <1>0, <2>2 DEF HelperType
  <2> HIDE DEF r
  <2>6. HelperEnabled(r) = HelperEnabled(e)
    BY <2>5 DEF HelperEnabled
  <2>7. HelperRight(r, x)
    BY <1>0, <2>3, <2>4, <2>5, <2>6 DEF HelperRight
  <2> QED BY <1>1, <2>1, <2>5, <2>7
<1> QED BY <1>2, <1>3, <1>4, <1>5, <1>6
-----------------------------------------------------------------------------
\* The places of a queue after one more at its end, and without the first.
\* w is q with e at its end; w is q without its first.
Longer(q, e, w) ==
  /\ \A i \in DOMAIN q : i \in DOMAIN w /\ w[i] = q[i]
  /\ \E n \in DOMAIN w : /\ n \notin DOMAIN q /\ w[n] = e
                         /\ \A i \in DOMAIN w : i = n \/ (i \in DOMAIN q /\ w[i] = q[i])

Shorter(q, w) ==
  /\ 1 \in DOMAIN q
  /\ \E at \in [DOMAIN w -> DOMAIN q] :
       /\ \A i \in DOMAIN w : w[i] = q[at[i]] /\ at[i] # 1
       /\ \A i, j \in DOMAIN w : at[i] = at[j] => i = j
       /\ \A j \in DOMAIN q : j = 1 \/ \E i \in DOMAIN w : at[i] = j

LEMMA AppendIs ==
  ASSUME NEW X, NEW q \in Seq(X), NEW e \in X
  PROVE  Append(q, e) \in Seq(X) /\ Longer(q, e, Append(q, e))
<1> DEFINE w == Append(q, e)
<1>1. /\ w \in Seq(X) /\ Len(w) = Len(q) + 1 /\ w[Len(q) + 1] = e
      /\ \A i \in 1..Len(q) : w[i] = q[i]
  BY AppendProperties
<1>2. Len(q) \in Nat /\ DOMAIN q = 1..Len(q) /\ DOMAIN w = 1..(Len(q) + 1)
  BY <1>1
<1> HIDE DEF w
<1>3. /\ Len(q) + 1 \in DOMAIN w /\ Len(q) + 1 \notin DOMAIN q
      /\ \A i \in DOMAIN w : i = Len(q) + 1 \/ (i \in DOMAIN q /\ w[i] = q[i])
  BY <1>1, <1>2
<1>4. Longer(q, e, w)
  BY <1>1, <1>2, <1>3 DEF Longer
<1> QED BY <1>1, <1>4 DEF w

LEMMA TailIs ==
  ASSUME NEW X, NEW q \in Seq(X), q # <<>>
  PROVE  /\ Tail(q) \in Seq(X) /\ Head(q) = q[1] /\ Head(q) \in X /\ 1 \in DOMAIN q
         /\ Shorter(q, Tail(q))
<1> DEFINE w == Tail(q)
<1>1. /\ w \in Seq(X) /\ Head(q) = q[1] /\ Len(q) \in Nat /\ Len(q) > 0 /\ DOMAIN q = 1..Len(q)
      /\ DOMAIN w = 1..(Len(q) - 1) /\ \A i \in 1..(Len(q) - 1) : w[i] = q[i + 1]
  BY HeadTailProperties
<1> HIDE DEF w
<1>2. 1 \in DOMAIN q /\ Head(q) \in X
  BY <1>1
<1> DEFINE at == [i \in DOMAIN w |-> i + 1]
<1>3. at \in [DOMAIN w -> DOMAIN q]
  BY <1>1
<1>4. \A i \in DOMAIN w : w[i] = q[at[i]] /\ at[i] # 1
  BY <1>1
<1>5. \A i, j \in DOMAIN w : at[i] = at[j] => i = j
  BY <1>1
<1>6. ASSUME NEW j \in DOMAIN q, j # 1 PROVE \E i \in DOMAIN w : at[i] = j
  <2>1. j - 1 \in DOMAIN w /\ at[j - 1] = j
    BY <1>1, <1>6
  <2> QED BY <2>1
<1> HIDE DEF at
<1>7. Shorter(q, w)
  BY <1>2, <1>3, <1>4, <1>5, <1>6 DEF Shorter
<1> QED BY <1>1, <1>2, <1>7 DEF w

LEMMA AcceptInputKeeps ==
  ASSUME SetupInv, NEW c \in Conns, AcceptInput(c)
  PROVE  SetupInv'
<1> DEFINE q == acceptor.connectionQueue
           w == Append(q, c)
           r == [acceptor EXCEPT !.connectionQueue = w]
<1>1. /\ acceptor.alive /\ AcceptorHandler("none", r) /\ offers' = Append(offers, c)
      /\ UNCHANGED <<connector, helper, holds, ignored, opened, closes>>
  BY DEF AcceptInput
<1>2. SetupTypes /\ OwnersRight /\ HelpersRight /\ Accepts /\ q \in Seq(Conns) /\ ConnectorQueued(connector)
  BY <1>1 DEF SetupInv, OneCaller, SetupTypes, AcceptorType
<1>3. w \in Seq(Conns) /\ Longer(q, c, w)
  BY <1>2, AppendIs
<1> HIDE DEF w
<1>4. PICK n \in DOMAIN w : /\ n \notin DOMAIN q /\ w[n] = c
                            /\ \A i \in DOMAIN w : i = n \/ (i \in DOMAIN q /\ w[i] = q[i])
  BY <1>3 DEF Longer
<1>5. r \in AcceptorType /\ r.alive /\ r.connectionQueue = w /\ r.fdQueue = acceptor.fdQueue
  BY <1>1, <1>2, <1>3 DEF SetupTypes, AcceptorType
<1> HIDE DEF r
<1>6. /\ acceptor' \in AcceptorType /\ acceptor'.alive /\ acceptor'.connectionQueue = w
      /\ acceptor'.fdQueue = acceptor.fdQueue /\ AcceptorQueued(acceptor')
  BY <1>1, <1>5, AcceptorHandlerMeans
<1> DEFINE off == Offered
           twice == OfferedAgain
<1>7. /\ offers' \in Seq(Conns) /\ c \in Offered' /\ off \subseteq Offered' /\ twice \subseteq OfferedAgain'
      /\ c \in off => c \in OfferedAgain'
  <2>1. offers' \in Seq(Conns) /\ Longer(offers, c, offers')
    BY <1>1, <1>2, AppendIs DEF SetupTypes
  <2>2. PICK m \in DOMAIN offers' : m \notin DOMAIN offers /\ offers'[m] = c
    BY <2>1 DEF Longer
  <2>3. \A i \in DOMAIN offers : i \in DOMAIN offers' /\ offers'[i] = offers[i] /\ i # m
    BY <2>1, <2>2 DEF Longer
  <2>4. c \in Offered' /\ off \subseteq Offered'
    BY <2>2, <2>3 DEF Offered
  <2>5. twice \subseteq OfferedAgain'
    BY <2>3 DEF OfferedAgain
  <2>6. c \in off => c \in OfferedAgain'
    BY <2>2, <2>3 DEF Offered, OfferedAgain
  <2> QED BY <2>1, <2>4, <2>5, <2>6
<1>8. ServedOnce(q, helper, holds, off, twice)
  BY <1>2 DEF Accepts
<1> HIDE DEF off, twice
<1>9. ServedOnce(w, helper, holds, Offered', OfferedAgain')
  <2>1. \A i, j \in DOMAIN w : w[i] = w[j] => i = j \/ w[i] \in OfferedAgain'
    BY <1>4, <1>7, <1>8 DEF ServedOnce
  <2>2. c \in OfferedAgain' \/ holds[c] \notin Fds
    BY <1>7, <1>8 DEF ServedOnce
  <2>3. \A i \in DOMAIN w : w[i] \in Offered' /\ (w[i] \in OfferedAgain' \/ holds[w[i]] \notin Fds)
    BY <1>4, <1>7, <1>8, <2>2 DEF ServedOnce
  <2>4. \A h \in Helpers, i \in DOMAIN w : Waits(helper[h]) /\ helper[h].conn = w[i] => w[i] \in OfferedAgain'
    BY <1>4, <1>7, <1>8 DEF ServedOnce
  <2> QED BY <1>7, <1>8, <2>1, <2>3, <2>4 DEF ServedOnce
<1>10. ignored \subseteq opened /\ (ignored # {} => OfferedAgain' # {})
  BY <1>2, <1>7 DEF Accepts, twice
<1>11. Accepts'
  BY <1>1, <1>2, <1>6, <1>9, <1>10 DEF Accepts
<1>12. SetupTypes' /\ OwnersRight' /\ HelpersRight'
  BY <1>1, <1>2, <1>6, <1>7 DEF SetupTypes, OwnersRight, HelpersRight
<1> QED BY <1>1, <1>2, <1>6, <1>11, <1>12 DEF SetupInv

LEMMA AcceptorReadReadyKeeps ==
  ASSUME SetupInv, NEW ok \in BOOLEAN, AcceptorReadReady(ok)
  PROVE  SetupInv'
<1> DEFINE q == acceptor.fdQueue
           w == IF ok THEN Append(q, NewFd) ELSE q
           r == [acceptor EXCEPT !.state = "SCHEDULE_READ_READY", !.fdQueue = w, !.errno = ~ok]
<1>1. /\ acceptor.alive /\ opened # Fds /\ opened' = IF ok THEN opened \cup {NewFd} ELSE opened
      /\ UNCHANGED <<connector, helper, holds, offers, ignored, closes>>
  BY DEF AcceptorReadReady
<1>2. SetupTypes /\ OwnersRight /\ HelpersRight /\ Accepts /\ q \in Seq(Fds) /\ ConnectorQueued(connector)
  BY <1>1 DEF SetupInv, OneCaller, SetupTypes, AcceptorType
<1>3. AcceptorHandler("none", r)
  BY <1>2 DEF AcceptorReadReady, SetupTypes, AcceptorType
<1>4. NewFd \in Fds /\ NewFd \notin opened
  <2>1. \E fd \in Fds \ opened : TRUE
    BY <1>1, <1>2 DEF SetupTypes
  <2> QED BY <2>1 DEF NewFd
<1>5. ok => w \in Seq(Fds) /\ Longer(q, NewFd, w)
  BY <1>2, <1>4, AppendIs
<1>6. ~ok => w = q
  OBVIOUS
<1> HIDE DEF w
<1>7. /\ r \in AcceptorType /\ r.alive /\ r.connectionQueue = acceptor.connectionQueue
      /\ r.fdQueue = w
  BY <1>1, <1>2, <1>5, <1>6 DEF SetupTypes, AcceptorType
<1> HIDE DEF r
<1>8. /\ acceptor' \in AcceptorType /\ acceptor'.alive /\ acceptor'.fdQueue = w
      /\ acceptor'.connectionQueue = acceptor.connectionQueue /\ AcceptorQueued(acceptor')
  BY <1>3, <1>7, AcceptorHandlerMeans
<1>9. ASSUME NEW fd \in Fds
      PROVE  /\ HeldOnce(w, helper, holds, closes, fd)
             /\ Somewhere(w, helper, holds, closes, fd) => fd \in opened'
             /\ fd \in opened' => (fd \notin ignored <=> Somewhere(w, helper, holds, closes, fd))
  <2>1. /\ HeldOnce(q, helper, holds, closes, fd)
        /\ Somewhere(q, helper, holds, closes, fd) => fd \in opened
        /\ fd \in opened => (fd \notin ignored <=> Somewhere(q, helper, holds, closes, fd))
    BY <1>1, <1>2 DEF Accepts
  <2>2. CASE ~ok
    BY <1>1, <1>6, <2>1, <2>2
  <2>3. CASE ok /\ fd # NewFd
    <3>1. InQueue(w, fd) <=> InQueue(q, fd)
      BY <1>5, <2>3 DEF InQueue, Longer
    <3>2. \A i, j \in DOMAIN w : w[i] = fd /\ w[j] = fd => i = j
      BY <1>5, <2>1, <2>3 DEF HeldOnce, Longer
    <3> QED BY <1>1, <2>1, <2>3, <3>1, <3>2 DEF HeldOnce, Somewhere
  <2>4. CASE ok /\ fd = NewFd
    <3>1. ~InQueue(q, fd) /\ ~WithHelper(helper, fd) /\ ~WithConnection(holds, fd) /\ closes[fd] = 0
      BY <1>4, <2>1, <2>4 DEF Somewhere, HeldOnce
    <3>2. \A i, j \in DOMAIN w : w[i] = fd /\ w[j] = fd => i = j
      BY <1>5, <2>4, <3>1 DEF InQueue, Longer
    <3>3. InQueue(w, fd)
      BY <1>5, <2>4 DEF InQueue, Longer
    <3>4. fd \notin ignored
      BY <1>2, <1>4, <2>4 DEF Accepts
    <3> QED BY <1>1, <2>1, <2>4, <3>1, <3>2, <3>3, <3>4 DEF HeldOnce, Somewhere
  <2> QED BY <2>2, <2>3, <2>4
<1>10. Accepts'
  BY <1>1, <1>2, <1>8, <1>9, OffersSame DEF Accepts
<1>11. SetupTypes' /\ OwnersRight' /\ HelpersRight'
  BY <1>1, <1>2, <1>4, <1>8 DEF SetupTypes, OwnersRight, HelpersRight
<1> QED BY <1>1, <1>2, <1>8, <1>10, <1>11 DEF SetupInv

LEMMA AcceptorCreateHelperKeeps ==
  ASSUME SetupInv, AcceptorCreateHelper
  PROVE  SetupInv'
<1> DEFINE q == acceptor.connectionQueue
           f == acceptor.fdQueue
           u == Tail(q)
           w == Tail(f)
           c == Head(q)
           x == Head(f)
           g == NewHelper("acceptor", c, x)
           r == [acceptor EXCEPT !.connectionQueue = u, !.fdQueue = w]
<1>1. /\ "create_helper" \in acceptor.sched \cap AcceptorEnabled(acceptor)
      /\ \E k \in Helpers : helper[k] = Free
      /\ helper' = [helper EXCEPT ![AHelper] = g]
      /\ UNCHANGED <<connector, holds, offers, ignored, opened, closes>>
  BY DEF AcceptorCreateHelper
<1>2. q # <<>> /\ f # <<>>
  BY <1>1, AcceptorEnabledMeans
<1>3. /\ SetupTypes /\ OwnersRight /\ HelpersRight /\ Accepts /\ q \in Seq(Conns) /\ f \in Seq(Fds)
      /\ acceptor.alive /\ ConnectorQueued(connector)
  BY <1>1 DEF SetupInv, OneCaller, SetupTypes, AcceptorType, OwnersRight
<1>4. AcceptorHandler("create_helper", r)
  BY <1>3 DEF AcceptorCreateHelper, SetupTypes, AcceptorType
<1>5. PICK h \in Helpers : h = AHelper /\ helper[h] = Free
  BY <1>1 DEF AHelper
<1>6. u \in Seq(Conns) /\ c = q[1] /\ c \in Conns /\ Shorter(q, u) /\ 1 \in DOMAIN q
  BY <1>2, <1>3, TailIs
<1>7. w \in Seq(Fds) /\ x = f[1] /\ x \in Fds /\ Shorter(f, w) /\ 1 \in DOMAIN f
  BY <1>2, <1>3, TailIs
<1> HIDE DEF u, w, c, x
<1>8. /\ r \in AcceptorType /\ r.alive /\ r.connectionQueue = u /\ r.fdQueue = w
  BY <1>3, <1>6, <1>7 DEF SetupTypes, AcceptorType
<1> HIDE DEF r
<1>9. /\ acceptor' \in AcceptorType /\ acceptor'.alive /\ acceptor'.fdQueue = w
      /\ acceptor'.connectionQueue = u /\ AcceptorQueued(acceptor')
  BY <1>4, <1>8, AcceptorHandlerMeans
<1>10. /\ g \in HelperType /\ g # Free /\ g.owner = "acceptor" /\ g.conn = c /\ g.fd = x
       /\ g.state = "asked" /\ g.init = "unasked" /\ g.done = "unasked"
  <2>1. g \in HelperType
    BY <1>6, <1>7 DEF NewHelper, HelperType
  <2> QED BY <1>3, <2>1, HelperIs DEF NewHelper
<1> HIDE DEF g
<1>11. Waits(g) /\ Keeps(g) /\ HelperRight(g, holds[g.conn])
  BY <1>10 DEF Waits, Keeps, HelperRight
<1>12. \A k \in Helpers : helper'[k] = IF k = h THEN g ELSE helper[k]
  BY <1>1, <1>3, <1>5 DEF SetupTypes
<1>13. ~Waits(helper[h]) /\ ~Keeps(helper[h])
  BY <1>5 DEF Waits, Keeps
<1>14. ServedOnce(u, helper', holds, Offered, OfferedAgain)
  <2>1. ServedOnce(q, helper, holds, Offered, OfferedAgain)
    BY <1>3 DEF Accepts
  <2>2. \A i \in DOMAIN u : \E j \in DOMAIN q : j # 1 /\ u[i] = q[j]
    BY <1>6 DEF Shorter
  <2>3. \A i, j \in DOMAIN u : u[i] = u[j] => i = j \/ u[i] \in OfferedAgain
    BY <1>6, <2>1 DEF ServedOnce, Shorter
  <2>4. c \in Offered /\ (c \in OfferedAgain \/ holds[c] \notin Fds)
    BY <1>6, <2>1 DEF ServedOnce
  <2>5. \A k \in Helpers : Waits(helper[k]) /\ helper[k].conn = c => c \in OfferedAgain
    BY <1>6, <2>1 DEF ServedOnce
  <2>6. \A i \in DOMAIN u : u[i] = c => c \in OfferedAgain
    BY <1>6, <2>1, <2>2 DEF ServedOnce
  <2>7. \A k, l \in Helpers : Waits(helper'[k]) /\ Waits(helper'[l]) /\ helper'[k].conn = helper'[l].conn
          => k = l \/ helper'[k].conn \in OfferedAgain
    BY <1>10, <1>12, <2>1, <2>5 DEF ServedOnce
  <2>8. \A k \in Helpers, i \in DOMAIN u : Waits(helper'[k]) /\ helper'[k].conn = u[i] => u[i] \in OfferedAgain
    BY <1>10, <1>12, <2>1, <2>2, <2>6 DEF ServedOnce
  <2>9. \A k \in Helpers : Waits(helper'[k])
          => /\ helper'[k].conn \in Offered
             /\ (helper'[k].conn \in OfferedAgain \/ holds[helper'[k].conn] \notin Fds)
    BY <1>10, <1>12, <2>1, <2>4 DEF ServedOnce
  <2>10. \A i \in DOMAIN u : u[i] \in Offered /\ (u[i] \in OfferedAgain \/ holds[u[i]] \notin Fds)
    BY <2>1, <2>2 DEF ServedOnce
  <2> QED BY <2>1, <2>3, <2>7, <2>8, <2>9, <2>10 DEF ServedOnce
<1>15. ASSUME NEW fd \in Fds
       PROVE  /\ HeldOnce(w, helper', holds, closes, fd)
              /\ Somewhere(w, helper', holds, closes, fd) <=> Somewhere(f, helper, holds, closes, fd)
  <2>1. HeldOnce(f, helper, holds, closes, fd)
    BY <1>3 DEF Accepts
  <2>2. \A i, j \in DOMAIN w : w[i] = fd /\ w[j] = fd => i = j
    BY <1>7, <2>1 DEF HeldOnce, Shorter
  <2>3. CASE fd # x
    <3>1. InQueue(w, fd) <=> InQueue(f, fd)
      BY <1>7, <2>3 DEF InQueue, Shorter
    <3>2. WithHelper(helper', fd) <=> WithHelper(helper, fd)
      BY <1>10, <1>12, <1>13, <2>3 DEF WithHelper
    <3>3. \A k, l \in Helpers :
            Keeps(helper'[k]) /\ Keeps(helper'[l]) /\ helper'[k].fd = fd /\ helper'[l].fd = fd => k = l
      BY <1>10, <1>12, <2>1, <2>3 DEF HeldOnce
    <3> QED BY <2>1, <2>2, <3>1, <3>2, <3>3 DEF HeldOnce, Somewhere
  <2>4. CASE fd = x
    <3>1. InQueue(f, fd)
      BY <1>7, <2>4 DEF InQueue
    <3>2. ~WithHelper(helper, fd) /\ ~WithConnection(holds, fd) /\ closes[fd] = 0
      BY <2>1, <3>1 DEF HeldOnce
    <3>3. ~InQueue(w, fd)
      BY <1>7, <2>1, <2>4 DEF InQueue, HeldOnce, Shorter
    <3>4. WithHelper(helper', fd)
      BY <1>10, <1>11, <1>12, <2>4 DEF WithHelper
    <3>5. \A k, l \in Helpers :
            Keeps(helper'[k]) /\ Keeps(helper'[l]) /\ helper'[k].fd = fd /\ helper'[l].fd = fd => k = l
      BY <1>12, <3>2 DEF WithHelper
    <3> QED BY <2>1, <2>2, <3>1, <3>2, <3>3, <3>4, <3>5 DEF HeldOnce, Somewhere
  <2> QED BY <2>3, <2>4
<1>16. Accepts'
  BY <1>1, <1>3, <1>9, <1>14, <1>15, OffersSame DEF Accepts
<1>17. SetupTypes'
  BY <1>1, <1>3, <1>9, <1>10 DEF SetupTypes
<1>18. OwnersRight'
  BY <1>1, <1>3, <1>9, <1>10, <1>12 DEF OwnersRight
<1>19. HelpersRight'
  BY <1>1, <1>3, <1>11, <1>12 DEF HelpersRight
<1> QED BY <1>1, <1>3, <1>9, <1>16, <1>17, <1>18, <1>19 DEF SetupInv

\* With the connector there is no acceptor.
LEMMA CallerSteps ==
  ASSUME SetupInv,
         \/ \E ok \in BOOLEAN : ConnectorWriteReady(ok)
         \/ \E h \in Helpers : ConnectorDone(h)
         \/ DestroyConnector
  PROVE  SetupInv'
<1>1. SetupTypes /\ OwnersRight /\ HelpersRight /\ AcceptorQueued(acceptor)
  BY DEF SetupInv
<1>2. connector.alive /\ OneCaller
  <2>1. connector.alive
    <3>1. ASSUME NEW h \in Helpers, ConnectorDone(h) PROVE connector.alive
      <4>1. helper[h] # Free /\ helper[h].owner = "connector"
        BY <1>1, <3>1, HelperIs DEF ConnectorDone, Done
      <4> QED BY <1>1, <4>1 DEF OwnersRight
    <3> QED BY <3>1 DEF ConnectorWriteReady, DestroyConnector
  <2> QED BY <2>1 DEF SetupInv, Accepts
<1>3. UNCHANGED <<acceptor, holds, offers, ignored, opened>>
  BY DEF ConnectorWriteReady, ConnectorDone, DestroyConnector
<1>4. \A fds : [fd \in Fds |-> IF fd \in fds THEN closes[fd] + 1 ELSE closes[fd]] \in [Fds -> Nat]
  BY <1>1 DEF SetupTypes
<1>5. ASSUME connector' \in ConnectorType, helper' \in [Helpers -> HelperType \cup {Free}],
             closes' \in [Fds -> Nat], OwnersRight', HelpersRight', ConnectorQueued(connector'),
             connector'.fd = connector.fd,
             connector'.armed => connector.armed /\ UNCHANGED helper
      PROVE  SetupInv'
  <2>1. SetupTypes'
    BY <1>1, <1>3, <1>5 DEF SetupTypes
  <2>2. OneCaller'
    BY <1>2, <1>3, <1>5 DEF OneCaller
  <2> QED BY <1>1, <1>3, <1>5, <2>1, <2>2 DEF SetupInv
<1>6. ASSUME NEW ok \in BOOLEAN, ConnectorWriteReady(ok) PROVE SetupInv'
  <2> DEFINE r == [connector EXCEPT !.armed = FALSE, !.errno = ~ok]
             g == NewHelper("connector", Called, connector.fd)
  <2>1. /\ ConnectorHandler("none", r) /\ UNCHANGED closes /\ connector.armed
        /\ helper' = IF ok THEN [helper EXCEPT ![AHelper] = g] ELSE helper
    BY <1>6 DEF ConnectorWriteReady
  <2>2. connector.fd \in Fds /\ \A h \in Helpers : helper[h] = Free
    BY <1>2, <2>1 DEF OneCaller
  <2>3. r \in ConnectorType /\ r.alive /\ r.fd = connector.fd /\ ~r.armed
    BY <1>1, <1>2 DEF SetupTypes, ConnectorType
  <2> HIDE DEF r
  <2>4. /\ connector' \in ConnectorType /\ ConnectorQueued(connector') /\ connector'.alive
        /\ ~connector'.armed /\ connector'.fd = connector.fd
    BY <2>1, <2>3, ConnectorHandlerMeans
  <2>5. /\ g \in HelperType /\ g.owner = "connector" /\ g.state = "asked" /\ g.init = "unasked"
        /\ g.done = "unasked"
    BY <2>2, SetupAssumption DEF NewHelper, HelperType
  <2> HIDE DEF g
  <2>6. PICK k \in Helpers : k = AHelper
    BY <2>2, SetupAssumption DEF AHelper
  <2>7. \A h \in Helpers : helper'[h] = Free \/ helper'[h] = g
    BY <1>1, <2>1, <2>2, <2>6 DEF SetupTypes
  <2>8. helper' \in [Helpers -> HelperType \cup {Free}]
    BY <1>1, <2>1, <2>5 DEF SetupTypes
  <2>9. OwnersRight'
    BY <1>1, <1>3, <2>4, <2>5, <2>7 DEF OwnersRight
  <2>10. HelpersRight'
    BY <2>5, <2>7 DEF HelpersRight, HelperRight
  <2> QED BY <1>1, <1>5, <2>1, <2>4, <2>8, <2>9, <2>10 DEF SetupTypes
<1>7. ASSUME NEW h \in Helpers, ConnectorDone(h) PROVE SetupInv'
  <2> DEFINE s == [helper[h] EXCEPT !.state = "STOP"]
             r == HelperHandler("done", s)
  <2>1. /\ helper[h] \in HelperType /\ helper \in [Helpers -> HelperType \cup {Free}]
        /\ helper[h] # Free /\ HelperRight(helper[h], holds[helper[h].conn])
    BY <1>1, <1>7, HelperIs DEF ConnectorDone, Done, SetupTypes, HelpersRight
  <2>2. /\ ConnectorHandler("none", connector) /\ Close(Returned(helper[h]))
        /\ helper' = [helper EXCEPT ![h] = r] /\ helper[h].state \in {"SUCCESS", "FAIL"}
    BY <1>7, <2>1, HelperEnabledMeans DEF ConnectorDone, Done
  <2>3. closes' \in [Fds -> Nat]
    BY <1>4, <2>2 DEF Close
  <2>4. /\ connector' \in ConnectorType /\ ConnectorQueued(connector')
        /\ connector'.alive = connector.alive
        /\ connector'.armed = connector.armed /\ connector'.fd = connector.fd
    BY <1>1, <2>2, ConnectorHandlerMeans DEF SetupTypes
  <2>5. /\ s \in HelperType /\ s.state = "STOP" /\ s.owner = helper[h].owner
        /\ s.conn = helper[h].conn /\ s.init = helper[h].init
    BY <2>1 DEF HelperType
  <2> HIDE DEF s
  <2>6. /\ r \in HelperType /\ r.state = "STOP" /\ r.owner = helper[h].owner
        /\ r.conn = helper[h].conn /\ r.init = helper[h].init /\ HelperEnabled(r) \subseteq r.sched
    BY <2>5, HelperHandlerMeans
  <2> HIDE DEF r
  <2>7. \A k \in Helpers : helper'[k] = IF k = h THEN r ELSE helper[k]
    BY <2>1, <2>2
  <2>8. OwnersRight'
    BY <1>1, <1>2, <1>3, <2>1, <2>4, <2>6, <2>7 DEF OwnersRight
  <2>9. HelperRight(r, holds[r.conn])
    BY <2>1, <2>2, <2>6 DEF HelperRight
  <2>10. HelpersRight'
    BY <1>1, <1>3, <2>7, <2>9 DEF HelpersRight
  <2>11. ~connector.armed
    BY <1>2, <2>1 DEF OneCaller
  <2> QED BY <1>5, <2>1, <2>2, <2>3, <2>4, <2>6, <2>8, <2>10, <2>11
<1>8. CASE DestroyConnector
  <2> DEFINE r == [connector EXCEPT !.alive = FALSE, !.sched = {}, !.armed = FALSE]
  <2>1. /\ connector' = r /\ Close({connector.fd}) /\ helper' = WithoutHelpersOf("connector")
    BY <1>8 DEF DestroyConnector
  <2>2. closes' \in [Fds -> Nat]
    BY <1>4, <2>1 DEF Close
  <2>3. r \in ConnectorType /\ ~r.alive /\ r.sched = {} /\ ~r.armed /\ r.fd = connector.fd
    BY <1>1 DEF SetupTypes, ConnectorType
  <2> HIDE DEF r
  <2>4. /\ helper' \in [Helpers -> HelperType \cup {Free}]
        /\ \A k \in Helpers : helper'[k] = helper[k] \/ helper'[k] = Free
        /\ \A k \in Helpers : helper'[k] # Free => helper[k].owner # "connector"
    BY <1>1, <2>1 DEF WithoutHelpersOf, SetupTypes
  <2>5. \A k \in Helpers : helper'[k] = Free
    BY <1>1, <1>2, <2>4 DEF OneCaller, OwnersRight, SetupTypes, HelperType
  <2>6. OwnersRight' /\ HelpersRight' /\ ConnectorQueued(connector')
    BY <1>1, <1>3, <2>1, <2>3, <2>5 DEF OwnersRight, HelpersRight, ConnectorQueued
  <2> QED BY <1>5, <2>1, <2>2, <2>3, <2>4, <2>6
<1> QED BY <1>6, <1>7, <1>8

\* init: the descriptor goes from the helper to its connection, if that has none.
LEMMA HelperInitKeeps ==
  ASSUME SetupInv, NEW h \in Helpers, HelperInit(h)
  PROVE  SetupInv'
<1> DEFINE e == helper[h]
           c == e.conn
           x == e.fd
           s == [e EXCEPT !.state = "SUCCESS"]
           r == HelperHandler("init", s)
           v == IF holds[c] = NoFd THEN x ELSE holds[c]
<1>1. /\ SetupTypes /\ OwnersRight /\ HelpersRight /\ (OneCaller \/ Accepts)
      /\ AcceptorQueued(acceptor) /\ ConnectorQueued(connector)
  BY DEF SetupInv
<1>2. /\ e \in HelperType /\ helper \in [Helpers -> HelperType \cup {Free}]
      /\ e # Free /\ HelperRight(e, holds[c]) /\ holds \in [Conns -> Fds \cup {NoFd, Gone}]
      /\ c \in Conns /\ x \in Fds
  BY <1>1, HelperIs DEF HelperInit, SetupTypes, HelpersRight, HelperType
<1>3. /\ helper' = [helper EXCEPT ![h] = r] /\ e.state = "START" /\ e.init = "bound"
      /\ holds' = [holds EXCEPT ![c] = v]
      /\ ignored' = IF holds[c] = NoFd THEN ignored ELSE ignored \cup {x}
      /\ UNCHANGED <<acceptor, connector, offers, opened, closes>>
  BY <1>2, HelperEnabledMeans DEF HelperInit
<1>4. v \in Fds
  BY <1>2, <1>3 DEF HelperRight
<1>5. NoFd \notin Fds /\ Gone \notin Fds
  BY SetupAssumption DEF NoFd, Gone
<1>6. /\ s \in HelperType /\ s.state = "SUCCESS" /\ s.owner = e.owner /\ s.conn = c /\ s.init = e.init
      /\ s.fd = x
  BY <1>2 DEF HelperType
<1> HIDE DEF s
<1>7. /\ r \in HelperType /\ r.state = "SUCCESS" /\ r.owner = e.owner /\ r.conn = c
      /\ r.init = "bound" /\ HelperEnabled(r) \subseteq r.sched /\ r.fd = x
  BY <1>3, <1>6, HelperHandlerMeans
<1> HIDE DEF r
<1>8. \A k \in Helpers : helper'[k] = IF k = h THEN r ELSE helper[k]
  BY <1>2, <1>3
<1>9. \A d \in Conns : holds'[d] = IF d = c THEN v ELSE holds[d]
  BY <1>2, <1>3
<1>10. SetupTypes'
  BY <1>1, <1>2, <1>3, <1>4, <1>7 DEF SetupTypes
<1>11. OwnersRight'
  BY <1>1, <1>2, <1>3, <1>7, <1>8 DEF OwnersRight
<1>12. HelpersRight'
  <2>1. ASSUME NEW k \in Helpers, helper'[k] # Free
        PROVE  HelperRight(helper'[k], holds'[helper'[k].conn])
    <3>1. CASE k = h
      BY <1>2, <1>4, <1>5, <1>7, <1>8, <1>9, <3>1 DEF HelperRight
    <3>2. CASE k # h
      <4>1. helper'[k] = helper[k] /\ helper[k] # Free /\ HelperRight(helper[k], holds[helper[k].conn])
        BY <1>1, <1>8, <2>1, <3>2 DEF HelpersRight
      <4>2. helper[k].conn \in Conns
        BY <1>1, <4>1, HelperIs DEF HelperType
      <4>3. holds'[helper[k].conn] = Gone => holds[helper[k].conn] = Gone
        BY <1>4, <1>5, <1>9, <4>2
      <4> QED BY <4>1, <4>3 DEF HelperRight
    <3> QED BY <3>1, <3>2
  <2> QED BY <2>1 DEF HelpersRight
<1>13. OneCaller => OneCaller'
  BY <1>2, <1>3 DEF OneCaller
<1>14. ASSUME Accepts PROVE Accepts'
  <2> DEFINE q == acceptor.connectionQueue
             f == acceptor.fdQueue
             twice == OfferedAgain
  <2>1. ServedOnce(q, helper, holds, Offered, twice) /\ ignored \subseteq opened
    BY <1>14 DEF Accepts
  <2>2. /\ Waits(e) /\ Keeps(e) /\ ~Waits(r) /\ ~Keeps(r)
    BY <1>2, <1>3, <1>7 DEF Waits, Keeps
  <2>3. c \in Offered /\ (c \in twice \/ holds[c] = NoFd)
    <3>1. holds[c] \in Fds \/ holds[c] = NoFd
      BY <1>2, <1>3 DEF HelperRight
    <3> QED BY <2>1, <2>2, <3>1 DEF ServedOnce
  <2>4. (holds[c] = NoFd => v = x) /\ (holds[c] # NoFd => v = holds[c] /\ holds' = holds)
    BY <1>2, <1>3
  <2>5. ServedOnce(q, helper', holds', Offered, twice)
    <3>0. \A k \in Helpers : Waits(helper'[k]) => k # h /\ Waits(helper[k]) /\ helper'[k] = helper[k]
                                                /\ helper[k].conn \in Conns
      <4>1. \A k \in Helpers : Waits(helper'[k]) => k # h /\ Waits(helper[k]) /\ helper'[k] = helper[k]
        BY <1>8, <2>2
      <4>2. \A k \in Helpers : Waits(helper[k]) => helper[k] \in HelperType
        BY <1>2 DEF Waits
      <4> QED BY <4>1, <4>2 DEF HelperType
    <3>1. \A k, l \in Helpers : Waits(helper'[k]) /\ Waits(helper'[l]) /\ helper'[k].conn = helper'[l].conn
            => k = l \/ helper'[k].conn \in twice
      BY <2>1, <3>0 DEF ServedOnce
    <3>2. \A k \in Helpers, i \in DOMAIN q : Waits(helper'[k]) /\ helper'[k].conn = q[i] => q[i] \in twice
      BY <2>1, <3>0 DEF ServedOnce
    <3>3. \A k \in Helpers : Waits(helper'[k]) => helper'[k].conn # c \/ c \in twice
      BY <2>1, <2>2, <3>0 DEF ServedOnce
    <3>5. \A k \in Helpers : Waits(helper'[k])
            => /\ helper'[k].conn \in Offered
               /\ (helper'[k].conn \in twice \/ holds'[helper'[k].conn] \notin Fds)
      BY <1>9, <2>1, <3>0, <3>3 DEF ServedOnce
    <3>6. \A i \in DOMAIN q : (q[i] # c \/ c \in twice) /\ q[i] \in Conns
      <4>1. q \in Seq(Conns)
        BY <1>1 DEF SetupTypes, AcceptorType
      <4>2. \A i \in DOMAIN q : q[i] \in Conns
        BY <4>1
      <4> QED BY <2>1, <2>2, <4>2 DEF ServedOnce
    <3>7. \A i \in DOMAIN q : q[i] \in Offered /\ (q[i] \in twice \/ holds'[q[i]] \notin Fds)
      BY <1>9, <2>1, <3>6 DEF ServedOnce
    <3>8. \A d \in Conns : holds'[d] \in Fds => d \in Offered
      BY <1>9, <2>1, <2>3 DEF ServedOnce
    <3> QED BY <2>1, <3>1, <3>2, <3>5, <3>7, <3>8 DEF ServedOnce
  <2>6. ASSUME NEW fd \in Fds
        PROVE  /\ HeldOnce(f, helper', holds', closes, fd)
               /\ fd # x => (Somewhere(f, helper', holds', closes, fd) <=> Somewhere(f, helper, holds, closes, fd))
               /\ fd = x => /\ Somewhere(f, helper, holds, closes, fd)
                            /\ Somewhere(f, helper', holds', closes, fd) <=> holds[c] = NoFd
    <3>1. HeldOnce(f, helper, holds, closes, fd)
      BY <1>14 DEF Accepts
    <3>2. CASE fd # x
      <4>1. WithHelper(helper', fd) <=> WithHelper(helper, fd)
        BY <1>2, <1>7, <1>8, <3>2 DEF WithHelper
      <4>2. WithConnection(holds', fd) <=> WithConnection(holds, fd)
        <5>1. CASE holds[c] = NoFd
          BY <1>5, <1>9, <2>4, <3>2, <5>1 DEF WithConnection
        <5>2. CASE holds[c] # NoFd
          BY <2>4, <5>2
        <5> QED BY <5>1, <5>2
      <4>3. \A k, l \in Helpers :
              Keeps(helper'[k]) /\ Keeps(helper'[l]) /\ helper'[k].fd = fd /\ helper'[l].fd = fd => k = l
        BY <1>8, <2>2, <3>1 DEF HeldOnce
      <4>4. \A d, g \in Conns : holds'[d] = fd /\ holds'[g] = fd => d = g
        <5>1. CASE holds[c] = NoFd
          BY <1>9, <2>4, <3>1, <3>2, <5>1 DEF HeldOnce
        <5>2. CASE holds[c] # NoFd
          BY <2>4, <3>1, <5>2 DEF HeldOnce
        <5> QED BY <5>1, <5>2
      <4> QED BY <3>1, <3>2, <4>1, <4>2, <4>3, <4>4 DEF HeldOnce, Somewhere
    <3>3. CASE fd = x
      <4>1. WithHelper(helper, fd)
        BY <2>2, <3>3 DEF WithHelper
      <4>2. ~InQueue(f, fd) /\ ~WithConnection(holds, fd) /\ closes[fd] = 0
        BY <3>1, <4>1 DEF HeldOnce
      <4>3. ~WithHelper(helper', fd) /\ \A k \in Helpers : ~(Keeps(helper'[k]) /\ helper'[k].fd = fd)
        BY <1>2, <1>8, <2>2, <3>1, <3>3 DEF WithHelper, HeldOnce
      <4>4. WithConnection(holds', fd) <=> holds[c] = NoFd
        <5>1. CASE holds[c] = NoFd
          BY <1>2, <1>9, <2>4, <3>3, <5>1 DEF WithConnection
        <5>2. CASE holds[c] # NoFd
          BY <2>4, <4>2, <5>2
        <5> QED BY <5>1, <5>2
      <4>5. \A d, g \in Conns : holds'[d] = fd /\ holds'[g] = fd => d = g
        <5>1. CASE holds[c] = NoFd
          BY <1>9, <4>2, <5>1 DEF WithConnection
        <5>2. CASE holds[c] # NoFd
          BY <2>4, <3>1, <5>2 DEF HeldOnce
        <5> QED BY <5>1, <5>2
      <4> QED BY <3>1, <3>3, <4>1, <4>2, <4>3, <4>4, <4>5 DEF HeldOnce, Somewhere
    <3> QED BY <3>2, <3>3
  <2>7. ignored' \subseteq opened /\ (ignored' # {} => twice # {})
    <3>1. x \in opened
      BY <1>2, <1>14, <2>6 DEF Accepts
    <3> QED BY <1>3, <1>14, <2>1, <2>3, <3>1 DEF Accepts
  <2>8. ASSUME NEW fd \in Fds
        PROVE  /\ Somewhere(f, helper', holds', closes, fd) => fd \in opened
               /\ acceptor.alive /\ fd \in opened
                    => (fd \notin ignored' <=> Somewhere(f, helper', holds', closes, fd))
    <3>1. /\ Somewhere(f, helper, holds, closes, fd) => fd \in opened
          /\ acceptor.alive /\ fd \in opened
               => (fd \notin ignored <=> Somewhere(f, helper, holds, closes, fd))
      BY <1>14 DEF Accepts
    <3>2. CASE fd # x
      BY <1>3, <2>6, <3>1, <3>2
    <3>3. CASE fd = x
      BY <1>3, <2>6, <3>1, <3>3
    <3> QED BY <3>2, <3>3
  <2>9. Offered' = Offered /\ OfferedAgain' = twice
    BY <1>3, OffersSame
  <2>10. /\ ~connector.alive /\ connector.fd = NoFd
    BY <1>14 DEF Accepts
  <2> HIDE DEF q, f, twice
  <2> QED BY <1>3, <2>5, <2>6, <2>7, <2>8, <2>9, <2>10 DEF Accepts, q, f
<1> QED BY <1>1, <1>3, <1>10, <1>11, <1>12, <1>13, <1>14 DEF SetupInv

\* done: the acceptor takes the descriptor back that a helper could not hand over.
LEMMA AcceptorDoneKeeps ==
  ASSUME SetupInv, NEW h \in Helpers, AcceptorDone(h)
  PROVE  SetupInv'
<1> DEFINE e == helper[h]
           x == e.fd
           f == acceptor.fdQueue
           w == IF Returned(e) # {} THEN Append(f, x) ELSE f
           r == [acceptor EXCEPT !.fdQueue = w]
<1>1. /\ SetupTypes /\ OwnersRight /\ HelpersRight /\ ConnectorQueued(connector)
  BY DEF SetupInv
<1>2. /\ e \in HelperType /\ e # Free /\ e.owner = "acceptor" /\ e.state \in {"SUCCESS", "FAIL"}
      /\ helper' = [helper EXCEPT ![h] = Free]
      /\ UNCHANGED <<connector, holds, offers, ignored, opened, closes>>
  BY <1>1, HelperIs, HelperEnabledMeans DEF AcceptorDone, Done
<1>3. acceptor.alive /\ Accepts /\ f \in Seq(Fds) /\ x \in Fds
  <2>1. acceptor.alive
    BY <1>1, <1>2 DEF OwnersRight
  <2> QED BY <1>1, <1>2, <2>1 DEF SetupInv, OneCaller, SetupTypes, AcceptorType, HelperType
<1>4. AcceptorHandler("none", r)
  BY <1>1 DEF AcceptorDone, SetupTypes, AcceptorType
<1>5. e.state = "FAIL" => w \in Seq(Fds) /\ Longer(f, x, w)
  BY <1>3, AppendIs DEF Returned
<1>6. e.state = "SUCCESS" => w = f
  BY DEF Returned
<1> HIDE DEF w
<1>7. /\ r \in AcceptorType /\ r.alive /\ r.connectionQueue = acceptor.connectionQueue
      /\ r.fdQueue = w
  BY <1>1, <1>2, <1>3, <1>5, <1>6 DEF SetupTypes, AcceptorType
<1> HIDE DEF r
<1>8. /\ acceptor' \in AcceptorType /\ acceptor'.alive /\ acceptor'.fdQueue = w
      /\ acceptor'.connectionQueue = acceptor.connectionQueue /\ AcceptorQueued(acceptor')
  BY <1>4, <1>7, AcceptorHandlerMeans
<1>9. \A k \in Helpers : helper'[k] = IF k = h THEN Free ELSE helper[k]
  BY <1>1, <1>2 DEF SetupTypes
<1>10. ~Waits(e) /\ ~Waits(Free) /\ ~Keeps(Free) /\ (Keeps(e) <=> e.state = "FAIL")
  BY <1>2 DEF Waits, Keeps
<1>11. ServedOnce(acceptor.connectionQueue, helper', holds, Offered, OfferedAgain)
  <2>1. ServedOnce(acceptor.connectionQueue, helper, holds, Offered, OfferedAgain)
    BY <1>3 DEF Accepts
  <2>2. \A k \in Helpers : Waits(helper'[k]) => helper'[k] = helper[k] /\ Waits(helper[k])
    BY <1>9, <1>10
  <2> QED BY <2>1, <2>2 DEF ServedOnce
<1>12. ASSUME NEW fd \in Fds
       PROVE  /\ HeldOnce(w, helper', holds, closes, fd)
              /\ Somewhere(w, helper', holds, closes, fd) <=> Somewhere(f, helper, holds, closes, fd)
  <2>1. HeldOnce(f, helper, holds, closes, fd)
    BY <1>3 DEF Accepts
  <2>2. \A k \in Helpers : Keeps(helper'[k]) => k # h /\ helper'[k] = helper[k] /\ Keeps(helper[k])
    BY <1>9, <1>10
  <2>3. \A k, l \in Helpers :
          Keeps(helper'[k]) /\ Keeps(helper'[l]) /\ helper'[k].fd = fd /\ helper'[l].fd = fd => k = l
    BY <2>1, <2>2 DEF HeldOnce
  <2>4. CASE e.state = "SUCCESS" \/ fd # x
    <3>1. InQueue(w, fd) <=> InQueue(f, fd)
      BY <1>2, <1>5, <1>6, <2>4 DEF InQueue, Longer
    <3>2. WithHelper(helper', fd) <=> WithHelper(helper, fd)
      BY <1>9, <1>10, <2>2, <2>4 DEF WithHelper
    <3>3. \A i, j \in DOMAIN w : w[i] = fd /\ w[j] = fd => i = j
      BY <1>2, <1>5, <1>6, <2>1, <2>4 DEF HeldOnce, Longer
    <3> QED BY <2>1, <2>3, <3>1, <3>2, <3>3 DEF HeldOnce, Somewhere
  <2>5. CASE e.state = "FAIL" /\ fd = x
    <3>1. WithHelper(helper, fd)
      BY <1>10, <2>5 DEF WithHelper
    <3>2. ~InQueue(f, fd) /\ ~WithConnection(holds, fd) /\ closes[fd] = 0
      BY <2>1, <3>1 DEF HeldOnce
    <3>3. ~WithHelper(helper', fd)
      BY <1>10, <2>1, <2>2, <2>5 DEF WithHelper, HeldOnce
    <3>4. InQueue(w, fd)
      BY <1>5, <2>5 DEF InQueue, Longer
    <3>5. \A i, j \in DOMAIN w : w[i] = fd /\ w[j] = fd => i = j
      BY <1>5, <2>5, <3>2 DEF InQueue, Longer
    <3> QED BY <2>1, <2>3, <3>1, <3>2, <3>3, <3>4, <3>5 DEF HeldOnce, Somewhere
  <2> QED BY <1>2, <2>4, <2>5
<1>13. Accepts'
  BY <1>2, <1>3, <1>8, <1>11, <1>12, OffersSame DEF Accepts
<1>14. SetupTypes'
  BY <1>1, <1>2, <1>8 DEF SetupTypes
<1>15. OwnersRight'
  BY <1>1, <1>2, <1>8, <1>9 DEF OwnersRight
<1>16. HelpersRight'
  BY <1>1, <1>2, <1>9 DEF HelpersRight
<1> QED BY <1>1, <1>2, <1>8, <1>13, <1>14, <1>15, <1>16 DEF SetupInv

\* A connection goes: its descriptor is closed, and the helper bound to it unbound.
LEMMA DestroyConnectionKeeps ==
  ASSUME SetupInv, NEW c \in Conns, DestroyConnection(c)
  PROVE  SetupInv'
<1> DEFINE x == holds[c]
<1>1. /\ SetupTypes /\ OwnersRight /\ HelpersRight /\ (OneCaller \/ Accepts)
      /\ AcceptorQueued(acceptor) /\ ConnectorQueued(connector)
  BY DEF SetupInv
<1>2. /\ x # Gone /\ holds' = [holds EXCEPT ![c] = Gone]
      /\ closes' = [fd \in Fds |-> IF fd \in {x} THEN closes[fd] + 1 ELSE closes[fd]]
      /\ UNCHANGED <<acceptor, connector, offers, ignored, opened>>
  BY DEF DestroyConnection, Close
<1>3. \A d \in Conns : holds'[d] = IF d = c THEN Gone ELSE holds[d]
  BY <1>1, <1>2 DEF SetupTypes
<1>4. NoFd \notin Fds /\ Gone \notin Fds
  BY SetupAssumption DEF NoFd, Gone
<1>5. DOMAIN helper' = Helpers /\ helper' = [k \in Helpers |-> helper'[k]]
  BY DEF DestroyConnection
<1>6. ASSUME NEW k \in Helpers
      PROVE  /\ helper[k] = Free => helper'[k] = Free
             /\ helper[k] # Free =>
                  /\ helper'[k] \in HelperType /\ helper'[k] # Free
                  /\ helper'[k].state = helper[k].state /\ helper'[k].owner = helper[k].owner
                  /\ helper'[k].conn = helper[k].conn /\ helper'[k].fd = helper[k].fd
                  /\ HelperRight(helper'[k], holds'[helper[k].conn])
  <2> DEFINE e == helper[k]
             t == e.sched \cup {"init"}
             r == [e EXCEPT !.init = "unbound", !.sched = t]
  <2>1. helper'[k] = IF Live(k) /\ e.conn = c /\ e.init = "bound" THEN r ELSE e
    BY DEF DestroyConnection
  <2>2. CASE e = Free
    BY <1>1, <2>1, <2>2, HelperIs
  <2>3. CASE e # Free
    <3>1. e \in HelperType /\ HelperRight(e, holds[e.conn]) /\ e.conn \in Conns
      BY <1>1, <2>3, HelperIs DEF HelpersRight, HelperType
    <3>2. CASE ~(Live(k) /\ e.conn = c /\ e.init = "bound")
      <4>1. e.init = "bound" => e.conn # c
        BY <1>1, <2>3, <3>1, <3>2, HelperIs DEF HelperRight
      <4> QED BY <1>3, <2>1, <2>3, <3>1, <3>2, <4>1 DEF HelperRight
    <3>3. CASE Live(k) /\ e.conn = c /\ e.init = "bound"
      <4>1. t \subseteq {"init", "done"} /\ e.sched \subseteq t
        BY <3>1 DEF HelperType
      <4> HIDE DEF t
      <4>2. /\ r \in HelperType /\ r.state = e.state /\ r.owner = e.owner /\ r.conn = e.conn
            /\ r.fd = e.fd /\ r.init = "unbound" /\ r.done = e.done /\ r.sched = t
        BY <3>1, <4>1 DEF HelperType
      <4>3. r # Free
        BY <1>1, <4>2, HelperIs
      <4> HIDE DEF r
      <4>4. HelperEnabled(r) \subseteq HelperEnabled(e)
        BY <4>2 DEF HelperEnabled
      <4>5. e.state # "asked"
        BY <1>1, <3>3, HelperIs
      <4>6. HelperRight(r, holds'[e.conn])
        BY <2>3, <3>1, <4>1, <4>2, <4>4, <4>5 DEF HelperRight
      <4>7. helper'[k] = r
        BY <2>1, <3>3
      <4> QED BY <2>3, <4>2, <4>3, <4>6, <4>7
    <3> QED BY <3>2, <3>3
  <2> QED BY <2>2, <2>3
<1>7. SetupTypes'
  <2>1. helper' \in [Helpers -> HelperType \cup {Free}]
    BY <1>5, <1>6
  <2>2. closes' \in [Fds -> Nat]
    BY <1>1, <1>2 DEF SetupTypes
  <2> QED BY <1>1, <1>2, <2>1, <2>2 DEF SetupTypes
<1>8. OwnersRight'
  BY <1>1, <1>2, <1>6 DEF OwnersRight
<1>9. HelpersRight'
  BY <1>6 DEF HelpersRight
<1>10. OneCaller => OneCaller'
  BY <1>2, <1>6 DEF OneCaller
<1>11. ASSUME Accepts PROVE Accepts'
  <2> DEFINE q == acceptor.connectionQueue
             f == acceptor.fdQueue
  <2>1. ServedOnce(q, helper, holds, Offered, OfferedAgain)
    BY <1>11 DEF Accepts
  <2>2. \A k \in Helpers : /\ Waits(helper'[k]) => Waits(helper[k]) /\ helper'[k].conn = helper[k].conn
                           /\ Keeps(helper'[k]) <=> Keeps(helper[k])
                           /\ Keeps(helper[k]) => helper'[k].fd = helper[k].fd
    <3>1. ~Waits(Free) /\ ~Keeps(Free)
      BY DEF Waits, Keeps
    <3> QED BY <1>6, <3>1 DEF Waits, Keeps
  <2>3. \A k \in Helpers : Waits(helper[k]) => helper[k].conn \in Conns
    BY <1>1, HelperIs DEF Waits, HelperType
  <2>4. \A i \in DOMAIN q : q[i] \in Conns
    <3>1. q \in Seq(Conns)
      BY <1>1 DEF SetupTypes, AcceptorType
    <3> QED BY <3>1
  <2>5. \A d \in Conns : holds'[d] \in Fds => holds'[d] = holds[d] /\ d # c
    BY <1>3, <1>4
  <2>6. ServedOnce(q, helper', holds', Offered, OfferedAgain)
    <3>1. \A k, l \in Helpers : Waits(helper'[k]) /\ Waits(helper'[l]) /\ helper'[k].conn = helper'[l].conn
            => k = l \/ helper'[k].conn \in OfferedAgain
      BY <2>1, <2>2 DEF ServedOnce
    <3>2. \A k \in Helpers, i \in DOMAIN q : Waits(helper'[k]) /\ helper'[k].conn = q[i] => q[i] \in OfferedAgain
      BY <2>1, <2>2 DEF ServedOnce
    <3>3. \A k \in Helpers : Waits(helper'[k])
            => /\ helper'[k].conn \in Offered
               /\ (helper'[k].conn \in OfferedAgain \/ holds'[helper'[k].conn] \notin Fds)
      BY <2>1, <2>2, <2>3, <2>5 DEF ServedOnce
    <3>4. \A i \in DOMAIN q : q[i] \in Offered /\ (q[i] \in OfferedAgain \/ holds'[q[i]] \notin Fds)
      BY <2>1, <2>4, <2>5 DEF ServedOnce
    <3>5. \A d \in Conns : holds'[d] \in Fds => d \in Offered
      BY <2>1, <2>5 DEF ServedOnce
    <3> QED BY <2>1, <3>1, <3>2, <3>3, <3>4, <3>5 DEF ServedOnce
  <2>7. ASSUME NEW fd \in Fds
        PROVE  /\ HeldOnce(f, helper', holds', closes', fd)
               /\ Somewhere(f, helper', holds', closes', fd) <=> Somewhere(f, helper, holds, closes, fd)
    <3>1. HeldOnce(f, helper, holds, closes, fd)
      BY <1>11 DEF Accepts
    <3>2. WithHelper(helper', fd) <=> WithHelper(helper, fd)
      BY <2>2 DEF WithHelper
    <3>3. \A k, l \in Helpers :
            Keeps(helper'[k]) /\ Keeps(helper'[l]) /\ helper'[k].fd = fd /\ helper'[l].fd = fd => k = l
      BY <2>2, <3>1 DEF HeldOnce
    <3>4. \A d, g \in Conns : holds'[d] = fd /\ holds'[g] = fd => d = g
      BY <2>5, <3>1 DEF HeldOnce
    <3>5. CASE fd # x
      <4>1. WithConnection(holds', fd) <=> WithConnection(holds, fd)
        BY <1>3, <2>5, <3>5 DEF WithConnection
      <4>2. closes'[fd] = closes[fd]
        BY <1>2, <3>5
      <4> QED BY <3>1, <3>2, <3>3, <3>4, <4>1, <4>2 DEF HeldOnce, Somewhere
    <3>6. CASE fd = x
      <4>1. WithConnection(holds, fd)
        BY <3>6 DEF WithConnection
      <4>2. ~InQueue(f, fd) /\ ~WithHelper(helper, fd) /\ closes[fd] = 0
        BY <3>1, <4>1 DEF HeldOnce
      <4>3. ~WithConnection(holds', fd)
        BY <2>5, <3>1, <3>6 DEF WithConnection, HeldOnce
      <4>4. closes'[fd] = 1
        BY <1>2, <3>6, <4>2
      <4> QED BY <3>1, <3>2, <3>3, <3>4, <4>1, <4>2, <4>3, <4>4 DEF HeldOnce, Somewhere
    <3> QED BY <3>5, <3>6
  <2> HIDE DEF q, f
  <2> QED BY <1>2, <1>11, <2>6, <2>7, OffersSame DEF Accepts, q, f
<1> QED BY <1>1, <1>2, <1>7, <1>8, <1>9, <1>10, <1>11 DEF SetupInv

\* The acceptor goes with its helpers and closes the descriptors that are queued.
LEMMA DestroyAcceptorKeeps ==
  ASSUME SetupInv, DestroyAcceptor
  PROVE  SetupInv'
<1> DEFINE q == acceptor.connectionQueue
           f == acceptor.fdQueue
           r == [acceptor EXCEPT !.alive = FALSE, !.sched = {}, !.fdQueue = <<>>]
<1>1. /\ SetupTypes /\ OwnersRight /\ HelpersRight /\ Accepts /\ ConnectorQueued(connector)
  BY DEF SetupInv, OneCaller, DestroyAcceptor
<1>2. /\ acceptor' = r /\ helper' = WithoutHelpersOf("acceptor")
      /\ closes' = [fd \in Fds |-> IF fd \in ToSet(f) THEN closes[fd] + 1 ELSE closes[fd]]
      /\ UNCHANGED <<connector, holds, offers, ignored, opened>>
  BY DEF DestroyAcceptor, Close
<1>3. r \in AcceptorType /\ ~r.alive /\ r.sched = {} /\ r.fdQueue = <<>> /\ r.connectionQueue = q
  <2>1. acceptor \in AcceptorType /\ <<>> \in Seq(Fds)
    BY <1>1 DEF SetupTypes
  <2>2. r \in AcceptorType
    BY <2>1 DEF AcceptorType
  <2> QED BY <2>1, <2>2 DEF AcceptorType
<1> HIDE DEF r
<1>4. /\ helper' \in [Helpers -> HelperType \cup {Free}]
      /\ \A k \in Helpers : helper'[k] = helper[k] \/ helper'[k] = Free
      /\ \A k \in Helpers : helper'[k] # Free => helper[k].owner # "acceptor"
  BY <1>1, <1>2 DEF WithoutHelpersOf, SetupTypes
<1>5. \A k \in Helpers : helper'[k] = Free
  BY <1>1, <1>4, HelperIs DEF OwnersRight, Accepts, HelperType
<1>6. SetupTypes'
  <2>1. closes' \in [Fds -> Nat]
    BY <1>1, <1>2 DEF SetupTypes
  <2> QED BY <1>1, <1>2, <1>3, <1>4, <2>1 DEF SetupTypes
<1>7. OwnersRight' /\ HelpersRight' /\ AcceptorQueued(acceptor')
  BY <1>1, <1>2, <1>3, <1>5 DEF OwnersRight, HelpersRight, AcceptorQueued
<1>8. ~Waits(Free) /\ ~Keeps(Free)
  BY DEF Waits, Keeps
<1>9. ServedOnce(q, helper', holds, Offered, OfferedAgain)
  <2>1. ServedOnce(q, helper, holds, Offered, OfferedAgain)
    BY <1>1 DEF Accepts
  <2>2. \A k \in Helpers : ~Waits(helper'[k])
    BY <1>5, <1>8
  <2> QED BY <2>1, <2>2 DEF ServedOnce
<1>10. ASSUME NEW fd \in Fds
       PROVE  /\ HeldOnce(<<>>, helper', holds, closes', fd)
              /\ Somewhere(<<>>, helper', holds, closes', fd) => fd \in opened
  <2>1. /\ HeldOnce(f, helper, holds, closes, fd)
        /\ Somewhere(f, helper, holds, closes, fd) => fd \in opened
    BY <1>1 DEF Accepts
  <2>2. ~InQueue(<<>>, fd) /\ \A i, j \in DOMAIN <<>> : i = j
    BY DEF InQueue
  <2>3. ~WithHelper(helper', fd) /\ \A k \in Helpers : ~Keeps(helper'[k])
    BY <1>5, <1>8 DEF WithHelper
  <2>4. fd \in ToSet(f) <=> InQueue(f, fd)
    BY DEF ToSet, InQueue
  <2>5. closes'[fd] = IF InQueue(f, fd) THEN closes[fd] + 1 ELSE closes[fd]
    BY <1>2, <2>4
  <2>6. CASE InQueue(f, fd)
    <3>1. ~WithConnection(holds, fd) /\ closes'[fd] = 1 /\ fd \in opened
      BY <2>1, <2>5, <2>6 DEF HeldOnce, Somewhere
    <3> QED BY <2>1, <2>2, <2>3, <3>1 DEF HeldOnce, Somewhere
  <2>7. CASE ~InQueue(f, fd)
    BY <2>1, <2>2, <2>3, <2>5, <2>7 DEF HeldOnce, Somewhere
  <2> QED BY <2>6, <2>7
<1> HIDE DEF q, f
<1>11. Accepts'
  BY <1>1, <1>2, <1>3, <1>9, <1>10, OffersSame DEF Accepts, q
<1> QED BY <1>1, <1>2, <1>6, <1>7, <1>11 DEF SetupInv
-----------------------------------------------------------------------------
LEMMA SetupInitInv == SetupInit => SetupInv
<1> SUFFICES ASSUME SetupInit PROVE SetupInv
  OBVIOUS
<1>1. PICK accepts \in BOOLEAN : AcceptorInit(accepts) /\ ConnectorInit(~accepts)
  BY DEF SetupInit
<1>2. /\ holds = [c \in Conns |-> NoFd] /\ offers = <<>> /\ ignored = {}
      /\ closes = [fd \in Fds |-> 0]
  BY DEF SetupInit
<1>3. NoFd \notin Fds /\ Gone \notin Fds /\ NoFd # Gone
  BY SetupAssumption DEF NoFd, Gone
<1>4. /\ acceptor \in AcceptorType /\ acceptor.alive = accepts /\ acceptor.connectionQueue = <<>>
      /\ acceptor.fdQueue = <<>> /\ acceptor.sched = {} /\ AcceptorEnabled(acceptor) = {}
  <2>1. <<>> \in Seq(Conns) /\ <<>> \in Seq(Fds)
    OBVIOUS
  <2> HIDE DEF SetupInit
  <2>2. PICK ok \in BOOLEAN :
          acceptor = [alive |-> accepts, state |-> "SCHEDULE_READ_READY", errno |-> ~ok,
                      errorReported |-> FALSE, errorBound |-> FALSE,
                      connectionQueue |-> <<>>, fdQueue |-> <<>>, sched |-> {}]
    BY <1>1 DEF AcceptorInit
  <2>3. /\ acceptor.connectionQueue = <<>> /\ acceptor.errorBound = FALSE
        /\ acceptor.alive = accepts /\ acceptor.fdQueue = <<>> /\ acceptor.sched = {}
    BY <2>2
  <2>4. acceptor \in AcceptorType
    BY <2>1, <2>2 DEF AcceptorType
  <2> QED BY <2>3, <2>4, AcceptorEnabledMeans
<1>5. PICK fd \in Fds : fd = CHOOSE x \in Fds : TRUE
  BY SetupAssumption
<1>6. PICK first \in Helpers : first = CHOOSE x \in Helpers : TRUE
  BY SetupAssumption
<1>7. PICK outcome \in {"connected", "in_progress", "no_socket", "refused"} :
        LET socket == ~accepts /\ outcome # "no_socket" IN
        /\ connector = [alive |-> ~accepts, fd |-> IF socket THEN fd ELSE NoFd,
                        errno |-> outcome \in {"no_socket", "refused"},
                        errorReported |-> FALSE, errorBound |-> FALSE,
                        armed |-> ~accepts /\ outcome = "in_progress", sched |-> {}]
        /\ helper = [h \in Helpers |-> IF ~accepts /\ outcome = "connected" /\ h = first
                                       THEN NewHelper("connector", Called, fd) ELSE Free]
        /\ opened = IF socket THEN {fd} ELSE {}
  BY <1>1, <1>5, <1>6 DEF ConnectorInit
<1>8. /\ connector \in ConnectorType /\ connector.alive = ~accepts /\ connector.sched = {}
      /\ connector.errorBound = FALSE
      /\ connector.armed => ~accepts /\ outcome = "in_progress" /\ connector.fd = fd
      /\ connector.fd = IF ~accepts /\ outcome # "no_socket" THEN fd ELSE NoFd
  <2> DEFINE y == IF ~accepts /\ outcome # "no_socket" THEN fd ELSE NoFd
             no == outcome \in {"no_socket", "refused"}
             there == ~accepts
             on == ~accepts /\ outcome = "in_progress"
  <2>1. connector = [alive |-> there, fd |-> y, errno |-> no, errorReported |-> FALSE,
                     errorBound |-> FALSE, armed |-> on, sched |-> {}]
    BY <1>7
  <2>2. y \in Fds \cup {NoFd} /\ no \in BOOLEAN /\ on \in BOOLEAN /\ there \in BOOLEAN
    OBVIOUS
  <2>3. on => y = fd
    OBVIOUS
  <2> HIDE DEF y, no, on, there
  <2>4. connector \in ConnectorType
    BY <2>1, <2>2 DEF ConnectorType
  <2> QED BY <2>1, <2>3, <2>4 DEF y, on, there
<1> DEFINE g == NewHelper("connector", Called, fd)
<1>9. /\ g \in HelperType /\ g.owner = "connector" /\ g.state = "asked" /\ g.init = "unasked"
      /\ g.done = "unasked"
  BY SetupAssumption DEF NewHelper, HelperType
<1>10. \A h \in Helpers : /\ helper[h] = Free \/ (helper[h] = g /\ ~accepts /\ outcome = "connected")
  BY <1>7
<1>11. SetupTypes
  <2>1. helper \in [Helpers -> HelperType \cup {Free}]
    BY <1>7, <1>9
  <2>2. opened \subseteq Fds
    BY <1>7
  <2> QED BY <1>2, <1>4, <1>8, <2>1, <2>2 DEF SetupTypes
<1> HIDE DEF g
<1>12. OwnersRight
  BY <1>4, <1>8, <1>9, <1>10 DEF OwnersRight
<1>13. HelpersRight
  BY <1>9, <1>10 DEF HelpersRight, HelperRight
<1>14. AcceptorQueued(acceptor) /\ ConnectorQueued(connector)
  BY <1>4, <1>8 DEF AcceptorQueued, ConnectorQueued, ConnectorEnabled
<1>15. CASE ~accepts
  <2>1. OneCaller
    BY <1>4, <1>7, <1>8, <1>10, <1>15 DEF OneCaller
  <2> QED BY <1>11, <1>12, <1>13, <1>14, <2>1 DEF SetupInv
<1>16. CASE accepts
  <2>1. opened = {} /\ \A h \in Helpers : ~Waits(helper[h]) /\ ~Keeps(helper[h])
    BY <1>7, <1>10, <1>16 DEF Waits, Keeps
  <2> DEFINE e == <<>>
  <2>0. /\ \A c \in Conns : holds[c] \notin Fds
        /\ \A i \in DOMAIN e : FALSE
    <3>1. \A c \in Conns : holds[c] \notin Fds
      BY <1>2, <1>3
    <3>2. e \in Seq(Conns) /\ Len(e) = 0
      BY EmptySeq
    <3> HIDE DEF e
    <3>3. DOMAIN e = 1..0
      BY <3>2
    <3> QED BY <3>1, <3>3
  <2> HIDE DEF e
  <2>2. ServedOnce(e, helper, holds, Offered, OfferedAgain)
    BY <2>0, <2>1 DEF ServedOnce
  <2>3. ASSUME NEW d \in Fds
        PROVE  HeldOnce(e, helper, holds, closes, d) /\ ~Somewhere(e, helper, holds, closes, d)
    <3>1. ~InQueue(e, d) /\ ~WithHelper(helper, d) /\ ~WithConnection(holds, d) /\ closes[d] = 0
      BY <1>2, <2>0, <2>1 DEF InQueue, WithHelper, WithConnection
    <3>2. /\ \A i, j \in DOMAIN e : e[i] = d /\ e[j] = d => i = j
          /\ \A a, b \in Conns : holds[a] = d /\ holds[b] = d => a = b
      BY <2>0
    <3>3. HeldOnce(e, helper, holds, closes, d)
      BY <2>1, <3>1, <3>2 DEF HeldOnce
    <3>4. ~Somewhere(e, helper, holds, closes, d)
      <4>1. closes[d] # 1
        BY <3>1
      <4> QED BY <3>1, <4>1, Zenon DEF Somewhere
    <3> QED BY <3>3, <3>4
  <2>4. ignored \subseteq opened /\ ~(ignored # {})
    BY <1>2
  <2>5. Accepts
    <3>1. /\ acceptor.connectionQueue = e /\ acceptor.fdQueue = e /\ ~connector.alive
          /\ connector.fd = NoFd /\ opened = {}
      BY <1>4, <1>7, <1>8, <1>16 DEF e
    <3> QED BY <2>2, <2>3, <2>4, <3>1 DEF Accepts
  <2> QED BY <1>11, <1>12, <1>13, <1>14, <2>5 DEF SetupInv
<1> QED BY <1>15, <1>16

LEMMA SetupNextInv == SetupInv /\ [SetupSteps \/ SetupInputs]_setupVars => SetupInv'
<1> SUFFICES ASSUME SetupInv, [SetupSteps \/ SetupInputs]_setupVars PROVE SetupInv'
  OBVIOUS
<1>1. CASE SetupSteps
  <2>1. CASE SetupRunDisabled
    <3>1. CASE UNCHANGED helper
      BY <2>1, <3>1, SetupOwnersQuiet
    <3>2. CASE ~UNCHANGED helper
      <4>1. PICK h \in Helpers :
              /\ Live(h) /\ UNCHANGED <<acceptor, connector>>
              /\ helper' = [helper EXCEPT ![h].sched = @ \cap HelperEnabled(helper[h])]
        BY <2>1, <3>2 DEF SetupRunDisabled
      <4> QED BY <2>1, <4>1, SetupHelpersQuiet
    <3> QED BY <3>1, <3>2
  <2>2. ASSUME NEW h \in Helpers,
               CreateHelper(h) \/ HelperCreated(h) \/ BindInit(h) \/ BindDone(h)
        PROVE  SetupInv'
    BY <2>2, SetupHelpersQuiet
  <2>3. ASSUME NEW h \in Helpers, HelperInit(h) \/ AcceptorDone(h) \/ ConnectorDone(h)
        PROVE  SetupInv'
    BY <2>3, HelperInitKeeps, AcceptorDoneKeeps, CallerSteps
  <2> QED BY <1>1, <2>1, <2>2, <2>3, SetupOwnersQuiet, AcceptorCreateHelperKeeps DEF SetupSteps
<1>2. CASE SetupInputs
  BY <1>2, SetupOwnersQuiet, DestroyAcceptorKeeps, CallerSteps, AcceptInputKeeps, DestroyConnectionKeeps,
     AcceptorReadReadyKeeps DEF SetupInputs
<1>3. CASE UNCHANGED setupVars
  BY <1>3, OffersSame DEF setupVars, SetupInv, SetupTypes, OwnersRight, HelpersRight, OneCaller, Accepts
<1> QED BY <1>1, <1>2, <1>3

\* A descriptor that is held in one place has one holder.
LEMMA HeldInOnePlace ==
  ASSUME SetupTypes, NEW fd, HeldOnce(acceptor.fdQueue, helper, holds, closes, fd)
  PROVE  /\ Cardinality(Holders(fd)) \in Nat
         /\ Cardinality(Holders(fd)) + closes[fd] \in {0, 1}
         /\ Somewhere(acceptor.fdQueue, helper, holds, closes, fd)
              <=> Cardinality(Holders(fd)) + closes[fd] = 1
<1> DEFINE f == acceptor.fdQueue
           X == {<<"queue", i>> : i \in {j \in DOMAIN f : f[j] = fd}}
           Y == {<<"helper", h>> : h \in {k \in Helpers : Keeps(helper[k]) /\ helper[k].fd = fd}}
           Z == {<<"connection", c>> : c \in {k \in Conns : holds[k] = fd}}
<1>1. Holders(fd) = X \cup Y \cup Z
  BY DEF Holders, Keeps
<1>2. ~InQueue(f, fd) => X = {}
  BY DEF InQueue
<1>3. ~WithHelper(helper, fd) => Y = {}
  BY DEF WithHelper
<1>4. ~WithConnection(holds, fd) => Z = {}
  BY DEF WithConnection
<1>5. InQueue(f, fd) => \E x : X = {x}
  <2>1. ASSUME NEW i \in DOMAIN f, f[i] = fd PROVE X = {<<"queue", i>>}
    BY <2>1 DEF HeldOnce
  <2> QED BY <2>1 DEF InQueue
<1>6. WithHelper(helper, fd) => \E x : Y = {x}
  <2>1. ASSUME NEW h \in Helpers, Keeps(helper[h]), helper[h].fd = fd PROVE Y = {<<"helper", h>>}
    BY <2>1 DEF HeldOnce
  <2> QED BY <2>1 DEF WithHelper
<1>7. WithConnection(holds, fd) => \E x : Z = {x}
  <2>1. ASSUME NEW c \in Conns, holds[c] = fd PROVE Z = {<<"connection", c>>}
    BY <2>1 DEF HeldOnce
  <2> QED BY <2>1 DEF WithConnection
<1> DEFINE U == X \cup Y \cup Z
<1> HIDE DEF X, Y, Z
<1>8. CASE ~InQueue(f, fd) /\ ~WithHelper(helper, fd) /\ ~WithConnection(holds, fd)
  <2>1. U = {}
    BY <1>2, <1>3, <1>4, <1>8
  <2>2. Cardinality(U) = 0
    BY <2>1, FS_EmptySet
  <2> QED BY <1>1, <1>8, <2>2 DEF HeldOnce, Somewhere
<1>9. CASE InQueue(f, fd) \/ WithHelper(helper, fd) \/ WithConnection(holds, fd)
  <2>1. closes[fd] = 0
    BY <1>9 DEF HeldOnce
  <2>2. \E x : U = {x}
    <3>1. CASE InQueue(f, fd)
      <4>1. Y = {} /\ Z = {}
        BY <1>3, <1>4, <3>1 DEF HeldOnce
      <4>2. U = X
        BY <4>1
      <4> QED BY <1>5, <3>1, <4>2
    <3>2. CASE WithHelper(helper, fd)
      <4>1. X = {} /\ Z = {}
        BY <1>2, <1>4, <3>2 DEF HeldOnce
      <4>2. U = Y
        BY <4>1
      <4> QED BY <1>6, <3>2, <4>2
    <3>3. CASE WithConnection(holds, fd)
      <4>1. X = {} /\ Y = {}
        BY <1>2, <1>3, <3>3 DEF HeldOnce
      <4>2. U = Z
        BY <4>1
      <4> QED BY <1>7, <3>3, <4>2
    <3> QED BY <1>9, <3>1, <3>2, <3>3
  <2> HIDE DEF U
  <2>3. Cardinality(U) = 1
    BY <2>2, FS_Singleton
  <2>4. Somewhere(acceptor.fdQueue, helper, holds, closes, fd)
    BY <1>9 DEF Somewhere
  <2> QED BY <1>1, <2>1, <2>3, <2>4 DEF U
<1> QED BY <1>8, <1>9

LEMMA SetupInvMeans == SetupInv => SetupTypeOK /\ SetupEnabledScheduled /\ DescriptorsHeldOnce
<1> SUFFICES ASSUME SetupInv PROVE SetupTypeOK /\ SetupEnabledScheduled /\ DescriptorsHeldOnce
  OBVIOUS
<1>1. SetupTypes
  BY DEF SetupInv
<1>2. SetupTypeOK
  BY <1>1, HelperIs DEF SetupTypes, SetupTypeOK, AcceptorType, ConnectorType, HelperType
<1>3. SetupEnabledScheduled
  <2>1. ASSUME NEW h \in Helpers, Live(h) PROVE HelperEnabled(helper[h]) \subseteq helper[h].sched
    BY <1>1, <2>1, HelperIs DEF SetupInv, HelpersRight, HelperRight
  <2> QED BY <2>1 DEF SetupInv, AcceptorQueued, ConnectorQueued, SetupEnabledScheduled
<1>4. ASSUME NEW fd \in opened \ {connector.fd}
      PROVE  /\ Cardinality(Holders(fd)) + closes[fd] <= 1
             /\ acceptor.alive => (Cardinality(Holders(fd)) + closes[fd] = 0 <=> fd \in ignored)
             /\ fd \in ignored => OfferedAgain # {}
  <2>1. Accepts /\ fd \in Fds /\ fd \in opened
    BY <1>1, <1>4 DEF SetupInv, OneCaller, SetupTypes
  <2> DEFINE there == Somewhere(acceptor.fdQueue, helper, holds, closes, fd)
             n == Cardinality(Holders(fd)) + closes[fd]
  <2>2. /\ HeldOnce(acceptor.fdQueue, helper, holds, closes, fd)
        /\ acceptor.alive => (fd \notin ignored <=> there)
        /\ fd \in ignored => OfferedAgain # {}
    BY <2>1 DEF Accepts
  <2>3. n \in {0, 1} /\ (there <=> n = 1)
    BY <1>1, <2>2, HeldInOnePlace
  <2> HIDE DEF n, there
  <2>4. n <= 1 /\ (acceptor.alive => (n = 0 <=> fd \in ignored)) /\ (fd \in ignored => OfferedAgain # {})
    BY <2>2, <2>3
  <2> QED BY <2>4 DEF n
<1> QED BY <1>2, <1>3, <1>4 DEF DescriptorsHeldOnce

(* However the connections, the acceptor and the connector are created,       *)
(* offered, given to each other and destroyed: a descriptor the acceptor      *)
(* accepted is never in two places; while the acceptor lives it is lost only  *)
(* to a connection that had one, hence only if some connection was offered    *)
(* more than once; and what is enabled in one of the automata is queued.      *)
(* Nothing is said of the connector's descriptor.                             *)
THEOREM DescriptorsGoOnce ==
  SetupSpec => [](SetupTypeOK /\ SetupEnabledScheduled /\ DescriptorsHeldOnce)
BY SetupInitInv, SetupNextInv, SetupInvMeans, PTL DEF SetupSpec
-----------------------------------------------------------------------------
(* The parts beside each other: each moves by its own steps or stays. *)

LEMMA PartsMove ==
  ASSUME PartsSteps \/ PartsInputs
  PROVE  /\ [ManagersSteps \/ ManagersInputs]_managerVars
         /\ [RingSteps \/ RingInputs]_ringVars
         /\ [SenderSteps \/ ReceiverSteps \/ SenderInputs \/ ReceiverInputs]_udpVars
         /\ [SetupSteps \/ SetupInputs]_setupVars
         /\ [ConnSteps \/ ConnInputs]_connVars
         /\ [Next]_setVars
<1>1. CASE PartsSteps
  BY <1>1 DEF PartsSteps, SameIds, StepConnection, StepSetup, StepSender, StepManagers, StepTcpRing, StepRing,
     StepNetwork, SameManagers, SameRing, SameUdp, SameSetup, SameConnection, SameLibrary,
     SameDistributed
<1>2. CASE PartsInputs
  BY <1>2 DEF PartsInputs, SameIds, StepIds, InputConnection, InputSetup, InputUdp, InputManagers, InputTcpRing,
     InputRing, SameManagers, SameRing, SameUdp, SameSetup, SameConnection, SameLibrary, SameDistributed
<1> QED BY <1>1, <1>2

\* So each part behaves as by its own specification, and its theorems hold.
LEMMA PartsBehave ==
  FairPartsSpec => ManagersSpec /\ RingSpec /\ UdpSpec /\ SetupSpec /\ ConnSpec /\ Spec
<1>1. PartsInit => ManagersInit /\ RingInit /\ UdpInit /\ SetupInit /\ ConnInit /\ Init
  BY DEF PartsInit
<1>2. [PartsSteps \/ PartsInputs]_partsVars =>
         /\ [ManagersSteps \/ ManagersInputs]_managerVars
         /\ [RingSteps \/ RingInputs]_ringVars
         /\ [SenderSteps \/ ReceiverSteps \/ SenderInputs \/ ReceiverInputs]_udpVars
         /\ [SetupSteps \/ SetupInputs]_setupVars
         /\ [ConnSteps \/ ConnInputs]_connVars
         /\ [Next]_setVars
  BY PartsMove DEF partsVars
<1> QED BY <1>1, <1>2, PTL DEF FairPartsSpec, ManagersSpec, RingSpec, UdpSpec, SetupSpec,
   ConnSpec, Spec

(* The helpers ask once and observe each other as long as they have to, and *)
(* the automaton that uses them refers to each until it asks for its end.   *)
THEOREM HelpersAlwaysAgree == FairPartsSpec => []HelpersAgree
<1>1. ManagersSpec /\ RingSpec => []HelpersAgree
  BY ObserversNeverDangle, RingRefersRight, PTL DEF HelpersAgree
<1> QED BY <1>1, PartsBehave

(* Whatever is bound, unbound or fails: a user of the UDP sender has at     *)
(* most one message on its way, and so has the ring automaton's successor,  *)
(* or at most two if undefined flags began as if it were connected.         *)
THEOREM MessagesOneAtATime == FairPartsSpec => []OneAtATime
<1>1. UdpSpec /\ RingSpec => []OneAtATime
  BY SenderServesRight, RingRefersRight, PTL DEF OneAtATime
<1> QED BY <1>1, PartsBehave

(* None of these automata forgets an action that is enabled: what its       *)
(* handlers, its bindings and its descriptors make possible is queued.      *)
THEOREM NothingForgotten == FairPartsSpec => []EveryEnabledScheduled
<1>1. ConnSpec /\ SetupSpec /\ UdpSpec /\ RingSpec => []EveryEnabledScheduled
  BY ConnectionNeverForgets, DescriptorsGoOnce, SenderServesRight, RingRefersRight, PTL
     DEF EveryEnabledScheduled
<1> QED BY <1>1, PartsBehave

(* With the parts side by side too, a descriptor the acceptor accepted is in *)
(* one place at most, lost only as DescriptorsHeldOnce says, and bytes       *)
(* arrive in order.  The connector's descriptor is not spoken of.            *)
THEOREM PartsCarryRight == FairPartsSpec => [](DescriptorsHeldOnce /\ StreamIntact)
<1>1. SetupSpec /\ ConnSpec => [](DescriptorsHeldOnce /\ StreamIntact)
  BY DescriptorsGoOnce, BytesInOrder, PTL
<1> QED BY <1>1, PartsBehave
=============================================================================
