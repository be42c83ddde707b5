-------------------------- MODULE EventQueueProofs --------------------------
(***************************************************************************)
(* Lemmas about sequences, and about the events in them.                   *)
(***************************************************************************)
EXTENDS EventQueue, Integers, Sequences, SequencesExt, SequenceTheorems,
        WellFoundedInduction, TLAPS

-----------------------------------------------------------------------------
(* Sequences *)

\* What removing one element leaves behind.
LEMMA RemoveAtProperties ==
    ASSUME NEW S, NEW s \in Seq(S), NEW i \in DOMAIN s
    PROVE  /\ RemoveAt(s, i) \in Seq(S)
           /\ Len(RemoveAt(s, i)) = Len(s) - 1
           /\ \A j \in 1 .. Len(s) - 1 :
                 RemoveAt(s, i)[j] = IF j < i THEN s[j] ELSE s[j + 1]
<1>1. i \in 1 .. Len(s) /\ Len(s) \in Nat
  OBVIOUS
<1>2. SubSeq(s, 1, i - 1) \in Seq(S) /\ Len(SubSeq(s, 1, i - 1)) = i - 1
  BY <1>1, SMT
<1>3. /\ SubSeq(s, i + 1, Len(s)) \in Seq(S)
      /\ Len(SubSeq(s, i + 1, Len(s))) = Len(s) - i
  BY <1>1, SMT
<1>. DEFINE a == SubSeq(s, 1, i - 1)
            b == SubSeq(s, i + 1, Len(s))
<1>4. /\ a \o b \in Seq(S)
      /\ Len(a \o b) = Len(a) + Len(b)
      /\ \A j \in 1 .. Len(a) + Len(b) :
            (a \o b)[j] = IF j <= Len(a) THEN a[j] ELSE b[j - Len(a)]
  BY <1>2, <1>3, ConcatProperties
<1>5. \A j \in 1 .. i - 1 : a[j] = s[j]
  BY <1>1, SMT
<1>6. \A j \in 1 .. Len(s) - i : b[j] = s[j + i]
  BY <1>1, SMT
<1>. HIDE DEF a, b
<1>7. RemoveAt(s, i) = a \o b
  BY DEF RemoveAt, a, b
<1>8. Len(a) = i - 1 /\ Len(b) = Len(s) - i
  BY <1>2, <1>3 DEF a, b
<1>9. ASSUME NEW j \in 1 .. Len(s) - 1
      PROVE  RemoveAt(s, i)[j] = IF j < i THEN s[j] ELSE s[j + 1]
  <2>1. CASE j < i
    <3>1. j \in 1 .. Len(a) + Len(b) /\ j <= Len(a) /\ j \in 1 .. i - 1
      BY <1>1, <1>8, <2>1
    <3>2. (a \o b)[j] = a[j]
      BY ONLY <1>4, <3>1
    <3>3. a[j] = s[j]
      BY ONLY <1>5, <3>1
    <3>. QED
      BY ONLY <1>7, <2>1, <3>2, <3>3
  <2>2. CASE ~(j < i)
    <3>1. /\ j \in 1 .. Len(a) + Len(b)
          /\ ~(j <= Len(a))
          /\ j - Len(a) \in 1 .. Len(s) - i
          /\ j - Len(a) + i = j + 1
      <4>1. /\ j \in 1 .. (i - 1) + (Len(s) - i)
            /\ ~(j <= i - 1)
        BY ONLY <1>1, <2>2
      <4>2. /\ j - (i - 1) \in 1 .. Len(s) - i
            /\ j - (i - 1) + i = j + 1
        BY ONLY <1>1, <2>2
      <4>. QED
        BY ONLY <1>8, <4>1, <4>2
    <3>2. (a \o b)[j] = b[j - Len(a)]
      BY ONLY <1>4, <3>1
    <3>3. b[j - Len(a)] = s[j + 1]
      BY ONLY <1>6, <3>1
    <3>. QED
      BY ONLY <1>7, <2>2, <3>2, <3>3
  <2>. QED
    BY <2>1, <2>2
<1>10. RemoveAt(s, i) \in Seq(S)
  BY <1>4, <1>7
<1>11. Len(RemoveAt(s, i)) = Len(s) - 1
  <2>1. Len(RemoveAt(s, i)) = Len(a) + Len(b)
    BY ONLY <1>4, <1>7
  <2>2. (i - 1) + (Len(s) - i) = Len(s) - 1
    BY <1>1
  <2>. QED
    BY ONLY <1>8, <2>1, <2>2
<1>. QED
  BY <1>9, <1>10, <1>11

\* A set of natural numbers that is not empty has a least element.
LEMMA LeastPosition ==
    ASSUME NEW T \in SUBSET Nat, T # {}
    PROVE  \E k \in T : \A j \in T : k <= j
<1>1. \E k \in T : \A j \in T : <<j, k>> \notin OpToRel(<, Nat)
  BY NatLessThanWellFounded, WFMin
<1>2. PICK k \in T : \A j \in T : <<j, k>> \notin OpToRel(<, Nat)
  BY <1>1
<1>3. ASSUME NEW j \in T PROVE k <= j
  <2>1. j \in Nat /\ k \in Nat
    OBVIOUS
  <2>2. ~(j < k)
    BY <1>2, <2>1, Zenon DEF OpToRel
  <2>. QED
    BY <2>1, <2>2
<1>. QED
  BY <1>3

-----------------------------------------------------------------------------
(* Pending events *)

\* Spawning event x.
LEMMA AppendHas ==
    ASSUME NEW S, NEW ts \in Seq(S), NEW x, NEW t
    PROVE  /\ Has(Append(ts, x), t) <=> Has(ts, t) \/ x = t
           /\ AtMostOnce(ts, t) /\ (x # t \/ ~Has(ts, t))
                 => AtMostOnce(Append(ts, x), t)
<1>. DEFINE a == Append(ts, x)
<1>1. /\ DOMAIN a = 1 .. Len(ts) + 1
      /\ \A k \in 1 .. Len(ts) : a[k] = ts[k]
      /\ a[Len(ts) + 1] = x
      /\ DOMAIN ts = 1 .. Len(ts)
      /\ Len(ts) \in Nat
  OBVIOUS
<1>. HIDE DEF a
<1>2. \A k \in DOMAIN a : k \in DOMAIN ts \/ k = Len(ts) + 1
  BY <1>1
<1>3. DOMAIN ts \subseteq DOMAIN a /\ Len(ts) + 1 \in DOMAIN a
  BY <1>1
<1>4. Has(a, t) <=> Has(ts, t) \/ x = t
  BY <1>1, <1>2, <1>3 DEF Has
<1>5. ASSUME AtMostOnce(ts, t), x # t \/ ~Has(ts, t)
      PROVE  AtMostOnce(a, t)
  BY <1>1, <1>2, <1>5 DEF Has, AtMostOnce
<1>. QED
  BY <1>4, <1>5 DEF a

\* Taking the i-th event.
LEMMA RemoveHas ==
    ASSUME NEW S, NEW ts \in Seq(S), NEW i \in DOMAIN ts, NEW t
    PROVE  /\ Has(RemoveAt(ts, i), t) => Has(ts, t)
           /\ ts[i] # t => (Has(RemoveAt(ts, i), t) <=> Has(ts, t))
           /\ AtMostOnce(ts, t) => AtMostOnce(RemoveAt(ts, i), t)
           /\ AtMostOnce(ts, t) /\ ts[i] = t => ~Has(RemoveAt(ts, i), t)
<1>. DEFINE r == RemoveAt(ts, i)
<1>1. /\ r \in Seq(S)
      /\ Len(r) = Len(ts) - 1
      /\ \A j \in 1 .. Len(ts) - 1 : r[j] = IF j < i THEN ts[j] ELSE ts[j + 1]
  BY RemoveAtProperties
<1>2. i \in 1 .. Len(ts) /\ Len(ts) \in Nat /\ DOMAIN ts = 1 .. Len(ts)
  OBVIOUS
<1>. HIDE DEF r
<1>3. DOMAIN r = 1 .. Len(ts) - 1
  BY <1>1, <1>2
<1>. DEFINE old(j) == IF j < i THEN j ELSE j + 1
            new(k) == IF k < i THEN k ELSE k - 1
<1>4. \A j \in DOMAIN r : old(j) \in DOMAIN ts /\ old(j) # i /\ r[j] = ts[old(j)]
  BY <1>1, <1>2, <1>3
<1>5. \A j, k \in DOMAIN r : old(j) = old(k) => j = k
  BY <1>2, <1>3
<1>6. \A k \in DOMAIN ts : k # i => new(k) \in DOMAIN r /\ old(new(k)) = k
  BY <1>2, <1>3
<1>. HIDE DEF old, new
<1>7. Has(r, t) => Has(ts, t)
  BY <1>4 DEF Has
<1>8. ts[i] # t /\ Has(ts, t) => Has(r, t)
  BY <1>4, <1>6 DEF Has
<1>9. AtMostOnce(ts, t) => AtMostOnce(r, t)
  BY <1>4, <1>5 DEF AtMostOnce
<1>10. AtMostOnce(ts, t) /\ ts[i] = t => ~Has(r, t)
  BY <1>4 DEF AtMostOnce, Has
<1>. QED
  BY <1>7, <1>8, <1>9, <1>10 DEF r

LEMMA HasShort ==
    /\ \A t : ~Has(<<>>, t) /\ AtMostOnce(<<>>, t)
    /\ \A x, t : (Has(<<x>>, t) <=> x = t) /\ AtMostOnce(<<x>>, t)
<1>1. \A t : ~Has(<<>>, t) /\ AtMostOnce(<<>>, t)
  BY DEF Has, AtMostOnce
<1>2. ASSUME NEW x, NEW t
      PROVE  (Has(<<x>>, t) <=> x = t) /\ AtMostOnce(<<x>>, t)
  <2>1. DOMAIN <<x>> = {1} /\ <<x>>[1] = x
    OBVIOUS
  <2>. QED
    BY <2>1 DEF Has, AtMostOnce
<1>. QED
  BY <1>1, <1>2

=============================================================================
