---------------------------- MODULE QueueProofs -----------------------------
(* What Append and WithoutAt do to the elements of a queue.                *)
EXTENDS Queues, SequenceTheorems, TLAPS

\* Append adds its element to a queue and nothing else.
LEMMA AppendElements ==
  ASSUME NEW S, NEW q \in Seq(S), NEW e \in S
  PROVE  Append(q, e) \in Seq(S) /\ Elements(Append(q, e)) = Elements(q) \cup {e}
<1>1. /\ Append(q, e) \in Seq(S)
      /\ Len(Append(q, e)) = Len(q) + 1
      /\ \A i \in 1 .. Len(q) : Append(q, e)[i] = q[i]
      /\ Append(q, e)[Len(q) + 1] = e
  BY AppendProperties
<1>2. DOMAIN q = 1 .. Len(q) /\ DOMAIN Append(q, e) = 1 .. Len(q) + 1 /\ Len(q) \in Nat
  BY <1>1, LenProperties
<1> QED BY <1>1, <1>2 DEF Elements

\* The element that Append adds is the last, and the others keep their places.
LEMMA AppendLast ==
  ASSUME NEW S, NEW q \in Seq(S), NEW e \in S
  PROVE  /\ Append(q, e) # <<>>
         /\ Len(Append(q, e)) = Len(q) + 1
         /\ DOMAIN Append(q, e) = 1 .. Len(q) + 1
         /\ \A i \in 1 .. Len(q) : Append(q, e)[i] = q[i]
         /\ Append(q, e)[Len(q) + 1] = e
<1>1. /\ Append(q, e) \in Seq(S) \ {<<>>}
      /\ Len(Append(q, e)) = Len(q) + 1
      /\ \A i \in 1 .. Len(q) : Append(q, e)[i] = q[i]
      /\ Append(q, e)[Len(q) + 1] = e
  BY AppendProperties
<1>2. DOMAIN Append(q, e) = 1 .. Len(q) + 1
  BY <1>1, LenProperties
<1> QED BY <1>1, <1>2

\* pop() leaves the back of a queue alone, unless it was the front too.
LEMMA TailLast ==
  ASSUME NEW S, NEW q \in Seq(S), q # <<>>
  PROVE  /\ Tail(q) \in Seq(S)
         /\ Len(q) \in Nat /\ Len(q) > 0
         /\ Len(Tail(q)) = Len(q) - 1
         /\ Len(q) = 1 <=> Tail(q) = <<>>
         /\ Len(q) > 1 => Tail(q)[Len(Tail(q))] = q[Len(q)]
<1>1. /\ Tail(q) \in Seq(S) /\ Len(Tail(q)) = Len(q) - 1
      /\ \A i \in 1 .. Len(Tail(q)) : Tail(q)[i] = q[i + 1]
  BY HeadTailProperties
<1>2. Len(q) \in Nat /\ Len(q) > 0
  BY EmptySeq, LenProperties
<1>3. Tail(q) = <<>> <=> Len(Tail(q)) = 0
  BY <1>1, EmptySeq
<1>4. ASSUME Len(q) > 1 PROVE Tail(q)[Len(Tail(q))] = q[Len(q)]
  <2>1. Len(Tail(q)) \in 1 .. Len(Tail(q)) /\ Len(Tail(q)) + 1 = Len(q)
    BY <1>1, <1>2, <1>4
  <2>2. Tail(q)[Len(Tail(q))] = q[Len(Tail(q)) + 1]
    BY <1>1, <2>1
  <2> QED BY <2>1, <2>2
<1> QED BY <1>1, <1>2, <1>3, <1>4

\* Erasing one element of syncPackets keeps all the others.
LEMMA WithoutAtElements ==
  ASSUME NEW S, NEW q \in Seq(S), NEW i \in 1 .. Len(q)
  PROVE  /\ WithoutAt(q, i) \in Seq(S)
         /\ Elements(q) \subseteq Elements(WithoutAt(q, i)) \cup {q[i]}
<1> DEFINE before == SubSeq(q, 1, i - 1)
           after  == SubSeq(q, i + 1, Len(q))
<1>1. Len(q) \in Nat /\ DOMAIN q = 1 .. Len(q) /\ \A k \in 1 .. Len(q) : q[k] \in S
  BY LenProperties, ElementOfSeq
<1>2. /\ before \in Seq(S)
      /\ Len(before) = i - 1
      /\ \A k \in 1 .. i - 1 : before[k] = q[k]
  BY <1>1, SubSeqProperties
<1>3. /\ after \in Seq(S)
      /\ Len(after) = Len(q) - i
      /\ \A k \in i + 1 .. Len(q) : after[k - i] = q[k]
  <2>1. \A k \in i + 1 .. Len(q) : q[k] \in S
    BY <1>1
  <2>2. /\ after \in Seq(S)
        /\ Len(after) = IF i + 1 <= Len(q) THEN Len(q) - (i + 1) + 1 ELSE 0
        /\ \A k \in 1 .. Len(q) - (i + 1) + 1 : after[k] = q[(i + 1) + k - 1]
    BY <1>1, <2>1, SubSeqProperties
  <2> HIDE DEF after
  <2>3. ASSUME NEW k \in i + 1 .. Len(q) PROVE after[k - i] = q[k]
    <3>1. k - i \in 1 .. Len(q) - (i + 1) + 1 /\ (i + 1) + (k - i) - 1 = k
      BY <1>1
    <3>2. after[k - i] = q[(i + 1) + (k - i) - 1]
      BY <2>2, <3>1
    <3> QED BY <3>1, <3>2
  <2>4. Len(after) = Len(q) - i
    <3>1. Len(q) \in Nat /\ i \in 1 .. Len(q)
      BY <1>1
    <3>2. CASE i + 1 <= Len(q)
      <4>1. Len(after) = Len(q) - (i + 1) + 1
        BY <2>2, <3>2
      <4> QED BY <3>1, <4>1
    <3>3. CASE ~(i + 1 <= Len(q))
      <4>1. Len(after) = 0
        BY <2>2, <3>3
      <4>2. Len(q) = i
        BY <3>1, <3>3
      <4> QED BY <3>1, <4>1, <4>2
    <3> QED BY <3>2, <3>3
  <2> QED BY <2>2, <2>3, <2>4
<1> HIDE DEF before, after
<1>4. /\ before \o after \in Seq(S)
      /\ DOMAIN (before \o after) = 1 .. Len(q) - 1
      /\ \A k \in 1 .. i - 1 : (before \o after)[k] = before[k]
      /\ \A k \in i + 1 .. Len(q) : (before \o after)[k - 1] = after[k - i]
  <2>1. /\ before \o after \in Seq(S)
        /\ Len(before \o after) = Len(before) + Len(after)
        /\ \A k \in 1 .. Len(before) + Len(after) :
             (before \o after)[k] = IF k <= Len(before) THEN before[k] ELSE after[k - Len(before)]
    BY <1>2, <1>3, ConcatProperties
  <2>2. Len(before) = i - 1 /\ Len(before) + Len(after) = Len(q) - 1
    BY <1>1, <1>2, <1>3
  <2>3. DOMAIN (before \o after) = 1 .. Len(q) - 1
    BY <2>1, <2>2, LenProperties
  <2>4. ASSUME NEW k \in 1 .. i - 1 PROVE (before \o after)[k] = before[k]
    BY <1>1, <2>1, <2>2
  <2>5. ASSUME NEW k \in i + 1 .. Len(q) PROVE (before \o after)[k - 1] = after[k - i]
    <3>1. k - 1 \in 1 .. Len(q) - 1 /\ ~(k - 1 <= i - 1) /\ (k - 1) - (i - 1) = k - i
      BY <1>1
    <3> QED BY <2>1, <2>2, <3>1
  <2> QED BY <2>1, <2>3, <2>4, <2>5
<1>5. ASSUME NEW k \in 1 .. Len(q), k # i PROVE q[k] \in Elements(before \o after)
  <2>1. CASE k < i
    <3>1. k \in 1 .. i - 1 /\ k \in 1 .. Len(q) - 1
      BY <1>1, <2>1
    <3>2. (before \o after)[k] = q[k]
      BY <1>2, <1>4, <3>1
    <3> QED BY <1>4, <3>1, <3>2 DEF Elements
  <2>2. CASE k > i
    <3>1. k \in i + 1 .. Len(q) /\ k - 1 \in 1 .. Len(q) - 1
      BY <1>1, <2>2
    <3>2. (before \o after)[k - 1] = q[k]
      BY <1>3, <1>4, <3>1
    <3> QED BY <1>4, <3>1, <3>2 DEF Elements
  <2> QED BY <1>1, <1>5, <2>1, <2>2
<1> QED BY <1>1, <1>4, <1>5 DEF Elements, WithoutAt, before, after

=============================================================================
