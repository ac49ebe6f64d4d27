---------------------------- MODULE ChannelFacts ----------------------------
(***************************************************************************)
(* Facts about sequences, of packets and of sequences, and about channels   *)
(* of capacity 1, that the proofs about peers, hubs, groups, the log and    *)
(* frames rest on, and induction over numbers and sequences.                *)
(***************************************************************************)
EXTENDS Naturals, Sequences, SequencesExt, SequenceTheorems, WellFoundedInduction, TLAPS

(* One packet alone, and what is left when the first one is taken.          *)
LEMMA Single ==
  ASSUME NEW S, NEW e \in S
  PROVE  <<e>> \in Seq(S) /\ Len(<<e>>) = 1 /\ <<e>> # <<>> /\ Head(<<e>>) = e
  OBVIOUS

(* A sequence that is not empty has a first packet and the others; one of   *)
(* capacity 1 is its first packet.                                          *)
LEMMA Split ==
  ASSUME NEW S, NEW s \in Seq(S), s # <<>>
  PROVE  /\ Head(s) \in S
         /\ Tail(s) \in Seq(S)
         /\ Len(Tail(s)) = Len(s) - 1
         /\ Len(s) <= 1 => Len(s) = 1 /\ s = <<Head(s)>>
<1>1. Head(s) \in S /\ Tail(s) \in Seq(S) /\ Len(Tail(s)) = Len(s) - 1
  OBVIOUS
<1>2. ASSUME Len(s) <= 1 PROVE Len(s) = 1 /\ s = <<Head(s)>>
  <2>1. Len(s) = 1 /\ Len(<<Head(s)>>) = 1
    <3>1. Len(s) \in Nat \ {0}
      BY EmptySeq
    <3> QED BY <1>2, <3>1
  <2>2. \A i \in 1..1 : s[i] = <<Head(s)>>[i]
    BY <2>1
  <2>3. s \in Seq(S) /\ <<Head(s)>> \in Seq(S)
    BY <1>1
  <2> QED BY <2>1, <2>2, <2>3
<1> QED BY <1>1, <1>2

(* A packet put in front of others is the first one, and they are the rest. *)
LEMMA InFront ==
  ASSUME NEW S, NEW e \in S, NEW s \in Seq(S)
  PROVE  /\ <<e>> \o s \in Seq(S) /\ <<e>> \o s # <<>>
         /\ Head(<<e>> \o s) = e
         /\ Tail(<<e>> \o s) = s
<1> DEFINE t == <<e>> \o s
<1>1. /\ <<e>> \in Seq(S) /\ Len(<<e>>) = 1 /\ Len(s) \in Nat
      /\ t \in Seq(S) /\ Len(t) = 1 + Len(s)
      /\ \A i \in 1..Len(t) : t[i] = IF i <= 1 THEN e ELSE s[i - 1]
  BY Single, LenProperties, ConcatProperties
<1>2. t # <<>>
  BY <1>1, EmptySeq
<1> HIDE DEF t
<1>3. Head(t) = e
  BY <1>1, <1>2
<1>4. Tail(t) \in Seq(S) /\ Len(Tail(t)) = Len(s)
      /\ \A i \in 1..Len(s) : Tail(t)[i] = t[i + 1]
  BY <1>1, <1>2, HeadTailProperties
<1>5. Tail(t) = s
  BY <1>1, <1>4, SeqEqual
<1> QED BY <1>1, <1>2, <1>3, <1>5 DEF t

(* A sequence is its first packet in front of the others.                   *)
LEMMA Rejoin ==
  ASSUME NEW S, NEW s \in Seq(S), s # <<>>
  PROVE  <<Head(s)>> \o Tail(s) = s
<1> DEFINE t == <<Head(s)>> \o Tail(s)
<1>1. /\ Head(s) \in S /\ Tail(s) \in Seq(S) /\ Len(Tail(s)) = Len(s) - 1
      /\ \A i \in 1..Len(s) - 1 : Tail(s)[i] = s[i + 1]
      /\ Len(s) \in Nat \ {0}
  BY HeadTailProperties, EmptySeq
<1>2. /\ t \in Seq(S) /\ Len(t) = Len(s)
      /\ \A i \in 1..Len(s) : t[i] = IF i <= 1 THEN Head(s) ELSE Tail(s)[i - 1]
  BY <1>1, Single, ConcatProperties
<1> HIDE DEF t
<1>3. \A i \in 1..Len(s) : t[i] = s[i]
  BY <1>1, <1>2
<1>4. t = s
  BY <1>2, <1>3, SeqEqual
<1> QED BY <1>4 DEF t

(* What is appended to nothing stands alone.                                *)
LEMMA AppendAlone == \A e : Append(<<>>, e) = <<e>>
<1> SUFFICES ASSUME NEW e PROVE Append(<<>>, e) = <<e>>
  OBVIOUS
<1> DEFINE t == Append(<<>>, e)
<1>1. t \in Seq({e}) /\ Len(t) = 1 /\ t[1] = e
  BY EmptySeq
<1>2. <<e>> \in Seq({e}) /\ Len(<<e>>) = 1 /\ <<e>>[1] = e
  OBVIOUS
<1> HIDE DEF t
<1>3. t = <<e>>
  BY <1>1, <1>2, SeqEqual
<1> QED BY <1>3 DEF t

(* Appending to what stands behind a sequence is appending to the whole.    *)
LEMMA AppendBehind ==
  ASSUME NEW S, NEW s \in Seq(S), NEW t \in Seq(S), NEW e \in S,
         NEW u, u = Append(t, e), NEW whole, whole = s \o t,
         NEW longer, longer = s \o u
  PROVE  longer = Append(whole, e)
<1> DEFINE v == Append(whole, e)
<1>1. /\ Len(s) \in Nat /\ Len(t) \in Nat /\ u \in Seq(S) /\ Len(u) = Len(t) + 1
      /\ \A i \in 1..Len(t) + 1 : u[i] = IF i <= Len(t) THEN t[i] ELSE e
  BY LenProperties
<1>2. /\ whole \in Seq(S) /\ Len(whole) = Len(s) + Len(t)
      /\ \A i \in 1..Len(s) + Len(t) :
            whole[i] = IF i <= Len(s) THEN s[i] ELSE t[i - Len(s)]
  BY ConcatProperties
<1>3. /\ longer \in Seq(S) /\ Len(longer) = Len(s) + Len(u)
      /\ \A i \in 1..Len(s) + Len(u) :
            longer[i] = IF i <= Len(s) THEN s[i] ELSE u[i - Len(s)]
  BY <1>1, ConcatProperties
<1>4. /\ v \in Seq(S) /\ Len(v) = Len(whole) + 1
      /\ \A i \in 1..Len(whole) + 1 : v[i] = IF i <= Len(whole) THEN whole[i] ELSE e
  BY <1>2
<1> HIDE DEF v
<1>5. ASSUME NEW i \in 1..Len(longer) PROVE longer[i] = v[i]
  <2>1. i \in 1..Len(s) + Len(t) + 1
    BY <1>1, <1>3
  <2>2. CASE i <= Len(s)
    BY <1>1, <1>2, <1>3, <1>4, <2>1, <2>2
  <2>3. CASE i > Len(s) /\ i <= Len(s) + Len(t)
    <3>1. i - Len(s) \in 1..Len(t) + 1 /\ i - Len(s) <= Len(t)
      BY <1>1, <2>1, <2>3
    <3>2. longer[i] = t[i - Len(s)]
      BY <1>1, <1>3, <2>1, <2>3, <3>1
    <3>3. v[i] = t[i - Len(s)]
      BY <1>1, <1>2, <1>4, <2>1, <2>3
    <3> QED BY <3>2, <3>3
  <2>4. CASE i = Len(s) + Len(t) + 1
    <3>1. i - Len(s) = Len(t) + 1
      BY <1>1, <2>4
    <3>2. longer[i] = e
      BY <1>1, <1>3, <2>1, <2>4, <3>1
    <3>3. v[i] = e
      BY <1>1, <1>2, <1>4, <2>1, <2>4
    <3> QED BY <3>2, <3>3
  <2>5. \/ i <= Len(s)
        \/ i > Len(s) /\ i <= Len(s) + Len(t)
        \/ i = Len(s) + Len(t) + 1
    <3>1. \A j, k \in Nat : \A n \in 1..j + k + 1 :
            n <= j \/ (n > j /\ n <= j + k) \/ n = j + k + 1
      OBVIOUS
    <3> QED BY <1>1, <2>1, <3>1
  <2> QED BY <2>2, <2>3, <2>4, <2>5
<1>6. Len(longer) = Len(v)
  BY <1>1, <1>2, <1>3, <1>4
<1>7. longer = v
  BY <1>3, <1>4, <1>5, <1>6, SeqEqual
<1> QED BY <1>7 DEF v

(* The first element and the rest of a concatenation.                       *)
LEMMA HeadOfConcat ==
  ASSUME NEW S, NEW s \in Seq(S), s # <<>>, NEW t \in Seq(S)
  PROVE  /\ s \o t # <<>> /\ Head(s \o t) = Head(s)
         /\ Tail(s \o t) = Tail(s) \o t
<1>1. /\ s \o t \in Seq(S) /\ Len(s \o t) = Len(s) + Len(t)
      /\ \A i \in 1 .. Len(s) + Len(t) :
           (s \o t)[i] = IF i <= Len(s) THEN s[i] ELSE t[i - Len(s)]
  BY ConcatProperties
<1>2. Len(s) \in Nat \ {0} /\ Len(t) \in Nat
  BY EmptySeq, LenProperties
<1>3. s \o t # <<>>
  BY <1>1, <1>2
<1>4. /\ Tail(s) \in Seq(S) /\ Len(Tail(s)) = Len(s) - 1
      /\ \A i \in 1 .. Len(Tail(s)) : Tail(s)[i] = s[i + 1]
  BY HeadTailProperties
<1>5. /\ Tail(s \o t) \in Seq(S) /\ Len(Tail(s \o t)) = Len(s \o t) - 1
      /\ \A i \in 1 .. Len(Tail(s \o t)) : Tail(s \o t)[i] = (s \o t)[i + 1]
  BY <1>1, <1>3, HeadTailProperties
<1>6. /\ Tail(s) \o t \in Seq(S) /\ Len(Tail(s) \o t) = Len(Tail(s)) + Len(t)
      /\ \A i \in 1 .. Len(Tail(s)) + Len(t) :
           (Tail(s) \o t)[i] = IF i <= Len(Tail(s)) THEN Tail(s)[i] ELSE t[i - Len(Tail(s))]
  BY <1>4, ConcatProperties
<1>7. \A i \in 1 .. Len(Tail(s \o t)) : Tail(s \o t)[i] = (Tail(s) \o t)[i]
  <2> SUFFICES ASSUME NEW i \in 1 .. Len(Tail(s \o t))
               PROVE  Tail(s \o t)[i] = (Tail(s) \o t)[i]
    OBVIOUS
  <2>1. i \in 1 .. (Len(s) + Len(t) - 1)
    BY <1>1, <1>5
  <2>2. Tail(s \o t)[i] = IF i + 1 <= Len(s) THEN s[i + 1] ELSE t[(i + 1) - Len(s)]
    BY <1>1, <1>2, <1>5, <2>1
  <2>3. (Tail(s) \o t)[i] = IF i <= Len(s) - 1 THEN s[i + 1] ELSE t[i - (Len(s) - 1)]
    BY <1>2, <1>4, <1>6, <2>1
  <2>4. (i + 1) - Len(s) = i - (Len(s) - 1)
    BY <1>2, <2>1
  <2>5. i + 1 <= Len(s) <=> i <= Len(s) - 1
    BY <1>2, <2>1
  <2> QED
    BY <2>2, <2>3, <2>4, <2>5
<1>8. Tail(s \o t) = Tail(s) \o t
  <2>1. Len(Tail(s \o t)) = Len(Tail(s) \o t)
    BY <1>1, <1>2, <1>4, <1>5, <1>6
  <2> QED
    BY <1>5, <1>6, <1>7, <2>1, SeqEqual
<1>9. Head(s \o t) = Head(s)
  BY <1>1, <1>2
<1> QED
  BY <1>3, <1>8, <1>9

(* A concatenation whose second part is missing its first packet.           *)
LEMMA WithoutOne ==
  ASSUME NEW S, NEW s \in Seq(S), NEW t \in Seq(S), t # <<>>,
         NEW q, q = s \o t
  PROVE  \E i \in DOMAIN q :
           SubSeq(q, 1, i - 1) \o SubSeq(q, i + 1, Len(q)) = s \o Tail(t)
<1>1. /\ q \in Seq(S) /\ Len(q) = Len(s) + Len(t)
      /\ \A i \in 1 .. Len(s) + Len(t) :
           q[i] = IF i <= Len(s) THEN s[i] ELSE t[i - Len(s)]
  BY ConcatProperties
<1>2. Len(s) \in Nat /\ Len(t) \in Nat \ {0} /\ DOMAIN q = 1..Len(q)
  BY <1>1, EmptySeq, LenProperties
<1>3. \A i \in 1..Len(q) : q[i] \in S
  BY <1>1, ElementOfSeq
<1> DEFINE u == SubSeq(q, 1, Len(s))
           v == SubSeq(q, Len(s) + 2, Len(q))
<1>4. u = s
  <2>1. \A i \in 1..Len(s) : q[i] \in S
    BY <1>1, <1>2, <1>3
  <2>2. /\ u \in Seq(S)
        /\ Len(u) = IF 1 <= Len(s) THEN Len(s) - 1 + 1 ELSE 0
        /\ \A i \in 1 .. Len(s) - 1 + 1 : u[i] = q[1 + i - 1]
    BY <1>2, <2>1, SubSeqProperties
  <2> HIDE DEF u
  <2>3. Len(u) = Len(s)
    BY <1>2, <2>2
  <2>4. \A i \in 1..Len(u) : u[i] = s[i]
    BY <1>1, <1>2, <2>2, <2>3
  <2> QED BY <2>2, <2>3, <2>4, SeqEqual
<1>5. v = Tail(t)
  <2>1. /\ Tail(t) \in Seq(S) /\ Len(Tail(t)) = Len(t) - 1
        /\ \A i \in 1 .. Len(Tail(t)) : Tail(t)[i] = t[i + 1]
    BY HeadTailProperties
  <2>2. \A i \in Len(s) + 2 .. Len(q) : q[i] \in S
    BY <1>1, <1>2, <1>3
  <2>3. Len(s) + 2 \in Int /\ Len(q) \in Int
    BY <1>1, <1>2
  <2>4. /\ v \in Seq(S)
        /\ Len(v) = IF Len(s) + 2 <= Len(q) THEN Len(q) - (Len(s) + 2) + 1 ELSE 0
        /\ \A i \in 1 .. Len(q) - (Len(s) + 2) + 1 : v[i] = q[(Len(s) + 2) + i - 1]
    BY <2>2, <2>3, SubSeqProperties
  <2> HIDE DEF v
  <2>5. Len(v) = Len(t) - 1 /\ Len(q) - (Len(s) + 2) + 1 = Len(t) - 1
    <3>1. \A j \in Nat, k \in Nat \ {0} :
            /\ (j + k) - (j + 2) + 1 = k - 1
            /\ (IF j + 2 <= j + k THEN (j + k) - (j + 2) + 1 ELSE 0) = k - 1
      OBVIOUS
    <3>2. Len(q) = Len(s) + Len(t)
      BY <1>1
    <3> QED BY <1>2, <2>4, <3>1, <3>2
  <2>6. ASSUME NEW i \in 1..Len(v)
        PROVE  v[i] = Tail(t)[i]
    <3>1. v[i] = q[(Len(s) + 2) + i - 1]
      BY <2>4, <2>5
    <3>2. (Len(s) + 2) + i - 1 \in 1 .. Len(s) + Len(t)
          /\ ~((Len(s) + 2) + i - 1 <= Len(s))
          /\ ((Len(s) + 2) + i - 1) - Len(s) = i + 1
      BY <1>2, <2>5
    <3>3. q[(Len(s) + 2) + i - 1] = t[i + 1]
      BY <1>1, <3>2
    <3> QED BY <2>1, <2>5, <3>1, <3>3
  <2> QED BY <2>1, <2>4, <2>5, <2>6, SeqEqual
<1>6. PICK i \in 1..Len(q) : i = Len(s) + 1 /\ i - 1 = Len(s) /\ i + 1 = Len(s) + 2
  BY <1>1, <1>2
<1>7. SubSeq(q, 1, i - 1) \o SubSeq(q, i + 1, Len(q)) = s \o Tail(t)
  BY <1>4, <1>5, <1>6
<1> QED BY <1>2, <1>7

-----------------------------------------------------------------------------
(* Induction.  A set of numbers that 0 is in, and with a number the next    *)
(* one, has them all; so has a set of sequences.                            *)
Less == OpToRel(<, Nat)

(* Numbers do not descend for ever.                                         *)
LEMMA LessWellFounded == IsWellFoundedOn(Less, Nat)
  BY NatLessThanWellFounded DEF Less, OpToRel

(* The relation is that of numbers.                                         *)
LEMMA LessMeans == \A i, j \in Nat : <<i, j>> \in Less <=> i < j
  BY DEF Less, OpToRel

(* From 0 and from each number to the next, to all numbers.                 *)
LEMMA UpFromZero ==
  ASSUME NEW T, 0 \in T, \A n \in Nat : n \in T => n + 1 \in T
  PROVE  \A n \in Nat : n \in T
<1> SUFFICES ASSUME Nat \ T # {} PROVE FALSE
  OBVIOUS
<1>1. \E n \in Nat \ T : \A i \in Nat \ T : ~ (<<i, n>> \in Less)
  BY LessWellFounded, WFMin
<1>2. PICK n \in Nat \ T : \A i \in Nat \ T : ~ (<<i, n>> \in Less)
  BY <1>1
<1>3. n # 0 /\ n - 1 \in Nat
  BY <1>2
<1>4. n - 1 \in T
  <2>1. <<n - 1, n>> \in Less
    BY <1>2, <1>3, LessMeans
  <2> QED BY <1>2, <1>3, <2>1
<1>5. (n - 1) + 1 \in T /\ (n - 1) + 1 = n
  BY <1>3, <1>4
<1> QED BY <1>2, <1>5

(* A sequence is what stands before its last element, and that element.     *)
LEMMA LastApart ==
  ASSUME NEW S, NEW s \in Seq(S), s # <<>>
  PROVE  \E t \in Seq(S), e \in S : s = Append(t, e) /\ Len(s) = Len(t) + 1
<1> DEFINE t == SubSeq(s, 1, Len(s) - 1)
           u == Append(t, s[Len(s)])
<1>1. Len(s) \in Nat \ {0} /\ Len(s) - 1 \in Nat
  BY EmptySeq
<1>2. \A i \in 1..Len(s) : s[i] \in S
  BY ElementOfSeq
<1>3. /\ t \in Seq(S) /\ Len(t) = Len(s) - 1
      /\ \A i \in 1 .. Len(s) - 1 : t[i] = s[i]
  <2>1. \A i \in 1 .. Len(s) - 1 : s[i] \in S
    BY <1>1, <1>2
  <2>2. /\ t \in Seq(S)
        /\ Len(t) = IF 1 <= Len(s) - 1 THEN (Len(s) - 1) - 1 + 1 ELSE 0
        /\ \A i \in 1 .. (Len(s) - 1) - 1 + 1 : t[i] = s[1 + i - 1]
    BY <1>1, <2>1, SubSeqProperties
  <2> HIDE DEF t
  <2>3. (Len(s) - 1) - 1 + 1 = Len(s) - 1
        /\ (IF 1 <= Len(s) - 1 THEN (Len(s) - 1) - 1 + 1 ELSE 0) = Len(s) - 1
    <3>1. \A k \in Nat \ {0} :
            (k - 1) - 1 + 1 = k - 1
            /\ (IF 1 <= k - 1 THEN (k - 1) - 1 + 1 ELSE 0) = k - 1
      OBVIOUS
    <3> QED BY <1>1, <3>1
  <2>4. \A i \in 1 .. Len(s) - 1 : 1 + i - 1 = i
    BY <1>1
  <2> QED BY <2>2, <2>3, <2>4
<1> HIDE DEF t
<1>4. /\ u \in Seq(S) /\ Len(u) = Len(t) + 1
      /\ \A i \in 1 .. Len(t) + 1 : u[i] = IF i <= Len(t) THEN t[i] ELSE s[Len(s)]
  BY <1>1, <1>2, <1>3
<1> HIDE DEF u
<1>5. s = u
  <2>1. \A i \in 1..Len(s) : s[i] = u[i]
    BY <1>1, <1>3, <1>4
  <2> QED BY <1>1, <1>3, <1>4, <2>1, SeqEqual
<1>6. s[Len(s)] \in S
  BY <1>1, <1>2
<1> QED BY <1>1, <1>3, <1>5, <1>6 DEF u

(* From no element and from each sequence to one element more, to all       *)
(* sequences.                                                               *)
LEMMA OneAfterAnother ==
  ASSUME NEW S, NEW P, <<>> \in P,
         \A t \in Seq(S), e \in S : t \in P => Append(t, e) \in P
  PROVE  \A s \in Seq(S) : s \in P
<1> DEFINE T == {n \in Nat : \A s \in Seq(S) : Len(s) = n => s \in P}
<1>1. 0 \in T
  BY EmptySeq
<1>2. ASSUME NEW n \in Nat, n \in T PROVE n + 1 \in T
  <2>1. ASSUME NEW s \in Seq(S), Len(s) = n + 1 PROVE s \in P
    <3>1. s # <<>>
      BY <2>1, EmptySeq
    <3>2. PICK t \in Seq(S), e \in S : s = Append(t, e) /\ Len(s) = Len(t) + 1
      BY <3>1, LastApart
    <3>3. Len(t) = n
      BY <2>1, <3>2, LenProperties
    <3> QED BY <1>2, <3>2, <3>3
  <2> QED BY <2>1
<1> HIDE DEF T
<1>3. \A n \in Nat : n \in T
  BY <1>1, <1>2, UpFromZero
<1> QED BY <1>3, LenProperties DEF T

(* A function can be given value by value, from the one before: g makes the *)
(* next value of the last one and of its place.                             *)
Steps(f, z, n, g) == f[0] = z /\ \A i \in 1..n : f[i] = g[<<f[i - 1], i>>]

(* There is such a function.                                                *)
LEMMA StepByStep ==
  ASSUME NEW V, NEW z \in V, NEW n \in Nat, NEW g \in [V \X (1..n) -> V]
  PROVE  \E f \in [0..n -> V] : Steps(f, z, n, g)
<1> DEFINE T == {m \in Nat : m <= n =>
                   \E f \in [0..m -> V] :
                     f[0] = z /\ \A i \in 1..m : f[i] = g[<<f[i - 1], i>>]}
<1>1. 0 \in T
  <2> DEFINE f == [i \in 0..0 |-> z]
  <2>1. f \in [0..0 -> V] /\ f[0] = z
    OBVIOUS
  <2>2. \A i \in 1..0 : f[i] = g[<<f[i - 1], i>>]
    OBVIOUS
  <2> HIDE DEF f
  <2>3. \E h \in [0..0 -> V] :
          h[0] = z /\ \A i \in 1..0 : h[i] = g[<<h[i - 1], i>>]
    BY <2>1, <2>2
  <2> QED BY <2>3
<1>2. ASSUME NEW m \in Nat, m \in T PROVE m + 1 \in T
  <2> SUFFICES ASSUME m + 1 <= n
               PROVE  \E f \in [0..m + 1 -> V] :
                        f[0] = z /\ \A i \in 1..m + 1 : f[i] = g[<<f[i - 1], i>>]
    OBVIOUS
  <2>1. PICK h \in [0..m -> V] :
               h[0] = z /\ \A i \in 1..m : h[i] = g[<<h[i - 1], i>>]
    BY <1>2
  <2> DEFINE f == [i \in 0..m + 1 |-> IF i <= m THEN h[i] ELSE g[<<h[m], m + 1>>]]
  <2>2. g[<<h[m], m + 1>>] \in V
    <3>1. h[m] \in V /\ m + 1 \in 1..n
      OBVIOUS
    <3> QED BY <3>1
  <2>3. f \in [0..m + 1 -> V] /\ f[0] = z
    BY <2>1, <2>2
  <2>4. ASSUME NEW i \in 1..m + 1 PROVE f[i] = g[<<f[i - 1], i>>]
    <3>1. CASE i <= m
      <4>1. i \in 1..m /\ i - 1 \in 0..m /\ i \in 0..m + 1 /\ i - 1 \in 0..m + 1
            /\ i - 1 <= m
        BY <3>1
      <4>2. f[i] = h[i] /\ f[i - 1] = h[i - 1]
        BY <3>1, <4>1
      <4> QED BY <2>1, <4>1, <4>2
    <3>2. CASE i = m + 1
      BY <3>2
    <3> QED BY <3>1, <3>2
  <2> QED BY <2>3, <2>4
<1> HIDE DEF T
<1>3. n \in T
  BY <1>1, <1>2, UpFromZero
<1> QED BY <1>3 DEF T, Steps

-----------------------------------------------------------------------------
(* Sequences of sequences: blocks of records, messages of tokens.           *)
(* The sequences in a sequence, one after another.                          *)
Joining(f, w, n) == f[1] = w[1] /\ \A i \in 2..n : f[i] = f[i - 1] \o w[i]

Joined(f, w) == f = [i \in 1..Len(w) |-> IF i = 1 THEN w[i] ELSE f[i - 1] \o w[i]]

(* All of them are the last of the sequences they are made up of.           *)
LEMMA FlattenSteps ==
  ASSUME NEW S, NEW w \in Seq(Seq(S)), w # <<>>, NEW n, n = Len(w)
  PROVE  \E f \in [1..n -> Seq(S)] : Joining(f, w, n) /\ FlattenSeq(w) = f[n]
<1> DEFINE V == Seq(S)
           z == w[1]
           m == n - 1
           g == [p \in V \X (1..m) |-> p[1] \o w[p[2] + 1]]
<1>1. n \in Nat \ {0} /\ m \in Nat /\ m + 1 = n
  BY EmptySeq
<1>2. z \in V /\ \A i \in 1..n : w[i] \in V
  BY <1>1, ElementOfSeq
<1>3. g \in [V \X (1..m) -> V]
  <2>1. ASSUME NEW p \in V \X (1..m) PROVE p[1] \o w[p[2] + 1] \in V
    BY <1>1, <1>2, ConcatProperties
  <2> QED BY <2>1
<1>4. \A t \in V, i \in 1..m : g[<<t, i>>] = t \o w[i + 1]
  OBVIOUS
<1> HIDE DEF V, g, z, m
<1>5. \E h \in [0..m -> V] : Steps(h, z, m, g)
  BY <1>1, <1>2, <1>3, StepByStep
<1>6. PICK h \in [0..m -> V] : h[0] = z /\ \A i \in 1..m : h[i] = g[<<h[i - 1], i>>]
  BY <1>5 DEF Steps
<1> DEFINE f == [i \in 1..n |-> h[i - 1]]
<1>7. f \in [1..n -> V] /\ f[1] = w[1]
  BY <1>1, <1>6 DEF m, z
<1>8. \A i \in 2..n : f[i] = f[i - 1] \o w[i]
  <2> TAKE i \in 2..n
  <2>1. i - 1 \in 1..m /\ (i - 1) - 1 \in 0..m /\ i \in 1..n /\ i - 1 \in 1..n
        /\ (i - 1) + 1 = i
    BY <1>1 DEF m
  <2>2. h[(i - 1) - 1] \in V
    BY <2>1
  <2>3. h[i - 1] = h[(i - 1) - 1] \o w[i]
    BY <1>4, <1>6, <2>1, <2>2
  <2> QED BY <2>1, <2>3
<1> HIDE DEF f
<1> DEFINE b == [i \in 1..n |-> IF i = 1 THEN w[i] ELSE f[i - 1] \o w[i]]
<1>9. Joined(f, w)
  <2>1. \A i \in 1..n : f[i] = b[i]
    <3> TAKE i \in 1..n
    <3>1. CASE i = 1
      BY <1>7, <3>1
    <3>2. CASE i # 1
      <4>1. i \in 2..n
        BY <1>1, <3>2
      <4> QED BY <1>8, <3>2, <4>1
    <3> QED BY <3>1, <3>2
  <2>2. f = b
    BY <1>7, <2>1
  <2> QED BY <2>2 DEF Joined
<1> DEFINE c == CHOOSE j : Joined(j, w)
<1>10. Joined(c, w) /\ FlattenSeq(w) = c[n]
  <2>1. \E j : Joined(j, w)
    BY <1>9
  <2>2. Len(w) # 0
    BY <1>1
  <2>3. FlattenSeq(w) = c[Len(w)]
    BY <2>2 DEF FlattenSeq, Joined
  <2> QED BY <2>1, <2>3
<1> HIDE DEF b, c
<1> DEFINE T == {k \in Nat : k + 1 <= n => c[k + 1] = f[k + 1]}
<1>11. 0 \in T
  BY <1>1, <1>7, <1>10 DEF Joined
<1>12. ASSUME NEW k \in Nat, k \in T PROVE k + 1 \in T
  <2> SUFFICES ASSUME (k + 1) + 1 <= n PROVE c[(k + 1) + 1] = f[(k + 1) + 1]
    OBVIOUS
  <2>1. (k + 1) + 1 \in 1..n /\ (k + 1) + 1 \in 2..n /\ ((k + 1) + 1) - 1 = k + 1
        /\ (k + 1) + 1 # 1 /\ k + 1 <= n
    BY <1>1
  <2>2. c[(k + 1) + 1] = c[k + 1] \o w[(k + 1) + 1]
    BY <1>10, <2>1 DEF Joined
  <2>3. f[(k + 1) + 1] = f[k + 1] \o w[(k + 1) + 1]
    BY <1>8, <2>1
  <2> QED BY <1>12, <2>1, <2>2, <2>3
<1> HIDE DEF T
<1>13. m \in T
  BY <1>1, <1>11, <1>12, UpFromZero
<1>14. FlattenSeq(w) = f[n]
  BY <1>1, <1>10, <1>13 DEF T
<1>15. f \in [1..n -> Seq(S)] /\ Joining(f, w, n) /\ FlattenSeq(w) = f[n]
  BY <1>7, <1>8, <1>14 DEF Joining, V
<1> QED BY <1>15

(* None of them is nothing, and one more stands behind the others.          *)
LEMMA FlattenAppend ==
  ASSUME NEW S, NEW w \in Seq(Seq(S)), NEW x \in Seq(S)
  PROVE  /\ FlattenSeq(w) \in Seq(S)
         /\ w = <<>> => FlattenSeq(w) = <<>>
         /\ FlattenSeq(Append(w, x)) = FlattenSeq(w) \o x
<1> DEFINE V == Seq(S)
           n == Len(w)
           t == Append(w, x)
<1>1. /\ n \in Nat /\ t \in Seq(V) /\ Len(t) = n + 1 /\ t # <<>>
      /\ t[n + 1] = x /\ \A i \in 1..n : t[i] = w[i]
  <2>1. w \in Seq(V) /\ x \in V
    OBVIOUS
  <2> HIDE DEF V
  <2>2. /\ n \in Nat /\ t \in Seq(V) /\ Len(t) = n + 1
        /\ t[n + 1] = x /\ \A i \in 1..n : t[i] = w[i]
    BY <2>1
  <2> HIDE DEF t, n
  <2> QED BY <2>2, EmptySeq
<1>2. ASSUME w = <<>> PROVE FlattenSeq(w) = <<>>
  <2>1. Len(w) = 0
    BY <1>2, EmptySeq
  <2> QED BY <1>2, <2>1 DEF FlattenSeq
<1> HIDE DEF t, n
<1>3. PICK h \in [1..n + 1 -> V] : Joining(h, t, n + 1) /\ FlattenSeq(t) = h[n + 1]
  BY <1>1, FlattenSteps
<1>4. CASE w = <<>>
  <2>1. n = 0 /\ FlattenSeq(w) = <<>> /\ n + 1 = 1
    BY <1>2, <1>4, EmptySeq DEF n
  <2>2. FlattenSeq(t) = x
    BY <1>1, <1>3, <2>1 DEF Joining
  <2>3. <<>> \o x = x /\ <<>> \in Seq(S)
    BY ConcatEmptySeq, EmptySeq
  <2> QED BY <1>4, <2>1, <2>2, <2>3 DEF t
<1>5. CASE w # <<>>
  <2>1. n \in Nat \ {0}
    BY <1>5, EmptySeq DEF n
  <2>2. PICK f \in [1..n -> V] : Joining(f, w, n) /\ FlattenSeq(w) = f[n]
    BY <1>5, FlattenSteps DEF n
  <2> DEFINE T == {k \in Nat : k + 1 <= n => h[k + 1] = f[k + 1]}
  <2>3. 0 \in T
    BY <1>1, <1>3, <2>1, <2>2 DEF Joining
  <2>4. ASSUME NEW k \in Nat, k \in T PROVE k + 1 \in T
    <3> SUFFICES ASSUME (k + 1) + 1 <= n PROVE h[(k + 1) + 1] = f[(k + 1) + 1]
      OBVIOUS
    <3>1. (k + 1) + 1 \in 1..n /\ (k + 1) + 1 \in 2..n /\ (k + 1) + 1 \in 2..n + 1
          /\ ((k + 1) + 1) - 1 = k + 1 /\ k + 1 <= n
      BY <2>1
    <3>2. h[(k + 1) + 1] = h[k + 1] \o t[(k + 1) + 1]
      BY <1>3, <3>1 DEF Joining
    <3>3. f[(k + 1) + 1] = f[k + 1] \o w[(k + 1) + 1]
      BY <2>2, <3>1 DEF Joining
    <3> QED BY <1>1, <2>4, <3>1, <3>2, <3>3
  <2> HIDE DEF T
  <2>5. n - 1 \in T /\ n - 1 \in Nat /\ (n - 1) + 1 = n
    <3>1. n - 1 \in Nat /\ (n - 1) + 1 = n
      BY <2>1
    <3> QED BY <2>3, <2>4, <3>1, UpFromZero
  <2>6. h[n] = f[n]
    BY <2>1, <2>5 DEF T
  <2>7. n + 1 \in 2..n + 1 /\ (n + 1) - 1 = n
    BY <2>1
  <2>8. h[n + 1] = h[n] \o t[n + 1]
    BY <1>3, <2>7 DEF Joining
  <2>9. f[n] \in V
    BY <2>1
  <2>10. FlattenSeq(t) = FlattenSeq(w) \o x
    BY <1>1, <1>3, <2>2, <2>6, <2>8
  <2> QED BY <1>5, <2>2, <2>9, <2>10 DEF t
<1> QED BY <1>4, <1>5

(* The first stands in front of all the others.                             *)
LEMMA FlattenFront ==
  ASSUME NEW S, NEW x \in Seq(S)
  PROVE  \A w \in Seq(Seq(S)) : FlattenSeq(<<x>> \o w) = x \o FlattenSeq(w)
<1> DEFINE P == {w \in Seq(Seq(S)) : FlattenSeq(<<x>> \o w) = x \o FlattenSeq(w)}
<1>1. <<>> \in P
  <2>1. /\ <<>> \in Seq(Seq(S)) /\ <<>> \in Seq(S)
        /\ <<x>> \in Seq(Seq(S)) /\ <<x>> \o <<>> = <<x>>
    BY EmptySeq, ConcatEmptySeq
  <2>2. FlattenSeq(<<>>) = <<>> /\ FlattenSeq(Append(<<>>, x)) = FlattenSeq(<<>>) \o x
    BY <2>1, FlattenAppend
  <2>3. Append(<<>>, x) = <<x>>
    BY AppendAlone
  <2>4. <<>> \o x = x /\ x \o <<>> = x
    BY ConcatEmptySeq
  <2>5. FlattenSeq(<<x>>) = x
    BY <2>2, <2>3, <2>4
  <2> QED BY <2>1, <2>2, <2>4, <2>5
<1>2. ASSUME NEW w \in Seq(Seq(S)), NEW y \in Seq(S), w \in P PROVE Append(w, y) \in P
  <2>1. <<x>> \in Seq(Seq(S)) /\ <<x>> \o w \in Seq(Seq(S))
        /\ Append(w, y) \in Seq(Seq(S))
    BY ConcatProperties
  <2>2. <<x>> \o Append(w, y) = Append(<<x>> \o w, y)
    BY <2>1, AppendBehind
  <2>3. FlattenSeq(Append(<<x>> \o w, y)) = FlattenSeq(<<x>> \o w) \o y
        /\ FlattenSeq(Append(w, y)) = FlattenSeq(w) \o y
        /\ FlattenSeq(w) \in Seq(S)
    BY <2>1, FlattenAppend
  <2>4. (x \o FlattenSeq(w)) \o y = x \o (FlattenSeq(w) \o y)
    BY <2>3, ConcatAssociative
  <2>5. FlattenSeq(<<x>> \o w) = x \o FlattenSeq(w)
    BY <1>2
  <2> QED BY <2>1, <2>2, <2>3, <2>4, <2>5
<1> HIDE DEF P
<1>3. \A w \in Seq(Seq(S)) : w \in P
  BY <1>1, <1>2, OneAfterAnother
<1> QED BY <1>3 DEF P
=============================================================================
