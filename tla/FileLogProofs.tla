--------------------------- MODULE FileLogProofs ---------------------------
(***************************************************************************)
(* Proofs about the message log, for any records and sizes, any crashes and *)
(* failures: its types, the header of its file, that nothing is lost, and   *)
(* that nothing comes twice.                                                *)
(***************************************************************************)
EXTENDS FileLog, ChannelFacts

(* What Only takes from a sequence, place by place.                         *)
Chosen(f, s, S) ==
  f = [i \in 0..Len(s) |->
         IF i = 0 THEN <<>>
         ELSE IF s[i] \in S THEN Append(f[i - 1], s[i]) ELSE f[i - 1]]

Choosing(f, s, S, n) ==
  /\ f[0] = <<>>
  /\ \A i \in 1..n : f[i] = IF s[i] \in S THEN Append(f[i - 1], s[i]) ELSE f[i - 1]

(* What Only takes is the last of the sequences that it is made up of.      *)
LEMMA OnlySteps ==
  ASSUME NEW s \in Seq(Record), NEW S \in SUBSET Record,
         NEW n, n = Len(s)
  PROVE  \E f \in [0..n -> Seq(Record)] : Choosing(f, s, S, n) /\ Only(s, S) = f[n]
<1> DEFINE V == Seq(Record)
           z == <<>>
           g == [p \in V \X (1..n) |->
                   IF s[p[2]] \in S THEN Append(p[1], s[p[2]]) ELSE p[1]]
<1>1. n \in Nat /\ z \in V
  BY LenProperties, EmptySeq
<1>2. g \in [V \X (1..n) -> V]
  <2>1. ASSUME NEW p \in V \X (1..n)
        PROVE  (IF s[p[2]] \in S THEN Append(p[1], s[p[2]]) ELSE p[1]) \in V
    BY ElementOfSeq
  <2> QED BY <2>1
<1>3. \A t \in V, i \in 1..n : g[<<t, i>>] = IF s[i] \in S THEN Append(t, s[i]) ELSE t
  OBVIOUS
<1> HIDE DEF V, g, z
<1>4. \E f \in [0..n -> V] : Steps(f, z, n, g)
  BY <1>1, <1>2, StepByStep
<1>5. PICK f \in [0..n -> V] : f[0] = z /\ \A i \in 1..n : f[i] = g[<<f[i - 1], i>>]
  BY <1>4 DEF Steps
<1> DEFINE b == [i \in 0..n |->
         IF i = 0 THEN z
         ELSE IF s[i] \in S THEN Append(f[i - 1], s[i]) ELSE f[i - 1]]
<1>6. \A i \in 0..n : f[i] = b[i]
  <2> TAKE i \in 0..n
  <2>1. CASE i = 0
    BY <1>5, <2>1
  <2>2. CASE i # 0
    <3>1. i \in 1..n /\ i - 1 \in 0..n
      BY <1>1, <2>2
    <3>2. f[i - 1] \in V
      BY <3>1
    <3> QED BY <1>3, <1>5, <2>2, <3>1, <3>2
  <2> QED BY <2>1, <2>2
<1>7. Chosen(f, s, S)
  <2>1. f = b
    BY <1>6
  <2> QED BY <2>1 DEF Chosen, z
<1> DEFINE c == CHOOSE h : Chosen(h, s, S)
<1>8. Chosen(c, s, S) /\ Only(s, S) = c[n]
  <2>1. Chosen(c, s, S)
    <3>1. \E h : Chosen(h, s, S)
      BY <1>7
    <3> QED BY <3>1
  <2>2. Only(s, S) = c[Len(s)]
    BY DEF Only, Chosen
  <2> QED BY <2>1, <2>2
<1> HIDE DEF b, c
<1>9. \A m \in Nat : m \in {k \in Nat : k <= n => c[k] = f[k]}
  <2> DEFINE T == {k \in Nat : k <= n => c[k] = f[k]}
  <2>1. 0 \in T
    BY <1>1, <1>5, <1>8 DEF Chosen, z
  <2>2. ASSUME NEW k \in Nat, k \in T PROVE k + 1 \in T
    <3> SUFFICES ASSUME k + 1 <= n PROVE c[k + 1] = f[k + 1]
      OBVIOUS
    <3>1. k + 1 \in 1..n /\ k + 1 \in 0..n /\ (k + 1) - 1 = k /\ k \in 0..n /\ k + 1 # 0
      BY <1>1
    <3>2. c[k + 1] = IF s[k + 1] \in S THEN Append(c[k], s[k + 1]) ELSE c[k]
      BY <1>8, <3>1 DEF Chosen
    <3>3. f[k + 1] = IF s[k + 1] \in S THEN Append(f[k], s[k + 1]) ELSE f[k]
      <4>1. f[k] \in V
        BY <3>1
      <4>2. f[k + 1] = g[<<f[k], k + 1>>]
        BY <1>5, <3>1
      <4> QED BY <1>3, <3>1, <4>1, <4>2
    <3>4. c[k] = f[k]
      BY <2>2, <3>1 DEF Choosing
    <3> QED BY <3>2, <3>3, <3>4
  <2> HIDE DEF T
  <2>3. \A m \in Nat : m \in T
    BY <2>1, <2>2, UpFromZero
  <2> QED BY <2>3 DEF T
<1>10. c[n] = f[n]
  BY <1>1, <1>9
<1>11. \A i \in 1..n : f[i] = IF s[i] \in S THEN Append(f[i - 1], s[i]) ELSE f[i - 1]
  <2> TAKE i \in 1..n
  <2>1. f[i - 1] \in V
    BY <1>1
  <2> QED BY <1>3, <1>5, <2>1
<1>12. f \in [0..n -> Seq(Record)] /\ Choosing(f, s, S, n) /\ Only(s, S) = f[n]
  BY <1>5, <1>8, <1>10, <1>11 DEF Choosing, V, z
<1> QED BY <1>12

(* What Only takes from nothing, and from one record more.                  *)
LEMMA OnlyAppend ==
  ASSUME NEW s \in Seq(Record), NEW S \in SUBSET Record
  PROVE  /\ Only(s, S) \in Seq(Record)
         /\ s = <<>> => Only(s, S) = <<>>
         /\ \A e \in Record :
              Only(Append(s, e), S)
                = IF e \in S THEN Append(Only(s, S), e) ELSE Only(s, S)
<1> DEFINE n == Len(s)
           V == Seq(Record)
<1>1. n \in Nat
  BY LenProperties
<1>2. PICK f \in [0..n -> V] : Choosing(f, s, S, n) /\ Only(s, S) = f[n]
  BY OnlySteps
<1>3. ASSUME NEW e \in Record
      PROVE  Only(Append(s, e), S) = IF e \in S THEN Append(Only(s, S), e) ELSE Only(s, S)
  <2> DEFINE t == Append(s, e)
  <2>1. t \in Seq(Record) /\ Len(t) = n + 1
        /\ t[n + 1] = e /\ \A i \in 1..n : t[i] = s[i]
    OBVIOUS
  <2> HIDE DEF t, n
  <2>2. PICK h \in [0..n + 1 -> V] : Choosing(h, t, S, n + 1) /\ Only(t, S) = h[n + 1]
    BY <2>1, OnlySteps
  <2> DEFINE T == {k \in Nat : k <= n => h[k] = f[k]}
  <2>3. 0 \in T
    BY <1>2, <2>2 DEF Choosing
  <2>4. ASSUME NEW k \in Nat, k \in T PROVE k + 1 \in T
    <3> SUFFICES ASSUME k + 1 <= n PROVE h[k + 1] = f[k + 1]
      OBVIOUS
    <3>1. k + 1 \in 1..n /\ k + 1 \in 1..n + 1 /\ (k + 1) - 1 = k
      BY <1>1
    <3>2. h[k] = f[k]
      BY <2>4, <1>1
    <3>3. h[k + 1] = IF t[k + 1] \in S THEN Append(h[k], t[k + 1]) ELSE h[k]
      BY <2>2, <3>1 DEF Choosing
    <3>4. f[k + 1] = IF s[k + 1] \in S THEN Append(f[k], s[k + 1]) ELSE f[k]
      BY <1>2, <3>1 DEF Choosing
    <3> QED BY <2>1, <3>1, <3>2, <3>3, <3>4
  <2> HIDE DEF T
  <2>5. n \in T
    BY <1>1, <2>3, <2>4, UpFromZero
  <2>6. h[n] = f[n]
    BY <2>5 DEF T
  <2>7. n + 1 \in 1..n + 1 /\ (n + 1) - 1 = n
    BY <1>1
  <2>8. h[n + 1] = IF t[n + 1] \in S THEN Append(h[n], t[n + 1]) ELSE h[n]
    BY <2>2, <2>7 DEF Choosing
  <2>9. Only(t, S) = IF e \in S THEN Append(Only(s, S), e) ELSE Only(s, S)
    BY <1>2, <2>1, <2>2, <2>6, <2>8
  <2> QED BY <2>9 DEF t
<1>4. Only(s, S) \in Seq(Record)
  BY <1>1, <1>2
<1>5. s = <<>> => n = 0
  BY EmptySeq
<1>6. f[0] = <<>>
  BY <1>2 DEF Choosing
<1> HIDE DEF n, V
<1> QED BY <1>2, <1>3, <1>4, <1>5, <1>6


(* The space that the records of a block take.                              *)
Summing(f, b, n) == f[0] = 0 /\ \A i \in 1..n : f[i] = f[i - 1] + Size[b[i]]

Summed(f, b) == f = [i \in 0..Len(b) |-> IF i = 0 THEN 0 ELSE f[i - 1] + Size[b[i]]]

(* The space used is the last of the sums that it is made up of.            *)
LEMMA UsedSteps ==
  ASSUME NEW b \in Seq(Record), NEW n, n = Len(b)
  PROVE  \E f \in [0..n -> Nat] : Summing(f, b, n) /\ Used(b) = f[n]
<1> DEFINE z == 0
           g == [p \in Nat \X (1..n) |-> p[1] + Size[b[p[2]]]]
<1>1. n \in Nat /\ z \in Nat
  BY LenProperties
<1>2. g \in [Nat \X (1..n) -> Nat]
  <2>1. ASSUME NEW p \in Nat \X (1..n) PROVE p[1] + Size[b[p[2]]] \in Nat
    BY ElementOfSeq, SizeAssumption
  <2> QED BY <2>1
<1>3. \A t \in Nat, i \in 1..n : g[<<t, i>>] = t + Size[b[i]]
  OBVIOUS
<1> HIDE DEF g, z
<1>4. \E f \in [0..n -> Nat] : Steps(f, z, n, g)
  BY <1>1, <1>2, StepByStep
<1>5. PICK f \in [0..n -> Nat] : f[0] = z /\ \A i \in 1..n : f[i] = g[<<f[i - 1], i>>]
  BY <1>4 DEF Steps
<1>6. \A i \in 1..n : f[i] = f[i - 1] + Size[b[i]]
  <2> TAKE i \in 1..n
  <2>1. f[i - 1] \in Nat
    BY <1>1
  <2> QED BY <1>3, <1>5, <2>1
<1> DEFINE s == [i \in 0..n |-> IF i = 0 THEN z ELSE f[i - 1] + Size[b[i]]]
<1>7. Summed(f, b)
  <2>1. \A i \in 0..n : f[i] = s[i]
    BY <1>1, <1>5, <1>6
  <2>2. f = s
    BY <2>1
  <2> QED BY <2>2 DEF Summed, z
<1> DEFINE c == CHOOSE h : Summed(h, b)
<1>8. Summed(c, b) /\ Used(b) = c[n]
  <2>1. \E h : Summed(h, b)
    BY <1>7
  <2>2. Used(b) = c[Len(b)]
    BY DEF Used, Summed
  <2> QED BY <2>1, <2>2
<1> HIDE DEF s, c
<1> DEFINE T == {k \in Nat : k <= n => c[k] = f[k]}
<1>9. 0 \in T
  BY <1>1, <1>5, <1>8 DEF Summed, z
<1>10. ASSUME NEW k \in Nat, k \in T PROVE k + 1 \in T
  <2> SUFFICES ASSUME k + 1 <= n PROVE c[k + 1] = f[k + 1]
    OBVIOUS
  <2>1. k + 1 \in 1..n /\ k + 1 \in 0..n /\ (k + 1) - 1 = k /\ k + 1 # 0
    BY <1>1
  <2>2. c[k + 1] = c[k] + Size[b[k + 1]]
    BY <1>8, <2>1 DEF Summed
  <2>3. f[k + 1] = f[k] + Size[b[k + 1]]
    BY <1>6, <2>1
  <2>4. c[k] = f[k]
    BY <1>10, <1>1
  <2> QED BY <2>2, <2>3, <2>4
<1> HIDE DEF T
<1>11. n \in T
  BY <1>1, <1>9, <1>10, UpFromZero
<1>12. Used(b) = f[n]
  BY <1>1, <1>8, <1>11 DEF T
<1> QED BY <1>5, <1>6, <1>12 DEF Summing, z

(* An empty block uses no space, and one record more uses its size.         *)
LEMMA UsedAppend ==
  ASSUME NEW b \in Seq(Record)
  PROVE  /\ Used(b) \in Nat
         /\ b = <<>> => Used(b) = 0
         /\ \A e \in Record : Used(Append(b, e)) = Used(b) + Size[e]
<1> DEFINE n == Len(b)
<1>1. n \in Nat
  BY LenProperties
<1>2. PICK f \in [0..n -> Nat] : Summing(f, b, n) /\ Used(b) = f[n]
  BY UsedSteps
<1>3. ASSUME NEW e \in Record PROVE Used(Append(b, e)) = Used(b) + Size[e]
  <2> DEFINE t == Append(b, e)
  <2>1. t \in Seq(Record) /\ Len(t) = n + 1
        /\ t[n + 1] = e /\ \A i \in 1..n : t[i] = b[i]
    OBVIOUS
  <2> HIDE DEF t, n
  <2>2. PICK h \in [0..n + 1 -> Nat] : Summing(h, t, n + 1) /\ Used(t) = h[n + 1]
    BY <2>1, UsedSteps
  <2> DEFINE T == {k \in Nat : k <= n => h[k] = f[k]}
  <2>3. 0 \in T
    BY <1>2, <2>2 DEF Summing
  <2>4. ASSUME NEW k \in Nat, k \in T PROVE k + 1 \in T
    <3> SUFFICES ASSUME k + 1 <= n PROVE h[k + 1] = f[k + 1]
      OBVIOUS
    <3>1. k + 1 \in 1..n /\ k + 1 \in 1..n + 1 /\ (k + 1) - 1 = k
      BY <1>1
    <3>2. h[k] = f[k]
      BY <2>4, <1>1
    <3>3. h[k + 1] = h[k] + Size[t[k + 1]]
      BY <2>2, <3>1 DEF Summing
    <3>4. f[k + 1] = f[k] + Size[b[k + 1]]
      BY <1>2, <3>1 DEF Summing
    <3> QED BY <2>1, <3>1, <3>2, <3>3, <3>4
  <2> HIDE DEF T
  <2>5. n \in T
    BY <1>1, <2>3, <2>4, UpFromZero
  <2>6. h[n] = f[n]
    BY <2>5 DEF T
  <2>7. n + 1 \in 1..n + 1 /\ (n + 1) - 1 = n
    BY <1>1
  <2>8. h[n + 1] = h[n] + Size[t[n + 1]]
    BY <2>2, <2>7 DEF Summing
  <2> QED BY <1>2, <2>1, <2>2, <2>6, <2>8 DEF t
<1>4. b = <<>> => n = 0
  BY EmptySeq
<1> HIDE DEF n
<1> QED BY <1>1, <1>2, <1>3, <1>4 DEF Summing

-----------------------------------------------------------------------------
(* What is in a sequence.                                                   *)
LEMMA InSequences ==
  ASSUME NEW S, NEW s \in Seq(S)
  PROVE  /\ ToSet(s) \in SUBSET S
         /\ s = <<>> => ToSet(s) = {}
         /\ s # <<>> => Head(s) \in ToSet(s)
         /\ \A i \in DOMAIN s : s[i] \in ToSet(s)
         /\ \A t \in Seq(S) : ToSet(s \o t) = ToSet(s) \cup ToSet(t)
         /\ \A e \in S : ToSet(Append(s, e)) = ToSet(s) \cup {e}
<1>1. DOMAIN s = 1..Len(s) /\ Len(s) \in Nat
  BY LenProperties
<1>2. ToSet(s) \in SUBSET S /\ \A i \in DOMAIN s : s[i] \in ToSet(s)
  BY <1>1, ElementOfSeq DEF ToSet
<1>3. s = <<>> => ToSet(s) = {}
  BY <1>1, EmptySeq DEF ToSet
<1>4. s # <<>> => Head(s) \in ToSet(s)
  BY <1>1, EmptySeq DEF ToSet
<1>5. ASSUME NEW t \in Seq(S) PROVE ToSet(s \o t) = ToSet(s) \cup ToSet(t)
  <2> DEFINE u == s \o t
  <2>1. /\ u \in Seq(S) /\ Len(u) = Len(s) + Len(t)
        /\ \A i \in 1 .. Len(s) + Len(t) : u[i] = IF i <= Len(s) THEN s[i] ELSE t[i - Len(s)]
    BY ConcatProperties
  <2> HIDE DEF u
  <2>2. DOMAIN t = 1..Len(t) /\ Len(t) \in Nat /\ DOMAIN u = 1 .. Len(s) + Len(t)
    BY <2>1, LenProperties
  <2>3. ASSUME NEW i \in DOMAIN u PROVE u[i] \in ToSet(s) \cup ToSet(t)
    <3>1. CASE i <= Len(s)
      <4>1. i \in 1..Len(s) /\ u[i] = s[i]
        BY <1>1, <2>1, <2>2, <3>1
      <4> QED BY <1>1, <4>1 DEF ToSet
    <3>2. CASE ~(i <= Len(s))
      <4>1. i - Len(s) \in 1..Len(t) /\ u[i] = t[i - Len(s)]
        BY <1>1, <2>1, <2>2, <3>2
      <4> QED BY <2>2, <4>1 DEF ToSet
    <3> QED BY <3>1, <3>2
  <2>4. ASSUME NEW i \in DOMAIN s PROVE s[i] \in ToSet(u)
    <3>1. i \in DOMAIN u /\ u[i] = s[i]
      BY <1>1, <2>1, <2>2
    <3> QED BY <3>1 DEF ToSet
  <2>5. ASSUME NEW i \in DOMAIN t PROVE t[i] \in ToSet(u)
    <3>1. Len(s) + i \in 1 .. Len(s) + Len(t) /\ ~(Len(s) + i <= Len(s))
          /\ (Len(s) + i) - Len(s) = i
      BY <1>1, <2>2
    <3>2. u[Len(s) + i] = t[i]
      BY <2>1, <3>1
    <3> QED BY <2>2, <3>1, <3>2 DEF ToSet
  <2>6. ToSet(u) = ToSet(s) \cup ToSet(t)
    BY <2>3, <2>4, <2>5 DEF ToSet
  <2> QED BY <2>6 DEF u
<1>6. ASSUME NEW e \in S PROVE ToSet(Append(s, e)) = ToSet(s) \cup {e}
  <2> DEFINE u == Append(s, e)
  <2>1. /\ u \in Seq(S) /\ Len(u) = Len(s) + 1 /\ u[Len(s) + 1] = e
        /\ \A i \in 1..Len(s) : u[i] = s[i]
    OBVIOUS
  <2> HIDE DEF u
  <2>2. DOMAIN u = 1 .. Len(s) + 1
    BY <2>1, LenProperties
  <2>3. \A i \in 1 .. Len(s) + 1 : i \in 1..Len(s) \/ i = Len(s) + 1
    BY <1>1
  <2>4. \A i \in DOMAIN u : u[i] \in ToSet(s) \cup {e}
    BY <1>1, <2>1, <2>2, <2>3 DEF ToSet
  <2>5. e \in ToSet(u) /\ \A i \in DOMAIN s : s[i] \in ToSet(u)
    BY <1>1, <2>1, <2>2 DEF ToSet
  <2>6. ToSet(u) = ToSet(s) \cup {e}
    BY <2>4, <2>5 DEF ToSet
  <2> QED BY <2>6 DEF u
<1> QED BY <1>2, <1>3, <1>4, <1>5, <1>6

(* Two sets of records whose pairs are in a relation, and a sequence each   *)
(* of whose records is related to those behind it.                          *)
Apart(R, X, Y) == \A r \in X, q \in Y : <<r, q>> \in R
Sorted(R, s) == \A i, j \in DOMAIN s : i < j => <<s[i], s[j]>> \in R

(* Two sequences, one behind the other, are sorted when each is and all of  *)
(* the first are related to all of the second.                              *)
LEMMA SortedConcat ==
  ASSUME NEW S, NEW R \in SUBSET (S \X S), NEW s \in Seq(S), NEW t \in Seq(S)
  PROVE  Sorted(R, s \o t)
           <=> Sorted(R, s) /\ Sorted(R, t) /\ Apart(R, ToSet(s), ToSet(t))
<1> DEFINE u == s \o t
<1>1. /\ u \in Seq(S) /\ Len(u) = Len(s) + Len(t)
      /\ \A i \in 1 .. Len(s) + Len(t) : u[i] = IF i <= Len(s) THEN s[i] ELSE t[i - Len(s)]
  BY ConcatProperties
<1> HIDE DEF u
<1>2. /\ DOMAIN s = 1..Len(s) /\ DOMAIN t = 1..Len(t) /\ DOMAIN u = 1 .. Len(s) + Len(t)
      /\ Len(s) \in Nat /\ Len(t) \in Nat
  BY <1>1, LenProperties
<1>3. \A i \in DOMAIN s : i \in DOMAIN u /\ u[i] = s[i] /\ i <= Len(s)
  BY <1>1, <1>2
<1>4. \A i \in DOMAIN t : Len(s) + i \in DOMAIN u /\ u[Len(s) + i] = t[i] /\ i \in Nat
                          /\ Len(s) + i > Len(s)
  <2> TAKE i \in DOMAIN t
  <2>1. Len(s) + i \in 1 .. Len(s) + Len(t) /\ ~(Len(s) + i <= Len(s))
        /\ (Len(s) + i) - Len(s) = i
    BY <1>2
  <2> QED BY <1>1, <1>2, <2>1
<1>5. \A i \in DOMAIN u : i \in DOMAIN s \/ \E j \in DOMAIN t : i = Len(s) + j
  <2> TAKE i \in DOMAIN u
  <2>1. i \notin DOMAIN s => i - Len(s) \in DOMAIN t /\ i = Len(s) + (i - Len(s))
    BY <1>2
  <2> QED BY <2>1
<1>6. ASSUME Sorted(R, u)
      PROVE  Sorted(R, s) /\ Sorted(R, t) /\ Apart(R, ToSet(s), ToSet(t))
  <2>1. Sorted(R, s)
    BY <1>3, <1>6 DEF Sorted
  <2>2. ASSUME NEW i \in DOMAIN t, NEW j \in DOMAIN t, i < j
        PROVE  <<t[i], t[j]>> \in R
    <3>1. Len(s) + i < Len(s) + j
      BY <1>2, <2>2
    <3> QED BY <1>4, <1>6, <3>1 DEF Sorted
  <2>3. ASSUME NEW i \in DOMAIN s, NEW j \in DOMAIN t
        PROVE  <<s[i], t[j]>> \in R
    <3>1. i < Len(s) + j
      BY <1>2
    <3> QED BY <1>3, <1>4, <1>6, <3>1 DEF Sorted
  <2> QED BY <2>1, <2>2, <2>3 DEF Sorted, Apart, ToSet
<1>7. ASSUME Sorted(R, s), Sorted(R, t), Apart(R, ToSet(s), ToSet(t)),
             NEW i \in DOMAIN u, NEW j \in DOMAIN u, i < j
      PROVE  <<u[i], u[j]>> \in R
  <2>1. CASE i \in DOMAIN s /\ j \in DOMAIN s
    BY <1>3, <1>7, <2>1 DEF Sorted
  <2>2. CASE i \in DOMAIN s /\ j \notin DOMAIN s
    <3>1. PICK k \in DOMAIN t : j = Len(s) + k
      BY <1>5, <2>2
    <3>2. u[i] = s[i] /\ u[j] = t[k] /\ s[i] \in ToSet(s) /\ t[k] \in ToSet(t)
      BY <1>3, <1>4, <2>2, <3>1 DEF ToSet
    <3> QED BY <1>7, <3>2 DEF Apart
  <2>3. CASE i \notin DOMAIN s
    <3>1. PICK h \in DOMAIN t : i = Len(s) + h
      BY <1>5, <2>3
    <3>2. j \notin DOMAIN s
      BY <1>2, <1>7, <3>1
    <3>3. PICK k \in DOMAIN t : j = Len(s) + k
      BY <1>5, <3>2
    <3>4. h < k
      BY <1>2, <1>7, <3>1, <3>3
    <3> QED BY <1>4, <1>7, <3>1, <3>3, <3>4 DEF Sorted
  <2> QED BY <2>1, <2>2, <2>3
<1>8. Sorted(R, u) <=> Sorted(R, s) /\ Sorted(R, t) /\ Apart(R, ToSet(s), ToSet(t))
  <2>1. Sorted(R, s) /\ Sorted(R, t) /\ Apart(R, ToSet(s), ToSet(t)) => Sorted(R, u)
    BY <1>7 DEF Sorted
  <2> QED BY <1>6, <2>1
<1> QED BY <1>8 DEF u

(* A record alone is a sorted sequence.                                     *)
LEMMA OneAlone ==
  ASSUME NEW S, NEW e \in S
  PROVE  <<e>> \in Seq(S) /\ ToSet(<<e>>) = {e} /\ \A R : Sorted(R, <<e>>)
<1>1. <<e>> \in Seq(S) /\ Len(<<e>>) = 1 /\ <<e>>[1] = e /\ DOMAIN <<e>> = 1..1
  OBVIOUS
<1>2. ToSet(<<e>>) = {e}
  BY <1>1 DEF ToSet
<1>3. \A R : Sorted(R, <<e>>)
  BY <1>1 DEF Sorted
<1> QED BY <1>1, <1>2, <1>3

(* The same for a record that is appended.                                  *)
LEMMA SortedAppend ==
  ASSUME NEW S, NEW R \in SUBSET (S \X S), NEW s \in Seq(S), NEW e \in S
  PROVE  Sorted(R, Append(s, e)) <=> Sorted(R, s) /\ Apart(R, ToSet(s), {e})
<1> DEFINE t == <<e>>
           a == Append(s, e)
           c == s \o t
<1>1. t \in Seq(S) /\ ToSet(t) = {e} /\ Sorted(R, t)
  BY OneAlone
<1>2. a \in Seq(S)
  OBVIOUS
<1>3. c \in Seq(S)
  BY <1>1, ConcatProperties
<1>4. a = c
  BY AppendIsConcat
<1> HIDE DEF t
<1>5. Sorted(R, c) <=> Sorted(R, s) /\ Sorted(R, t) /\ Apart(R, ToSet(s), ToSet(t))
  BY <1>1, SortedConcat
<1> HIDE DEF a, c
<1>6. Sorted(R, a) <=> Sorted(R, s) /\ Apart(R, ToSet(s), {e})
  BY <1>1, <1>4, <1>5
<1> QED BY <1>6 DEF a

(* Only takes the records that are in the set, and leaves them their order. *)
LEMMA OnlyKeeps ==
  ASSUME NEW S \in SUBSET Record, NEW R \in SUBSET (Record \X Record)
  PROVE  \A s \in Seq(Record) :
           /\ ToSet(Only(s, S)) = ToSet(s) \cap S
           /\ Sorted(R, s) => Sorted(R, Only(s, S))
<1> DEFINE P == {s \in Seq(Record) : /\ ToSet(Only(s, S)) = ToSet(s) \cap S
                                     /\ Sorted(R, s) => Sorted(R, Only(s, S))}
<1>1. <<>> \in P
  <2>1. <<>> \in Seq(Record)
    BY EmptySeq
  <2>2. Only(<<>>, S) = <<>>
    BY <2>1, OnlyAppend
  <2>3. ToSet(<<>>) = {}
    BY <2>1, InSequences
  <2> QED BY <2>1, <2>2, <2>3
<1>2. ASSUME NEW s \in Seq(Record), NEW e \in Record, s \in P PROVE Append(s, e) \in P
  <2> DEFINE a == Append(s, e)
             o == Only(s, S)
             b == Append(o, e)
  <2>1. a \in Seq(Record) /\ o \in Seq(Record)
        /\ Only(a, S) = IF e \in S THEN b ELSE o
    BY OnlyAppend
  <2>2. ToSet(a) = ToSet(s) \cup {e}
    BY InSequences
  <2>3. ToSet(o) = ToSet(s) \cap S /\ (Sorted(R, s) => Sorted(R, o))
    BY <1>2
  <2>4. Sorted(R, a) <=> Sorted(R, s) /\ Apart(R, ToSet(s), {e})
    BY SortedAppend
  <2> HIDE DEF a, o
  <2>5. ToSet(b) = ToSet(o) \cup {e}
        /\ (Sorted(R, b) <=> Sorted(R, o) /\ Apart(R, ToSet(o), {e}))
    BY <2>1, InSequences, SortedAppend
  <2> HIDE DEF b
  <2>6. Apart(R, ToSet(s), {e}) => Apart(R, ToSet(o), {e})
    BY <2>3 DEF Apart
  <2>7. ToSet(Only(a, S)) = ToSet(a) \cap S
    BY <2>1, <2>2, <2>3, <2>5
  <2>8. Sorted(R, a) => Sorted(R, Only(a, S))
    BY <2>1, <2>3, <2>4, <2>5, <2>6
  <2> QED BY <2>1, <2>7, <2>8 DEF a
<1> HIDE DEF P
<1>3. \A s \in Seq(Record) : s \in P
  BY <1>1, <1>2, OneAfterAnother
<1> QED BY <1>3 DEF P

(* The same of one record more, for any sequence.                           *)
LEMMA OnlyOneMore ==
  ASSUME NEW t \in Seq(Record), NEW S \in SUBSET Record, NEW e \in Record
  PROVE  Only(Append(t, e), S) = IF e \in S THEN Append(Only(t, S), e) ELSE Only(t, S)
BY OnlyAppend

(* What Only takes from two sequences, one behind the other.                *)
LEMMA OnlyConcat ==
  ASSUME NEW S \in SUBSET Record, NEW s \in Seq(Record)
  PROVE  \A t \in Seq(Record) : Only(s \o t, S) = Only(s, S) \o Only(t, S)
<1> DEFINE o == Only(s, S)
           P == {t \in Seq(Record) : Only(s \o t, S) = o \o Only(t, S)}
<1>0. o \in Seq(Record)
  BY OnlyAppend
<1> HIDE DEF o
<1>1. <<>> \in P
  <2>1. <<>> \in Seq(Record)
    BY EmptySeq
  <2>2. Only(<<>>, S) = <<>>
    BY <2>1, OnlyAppend
  <2>3. s \o <<>> = s /\ o \o <<>> = o
    BY <1>0, ConcatEmptySeq
  <2> QED BY <2>1, <2>2, <2>3 DEF o
<1>2. ASSUME NEW t \in Seq(Record), NEW e \in Record, t \in P PROVE Append(t, e) \in P
  <2> DEFINE u == s \o t
             p == Only(t, S)
             v == Append(t, e)
             q == Append(p, e)
  <2>1. u \in Seq(Record) /\ p \in Seq(Record) /\ v \in Seq(Record)
        /\ Only(v, S) = IF e \in S THEN q ELSE p
    BY ConcatProperties, OnlyAppend
  <2>2. Only(u, S) = o \o p
    BY <1>2
  <2>3. s \o v = Append(u, e)
    BY AppendBehind
  <2> HIDE DEF u, p, v
  <2>4. Only(Append(u, e), S) = IF e \in S THEN Append(Only(u, S), e) ELSE Only(u, S)
    BY <2>1, OnlyOneMore
  <2>5. o \o q = Append(o \o p, e)
    BY <1>0, <2>1, AppendBehind
  <2> HIDE DEF q
  <2>6. Only(s \o v, S) = o \o Only(v, S)
    BY <2>1, <2>2, <2>3, <2>4, <2>5
  <2> QED BY <2>1, <2>6 DEF v
<1> HIDE DEF P
<1>3. \A t \in Seq(Record) : t \in P
  BY <1>1, <1>2, OneAfterAnother
<1> QED BY <1>3 DEF P, o

(* Taking twice is taking what is in both sets; taking all or nothing.      *)
LEMMA OnlyTwice ==
  ASSUME NEW S \in SUBSET Record, NEW T \in SUBSET Record
  PROVE  \A s \in Seq(Record) :
           /\ Only(Only(s, S), T) = Only(s, S \cap T)
           /\ ToSet(s) \subseteq S => Only(s, S) = s
           /\ ToSet(s) \cap S = {} => Only(s, S) = <<>>
<1> DEFINE U == S \cap T
           P == {s \in Seq(Record) :
                   /\ Only(Only(s, S), T) = Only(s, U)
                   /\ ToSet(s) \subseteq S => Only(s, S) = s
                   /\ ToSet(s) \cap S = {} => Only(s, S) = <<>>}
<1>0. U \in SUBSET Record
  OBVIOUS
<1>1. <<>> \in P
  <2>1. <<>> \in Seq(Record)
    BY EmptySeq
  <2>2. Only(<<>>, S) = <<>> /\ Only(<<>>, T) = <<>> /\ Only(<<>>, U) = <<>>
    BY <1>0, <2>1, OnlyAppend
  <2> QED BY <2>1, <2>2
<1>2. ASSUME NEW s \in Seq(Record), NEW e \in Record, s \in P PROVE Append(s, e) \in P
  <2> DEFINE a == Append(s, e)
             o == Only(s, S)
             p == Only(s, U)
             b == Append(o, e)
             c == Append(p, e)
  <2>1. /\ a \in Seq(Record) /\ o \in Seq(Record)
        /\ Only(a, S) = (IF e \in S THEN b ELSE o)
        /\ Only(a, U) = (IF e \in U THEN c ELSE p)
    <3>1. a \in Seq(Record) /\ o \in Seq(Record) /\ Only(a, S) = IF e \in S THEN b ELSE o
      BY OnlyAppend
    <3> HIDE DEF U
    <3>2. Only(a, U) = IF e \in U THEN c ELSE p
      BY <1>0, OnlyAppend
    <3> QED BY <3>1, <3>2
  <2>2. ToSet(a) = ToSet(s) \cup {e}
    BY InSequences
  <2>3. /\ Only(o, T) = p
        /\ ToSet(s) \subseteq S => o = s
        /\ ToSet(s) \cap S = {} => o = <<>>
    BY <1>2
  <2> HIDE DEF o, p, U
  <2>4. Only(b, T) = IF e \in T THEN Append(Only(o, T), e) ELSE Only(o, T)
    <3>1. o \in Seq(Record)
      BY <2>1
    <3> QED BY <3>1, OnlyOneMore
  <2> HIDE DEF b
  <2>5. Only(Only(a, S), T) = Only(a, U)
    <3>1. CASE e \in S /\ e \in T
      BY <2>1, <2>3, <2>4, <3>1 DEF U
    <3>2. CASE e \in S /\ e \notin T
      BY <2>1, <2>3, <2>4, <3>2 DEF U
    <3>3. CASE e \notin S
      BY <2>1, <2>3, <3>3 DEF U
    <3> QED BY <3>1, <3>2, <3>3
  <2>6. ToSet(a) \subseteq S => Only(a, S) = a
    BY <2>1, <2>2, <2>3 DEF b
  <2> HIDE DEF a
  <2>7. ToSet(a) \cap S = {} => Only(a, S) = <<>>
    BY <2>1, <2>2, <2>3
  <2>8. a \in P
    BY <2>1, <2>5, <2>6, <2>7
  <2> QED BY <2>8 DEF a
<1> HIDE DEF P
<1>3. \A s \in Seq(Record) : s \in P
  BY <1>1, <1>2, OneAfterAnother
<1> QED BY <1>3 DEF P

-----------------------------------------------------------------------------
(* The part of the types that the block numbers depend on.                  *)
Types ==
  /\ blocks \in Seq(Seq(Record)) /\ buffer \in Seq(Record) /\ wlog \in Seq(Record)
  /\ readOff \in Nat /\ writeOff \in Nat /\ readblock \in Nat /\ writeblock \in Nat
  /\ mutex \in {"free", "writer", "reader"} /\ file \in {"open", "closed"}
  /\ writer \in {"select", "append", "header", "store", "exited"}
  /\ reader \in {"poll", "zero", "truncate", "advance", "sub", "groups"}
  /\ crashes \in Nat
  /\ writer = "store" => wlog # <<>>

(* Whoever holds the lock is at one of its own steps.                       *)
LockInv ==
  /\ mutex = "writer" <=> writer = "header"
  /\ reader \in {"zero", "truncate", "advance"} => mutex = "reader"

(* The header and the numbers in memory, at every step of who holds the     *)
(* lock; the header alone is what a crash leaves.                           *)
OffInv ==
  file = "open" =>
    /\ writeOff <= Len(blocks)
    /\ reader \notin {"zero", "truncate", "advance"} =>
         readOff = readblock /\ writeOff = writeblock
    /\ writer = "header" => writeblock < Len(blocks)
    /\ reader \in {"zero", "truncate"} => readblock = 0 /\ writeblock = 0
    /\ reader = "truncate" => writeOff = 0
    /\ reader = "advance" => writeOff = writeblock
    /\ crashes = 0 => readblock <= writeblock

IInv == Types /\ LockInv /\ OffInv

(* NewFileLog leaves a header that agrees with the empty file.              *)
LEMMA InitInv == Init => IInv
  BY EmptySeq DEF Init, IInv, Types, LockInv, OffInv

(* Appending a block, or writing it over one that is left from before.      *)
LEMMA BlocksStep ==
  ASSUME Types, AppendBlock
  PROVE  blocks' \in Seq(Seq(Record)) /\ Len(blocks') >= Len(blocks)
         /\ (writeblock <= Len(blocks) => writeblock < Len(blocks'))
<1>1. CASE writeblock < Len(blocks)
  <2>1. /\ blocks \in Seq(Seq(Record)) /\ writeblock + 1 \in 1..Len(blocks)
        /\ blocks' = [blocks EXCEPT ![writeblock + 1] = buffer]
        /\ buffer \in Seq(Record)
    BY <1>1, LenProperties DEF Types, AppendBlock
  <2>2. blocks' \in Seq(Seq(Record)) /\ Len(blocks') = Len(blocks)
    BY <2>1, ExceptSeq
  <2> QED BY <1>1, <2>1, <2>2, LenProperties
<1>2. CASE ~(writeblock < Len(blocks))
  BY <1>2 DEF Types, AppendBlock
<1> QED BY <1>1, <1>2

(* No step leaves the types.                                                *)
LEMMA TypesStep == ASSUME Types, Next PROVE Types'
<1> USE EmptySeq DEF Types
<1>1. ASSUME NEW r \in Record, Write(r) PROVE Types'
  <2>1. <<r>> \in Seq(Record) /\ <<r>> # <<>>
    OBVIOUS
  <2> QED BY <1>1, <2>1 DEF Write, disk, numbers, reading, failing
<1>2. CASE Tick \/ Close
  BY <1>2 DEF Tick, Close, disk, numbers, reading, failing
<1>3. CASE AppendBlock
  BY <1>3, BlocksStep DEF AppendBlock, numbers, reading, failing
<1>4. CASE AppendFails \/ AppendHeader
  <2>1. /\ blocks' = blocks /\ readOff' = readOff /\ wlog' = wlog /\ buffer' = <<>>
        /\ UNCHANGED <<readblock, reader, loaded, file, crashes>>
        /\ writer' = IF wlog = <<>> THEN "select" ELSE "store"
        /\ mutex' \in {"free", mutex}
        /\ writeblock' \in {writeblock, writeblock + 1}
        /\ writeOff' \in {writeOff, writeblock + 1}
    BY <1>4 DEF AppendFails, AppendHeader, Reset, AfterAppend, disk, numbers, reading,
                failing
  <2> QED BY <2>1
<1>5. CASE Store
  <2>1. Head(wlog) \in Record
    BY <1>5 DEF Store
  <2>2. buffer' \in Seq(Record)
    <3>1. buffer' = Append(buffer, Head(wlog)) \/ buffer' = buffer
      BY <1>5 DEF Store
    <3>2. buffer \in Seq(Record)
      OBVIOUS
    <3>3. Append(buffer, Head(wlog)) \in Seq(Record)
      BY <2>1, <3>2, AppendProperties
    <3> QED BY <3>1, <3>2, <3>3
  <2>3. /\ writer' = "select" /\ wlog' = <<>>
        /\ UNCHANGED <<disk, numbers, mutex, reading, file, crashes>>
    BY <1>5 DEF Store
  <2> QED BY <2>2, <2>3 DEF disk, numbers, reading
<1>6. CASE GetBlock \/ ReadFails
  BY <1>6 DEF GetBlock, ReadFails, disk, numbers, writing, reading, failing
<1>7. CASE ZeroWriteOff \/ Truncate \/ Advance
  <2>1. /\ reader' \in {"truncate", "advance", "sub"} /\ mutex' \in {"free", mutex}
        /\ blocks' \in {blocks, <<>>} /\ writeOff' \in {0, writeOff}
        /\ readOff' \in {readOff, readblock}
        /\ UNCHANGED <<numbers, writing, file, crashes>>
    BY <1>7 DEF ZeroWriteOff, Truncate, Advance, NewReadOff, failing
  <2>2. blocks' \in Seq(Seq(Record))
    BY <2>1
  <2>3. /\ readOff' \in Nat /\ writeOff' \in Nat
        /\ mutex' \in {"free", "writer", "reader"}
        /\ reader' \in {"poll", "zero", "truncate", "advance", "sub", "groups"}
    BY <2>1
  <2> QED BY <2>1, <2>2, <2>3 DEF numbers, writing
<1>8. CASE SaveChats \/ SaveChatsFails \/ SaveGroups \/ SaveGroupsFails
  BY <1>8 DEF SaveChats, SaveChatsFails, SaveGroups, SaveGroupsFails, Poll, disk,
              numbers, writing, failing
<1>9. CASE Crash
  BY <1>9 DEF Crash, Reopened, disk, failing
<1> QED BY <1>1, <1>2, <1>3, <1>4, <1>5, <1>6, <1>7, <1>8, <1>9
        DEF Next, Writer, Reader

(* Who takes the lock gives it back, and nobody else moves the numbers.     *)
LEMMA OffStep == ASSUME IInv, Next PROVE LockInv' /\ OffInv'
<1> USE DEF IInv, Types, LockInv, OffInv
<1>0. Len(blocks) \in Nat
  BY LenProperties
<1>1. ASSUME NEW r \in Record, Write(r) PROVE LockInv' /\ OffInv'
  BY <1>1 DEF Write, disk, numbers, reading, failing
<1>2. CASE Tick \/ Close
  BY <1>2 DEF Tick, Close, disk, numbers, reading, failing
<1>3. CASE AppendBlock
  BY <1>0, <1>3, BlocksStep, TypesStep, LenProperties
     DEF AppendBlock, numbers, reading, failing
<1>4. CASE AppendFails
  BY <1>4 DEF AppendFails, AfterAppend, disk, numbers, reading
<1>5. CASE AppendHeader
  BY <1>0, <1>5 DEF AppendHeader, AfterAppend, reading, failing
<1>6. CASE Store
  BY <1>6 DEF Store, disk, numbers, reading, failing
<1>7. CASE GetBlock
  BY <1>0, <1>7 DEF GetBlock, disk, writing, failing
<1>8. CASE ReadFails
  BY <1>8 DEF ReadFails, disk, numbers, writing, reading
<1>9. CASE ZeroWriteOff
  BY <1>0, <1>9 DEF ZeroWriteOff, numbers, writing, failing
<1>10. CASE Truncate
  BY <1>0, <1>10, EmptySeq DEF Truncate, numbers, writing, failing
<1>11. CASE Advance
  BY <1>11 DEF Advance, NewReadOff, numbers, writing, failing
<1>12. CASE SaveChats \/ SaveChatsFails \/ SaveGroups \/ SaveGroupsFails
  BY <1>12 DEF SaveChats, SaveChatsFails, SaveGroups, SaveGroupsFails, Poll, disk,
               numbers, writing, failing
<1>13. CASE Crash
  BY <1>13 DEF Crash, Reopened, disk, failing
<1> QED BY <1>1, <1>2, <1>3, <1>4, <1>5, <1>6, <1>7, <1>8, <1>9, <1>10, <1>11,
           <1>12, <1>13 DEF Next, Writer, Reader

(* While nobody holds the lock, the header of the file agrees with the      *)
(* numbers in memory, the file has every block they speak of, and before a  *)
(* crash the reader is not ahead of the writer.                             *)
THEOREM LogHeader == Spec => []HeaderInStep
<1>1. IInv /\ UNCHANGED vars => IInv'
  BY DEF IInv, Types, LockInv, OffInv, vars, disk, numbers, writing, reading, failing
<1>2. IInv /\ [Next]_vars => IInv'
  BY <1>1, TypesStep, OffStep DEF IInv
<1>3. IInv => HeaderInStep
  BY DEF IInv, LockInv, OffInv, HeaderInStep
<1> QED BY InitInv, <1>2, <1>3, PTL DEF Spec

-----------------------------------------------------------------------------
(* The other types, and the space that is left in the block.                *)
OtherTypes ==
  /\ loaded \in Seq(Record) /\ call \in [Record -> {"idle", "wait", "logged", "refused", "gone"}]
  /\ logged \in Seq(Record) /\ handed \in Seq(Record) /\ saved \in Seq(Record)
  /\ dropped \in SUBSET Record /\ unsaved \in SUBSET Record
  /\ faults \in Nat /\ crashes + faults <= MaxTrouble
  /\ Used(buffer) <= BlockSize

(* No step leaves these types either: a record is stored when it has space. *)
LEMMA OtherTypesStep == ASSUME IInv, OtherTypes, Next PROVE OtherTypes'
<1> USE DEF OtherTypes
<1>0. /\ <<>> \in Seq(Record) /\ Types /\ crashes \in Nat /\ buffer \in Seq(Record) /\ wlog \in Seq(Record)
      /\ blocks \in Seq(Seq(Record)) /\ readblock \in Nat
      /\ writer = "store" => wlog # <<>>
      /\ BlockSize \in Nat /\ MaxTrouble \in Nat /\ Used(<<>>) = 0
  BY EmptySeq, UsedAppend, BoundAssumption DEF IInv, Types
<1>1. ASSUME NEW r \in Record, Write(r) PROVE OtherTypes'
  BY <1>1 DEF Write, disk, numbers, reading, failing, saving
<1>2. CASE Tick \/ Close \/ AppendBlock
  BY <1>2 DEF Tick, Close, AppendBlock, disk, numbers, reading, failing, saving, outcome
<1>3. CASE AppendFails
  <2>1. ToSet(buffer) \in SUBSET Record
    BY <1>0, InSequences
  <2> QED BY <1>0, <1>3, <2>1 DEF AppendFails, Reset, Fault, reading, saving, outcome
<1>4. CASE AppendHeader
  BY <1>0, <1>4 DEF AppendHeader, Reset, reading, failing, saving, outcome
<1>5. CASE Store
  <2> DEFINE r == Head(wlog)
  <2>1. r \in Record
    BY <1>0, <1>5 DEF Store
  <2>2. Used(buffer) \in Nat /\ Used(Append(buffer, r)) = Used(buffer) + Size[r]
        /\ Size[r] \in Nat
    BY <1>0, <2>1, UsedAppend, SizeAssumption
  <2>3. UNCHANGED <<loaded, handed, saved, dropped, unsaved, faults, crashes>>
    BY <1>5 DEF Store, reading, failing, saving
  <2>4. CASE HasSpace(r) /\ buffer' = Append(buffer, r) /\ logged' = Append(logged, r)
             /\ call' = [call EXCEPT ![r] = "logged"]
    <3>1. BlockSize - Used(buffer) >= Size[r]
      BY <2>4 DEF HasSpace
    <3>2. Used(buffer') <= BlockSize
      <4>1. Used(buffer') = Used(buffer) + Size[r]
        BY <2>2, <2>4
      <4> HIDE DEF r
      <4> QED BY <1>0, <2>2, <3>1, <4>1
    <3>3. logged' \in Seq(Record)
      BY <2>1, <2>4
    <3>4. call' \in [Record -> {"idle", "wait", "logged", "refused", "gone"}]
      BY <2>1, <2>4
    <3> QED BY <2>3, <3>2, <3>3, <3>4
  <2>5. CASE call' = [call EXCEPT ![r] = "refused"] /\ UNCHANGED <<buffer, logged>>
    BY <2>1, <2>3, <2>5
  <2> QED BY <1>5, <2>4, <2>5 DEF Store
<1>6. CASE GetBlock
  <2>1. blocks[readblock + 1] \in Seq(Record)
    <3>1. readblock + 1 \in 1..Len(blocks)
      BY <1>0, <1>6, LenProperties DEF GetBlock
    <3> QED BY <1>0, <3>1, ElementOfSeq
  <2>2. /\ loaded' = blocks[readblock + 1] /\ UNCHANGED <<buffer, call, logged, handed>>
        /\ UNCHANGED <<saved, dropped, unsaved, faults, crashes>>
    BY <1>6 DEF GetBlock, writing, outcome, saving, failing
  <2>3. loaded' \in Seq(Record)
    BY <2>1, <2>2
  <2>4. /\ faults' \in Nat /\ crashes' + faults' <= MaxTrouble
        /\ Used(buffer') <= BlockSize
    BY <2>2
  <2>5. /\ call' \in [Record -> {"idle", "wait", "logged", "refused", "gone"}]
        /\ logged' \in Seq(Record) /\ handed' \in Seq(Record) /\ saved' \in Seq(Record)
        /\ dropped' \in SUBSET Record /\ unsaved' \in SUBSET Record
    BY <2>2
  <2> QED BY <2>3, <2>4, <2>5
<1>7. CASE ReadFails
  <2>1. /\ UNCHANGED <<loaded, buffer, call, logged, handed>>
        /\ UNCHANGED <<saved, unsaved, dropped, crashes>>
    BY <1>7 DEF ReadFails, writing, reading, outcome, saving
  <2>2. faults' \in Nat /\ crashes' + faults' <= MaxTrouble
    <3>1. UNCHANGED faults \/ Fault
      BY <1>7 DEF ReadFails
    <3> QED BY <1>0, <2>1, <3>1 DEF Fault
  <2> QED BY <2>1, <2>2
<1>8. CASE ZeroWriteOff \/ Truncate \/ Advance
  BY <1>8 DEF ZeroWriteOff, Truncate, Advance, writing, outcome, saving, failing
<1>9. CASE SaveChats \/ SaveChatsFails \/ SaveGroups \/ SaveGroupsFails
  <2>1. \A kind : OfKind(kind) \in SUBSET Record
    BY DEF OfKind
  <2>2. handed \o loaded \in Seq(Record)
    BY ConcatProperties
  <2>3. \A kind : Loaded(kind) \in Seq(Record)
    BY <2>1, OnlyAppend DEF Loaded
  <2>4. \A kind : saved \o Loaded(kind) \in Seq(Record)
    BY <2>3, ConcatProperties
  <2>5. \A kinds : Lost(kinds) \in SUBSET Record
    BY InSequences DEF Lost
  <2> HIDE DEF OfKind, Loaded, Lost
  <2>6. /\ handed' \in {handed, handed \o loaded}
        /\ saved' \in {saved, saved \o Loaded("chat"), saved \o Loaded("group")}
        /\ unsaved' \in {unsaved, unsaved \cup Lost({"group"}),
                         unsaved \cup Lost({"chat", "group"})}
        /\ loaded' \in {loaded, <<>>}
    BY <1>9 DEF SaveChats, SaveChatsFails, SaveGroups, SaveGroupsFails, Poll, outcome
  <2>7. /\ UNCHANGED <<call, logged, dropped, crashes, buffer>>
        /\ faults' = faults \/ Fault
    BY <1>9 DEF SaveChats, SaveChatsFails, SaveGroups, SaveGroupsFails, outcome, writing,
                failing
  <2>8. faults' \in Nat /\ crashes' + faults' <= MaxTrouble
    BY <1>0, <2>7 DEF Fault
  <2>9. handed' \in Seq(Record) /\ saved' \in Seq(Record) /\ unsaved' \in SUBSET Record
        /\ loaded' \in Seq(Record)
    BY <1>0, <2>2, <2>4, <2>5, <2>6
  <2>10. Used(buffer') <= BlockSize
    BY <2>7
  <2> QED BY <2>7, <2>8, <2>9, <2>10
<1>10. CASE Crash
  BY <1>0, <1>10 DEF Crash, saving, failing
<1> QED BY <1>1, <1>2, <1>3, <1>4, <1>5, <1>6, <1>7, <1>8, <1>9, <1>10
        DEF Next, Writer, Reader

-----------------------------------------------------------------------------
(* Two records in the order in which they were logged, or at least two      *)
(* different ones: always the first for the records of a block, up to two   *)
(* crashes for those in memory, and up to one for those on disk, which the  *)
(* next crash brings into memory.                                           *)
Rel(strict) ==
  {p \in Record \X Record : p[1] # p[2] /\ (strict => Place(p[1]) < Place(p[2]))}
InBlock == Rel(TRUE)
ForMemory == Rel(crashes <= 2)
ForDisk == Rel(crashes <= 1)

(* What it means for two records to be related.                             *)
LEMMA RelIs ==
  ASSUME NEW r \in Record, NEW q \in Record, NEW strict \in BOOLEAN
  PROVE  <<r, q>> \in Rel(strict) <=> r # q /\ (strict => Place(r) < Place(q))
  BY DEF Rel

(* The relations are ever weaker, from the block to memory and to disk.     *)
LEMMA Relations ==
  /\ InBlock \in SUBSET (Record \X Record) /\ ForMemory \in SUBSET (Record \X Record)
  /\ ForDisk \in SUBSET (Record \X Record)
  /\ crashes \in Nat => InBlock \subseteq ForMemory /\ ForMemory \subseteq ForDisk
  BY DEF InBlock, ForMemory, ForDisk, Rel

(* A record is logged once, and whatever is on its way was logged.          *)
Blocks == {blocks[i] : i \in DOMAIN blocks}
Contents ==
  /\ \A i, j \in DOMAIN logged : logged[i] = logged[j] => i = j
  /\ \A r \in ToSet(logged) : call[r] = "logged"
  /\ wlog # <<>> => call[Head(wlog)] = "wait"
  /\ ToSet(handed) \subseteq ToSet(logged) /\ dropped \subseteq ToSet(logged)
  /\ \A b \in Blocks \cup {loaded, buffer} :
       ToSet(b) \subseteq ToSet(logged) /\ Sorted(InBlock, b)

(* A logged record is at its place.                                         *)
LEMMA PlaceIs ==
  ASSUME OtherTypes, Contents, NEW i \in DOMAIN logged
  PROVE  Place(logged[i]) = i
  BY DEF Contents, Place

(* The place of what is logged does not change, and what comes is behind.   *)
LEMMA StoreRelations ==
  ASSUME IInv, OtherTypes, Contents, Store, logged' # logged
  PROVE  \E r \in Record :
         /\ r = Head(wlog) /\ r \notin ToSet(logged)
         /\ buffer' = Append(buffer, r) /\ logged' = Append(logged, r)
         /\ call' = [call EXCEPT ![r] = "logged"]
         /\ ToSet(logged') = ToSet(logged) \cup {r}
         /\ \A i, j \in DOMAIN logged' : logged'[i] = logged'[j] => i = j
         /\ \A q \in ToSet(logged) :
              /\ <<q, r>> \in InBlock' /\ <<q, r>> \in ForMemory' /\ <<q, r>> \in ForDisk'
              /\ \A p \in ToSet(logged) :
                   /\ <<p, q>> \in InBlock <=> <<p, q>> \in InBlock'
                   /\ <<p, q>> \in ForMemory <=> <<p, q>> \in ForMemory'
                   /\ <<p, q>> \in ForDisk <=> <<p, q>> \in ForDisk'
<1>0. /\ wlog \in Seq(Record) /\ wlog # <<>> /\ logged \in Seq(Record) /\ crashes \in Nat
      /\ crashes' = crashes /\ call \in [Record -> {"idle", "wait", "logged", "refused", "gone"}]
  BY DEF IInv, Types, OtherTypes, Store
<1>1. PICK r \in Record : r = Head(wlog) /\ call[r] = "wait"
  BY <1>0 DEF Contents
<1>2. buffer' = Append(buffer, r) /\ logged' = Append(logged, r)
      /\ call' = [call EXCEPT ![r] = "logged"]
  BY <1>1 DEF Store
<1>3. r \notin ToSet(logged)
  BY <1>1 DEF Contents
<1>4. ToSet(logged') = ToSet(logged) \cup {r} /\ ToSet(logged) \in SUBSET Record
  BY <1>0, <1>1, <1>2, InSequences
<1>5. /\ Len(logged) \in Nat /\ DOMAIN logged = 1..Len(logged)
      /\ DOMAIN logged' = 1 .. Len(logged) + 1
      /\ logged'[Len(logged) + 1] = r
      /\ \A i \in 1..Len(logged) : logged'[i] = logged[i]
  BY <1>0, <1>1, <1>2, LenProperties
<1>6. /\ \A i, j \in DOMAIN logged' : logged'[i] = logged'[j] => i = j
      /\ Place(r)' = Len(logged) + 1
  <2>1. \A i \in DOMAIN logged : logged[i] # r
    BY <1>3 DEF ToSet
  <2>2. \A i \in DOMAIN logged' : i \in DOMAIN logged \/ i = Len(logged) + 1
    BY <1>5
  <2>3. \A i, j \in DOMAIN logged' : logged'[i] = logged'[j] => i = j
    BY <1>5, <2>1, <2>2 DEF Contents
  <2> QED BY <1>5, <2>3 DEF Place
<1>7. ASSUME NEW q \in ToSet(logged)
      PROVE  Place(q)' = Place(q) /\ Place(q) \in 1..Len(logged)
  <2>1. PICK i \in DOMAIN logged : q = logged[i]
    BY DEF ToSet
  <2>2. Place(q) = i
    BY <2>1 DEF Contents, Place
  <2>3. Place(q)' = i
    <3>1. i \in DOMAIN logged' /\ logged'[i] = q
      BY <1>5, <2>1
    <3> QED BY <1>6, <3>1 DEF Place
  <2> QED BY <1>5, <2>2, <2>3
<1>8. ASSUME NEW q \in ToSet(logged)
      PROVE  <<q, r>> \in InBlock' /\ <<q, r>> \in ForMemory' /\ <<q, r>> \in ForDisk'
  <2>1. q \in Record /\ q # r /\ Place(q)' < Place(r)'
    BY <1>3, <1>4, <1>5, <1>6, <1>7
  <2> QED BY <1>1, <2>1 DEF InBlock, ForMemory, ForDisk, Rel
<1>9. ASSUME NEW q \in ToSet(logged), NEW p \in ToSet(logged)
      PROVE  /\ <<p, q>> \in InBlock <=> <<p, q>> \in InBlock'
             /\ <<p, q>> \in ForMemory <=> <<p, q>> \in ForMemory'
             /\ <<p, q>> \in ForDisk <=> <<p, q>> \in ForDisk'
  <2>1. p \in Record /\ q \in Record
    BY <1>4
  <2>2. Place(p)' = Place(p) /\ Place(q)' = Place(q)
    BY <1>7
  <2> QED BY <1>0, <2>1, <2>2 DEF InBlock, ForMemory, ForDisk, Rel
<1> QED BY <1>1, <1>2, <1>3, <1>4, <1>6, <1>8, <1>9

(* A crash weakens the relations: what holds on disk holds in memory after  *)
(* it.                                                                      *)
LEMMA CrashRelations ==
  ASSUME IInv, Crash
  PROVE  /\ InBlock' = InBlock
         /\ ForMemory \subseteq ForMemory' /\ ForDisk \subseteq ForDisk'
         /\ ForDisk \subseteq ForMemory'
<1>1. crashes \in Nat /\ crashes' = crashes + 1 /\ logged' = logged
  BY DEF IInv, Types, Crash
<1>2. \A r : Place(r)' = Place(r)
  BY <1>1 DEF Place
<1> QED BY <1>1, <1>2 DEF InBlock, ForMemory, ForDisk, Rel

(* No other step changes them but one that logs a record.                   *)
LEMMA SameRelations ==
  ASSUME UNCHANGED <<logged, crashes>>
  PROVE  InBlock' = InBlock /\ ForMemory' = ForMemory /\ ForDisk' = ForDisk
  BY DEF InBlock, ForMemory, ForDisk, Rel, Place

(* What is in the file: a block that was appended or written over another,  *)
(* or nothing.                                                              *)
LEMMA AppendedBlocks ==
  ASSUME Types, AppendBlock
  PROVE  /\ Len(blocks) \in Nat /\ DOMAIN blocks = 1..Len(blocks)
         /\ IF writeblock < Len(blocks)
            THEN /\ DOMAIN blocks' = 1..Len(blocks) /\ Len(blocks') = Len(blocks)
                 /\ writeblock + 1 \in 1..Len(blocks)
                 /\ blocks'[writeblock + 1] = buffer
                 /\ \A i \in 1..Len(blocks) : i # writeblock + 1 => blocks'[i] = blocks[i]
            ELSE /\ DOMAIN blocks' = 1 .. Len(blocks) + 1 /\ Len(blocks') = Len(blocks) + 1
                 /\ blocks'[Len(blocks) + 1] = buffer
                 /\ \A i \in 1..Len(blocks) : blocks'[i] = blocks[i]
<1>0. /\ blocks \in Seq(Seq(Record)) /\ buffer \in Seq(Record) /\ writeblock \in Nat
      /\ Len(blocks) \in Nat /\ DOMAIN blocks = 1..Len(blocks)
  BY LenProperties DEF Types
<1>1. CASE writeblock < Len(blocks)
  <2>1. writeblock + 1 \in 1..Len(blocks) /\ blocks' = [blocks EXCEPT ![writeblock + 1] = buffer]
    BY <1>0, <1>1 DEF AppendBlock
  <2>2. /\ blocks' \in Seq(Seq(Record)) /\ Len(blocks') = Len(blocks)
        /\ \A i \in 1..Len(blocks) :
             blocks'[i] = IF i = writeblock + 1 THEN buffer ELSE blocks[i]
    BY <1>0, <2>1, ExceptSeq
  <2>3. DOMAIN blocks' = 1..Len(blocks)
    BY <2>2, LenProperties
  <2> QED BY <1>0, <1>1, <2>1, <2>2, <2>3
<1>2. CASE ~(writeblock < Len(blocks))
  <2>1. blocks' = Append(blocks, buffer)
    BY <1>2 DEF AppendBlock
  <2>2. /\ blocks' \in Seq(Seq(Record)) /\ Len(blocks') = Len(blocks) + 1
        /\ blocks'[Len(blocks) + 1] = buffer
        /\ \A i \in 1..Len(blocks) : blocks'[i] = blocks[i]
    BY <1>0, <2>1
  <2>3. DOMAIN blocks' = 1 .. Len(blocks) + 1
    BY <2>2, LenProperties
  <2> QED BY <1>0, <1>2, <2>2, <2>3
<1> QED BY <1>1, <1>2

(* Nothing is on its way when the log starts.                               *)
LEMMA ContentsInit == Init => Contents
<1>1. \A R : Sorted(R, <<>>)
  BY DEF Sorted
<1>2. ToSet(<<>>) = {} /\ DOMAIN <<>> = {}
  BY DEF ToSet
<1> QED BY <1>1, <1>2 DEF Init, Contents, Blocks

(* Every step keeps what is on its way logged, and each block in order.     *)
LEMMA ContentsStep ==
  ASSUME IInv, OtherTypes, Contents, Next
  PROVE  Contents'
<1>0. /\ Types /\ buffer \in Seq(Record) /\ wlog \in Seq(Record) /\ logged \in Seq(Record)
      /\ blocks \in Seq(Seq(Record)) /\ readblock \in Nat /\ loaded \in Seq(Record)
      /\ handed \in Seq(Record)
  BY DEF IInv, Types, OtherTypes
<1>1. ToSet(<<>>) = {} /\ \A R : Sorted(R, <<>>)
  BY EmptySeq, InSequences DEF Sorted
<1>2. CASE Store
  <2>1. CASE logged' # logged
    <3>1. PICK r \in Record :
            /\ r = Head(wlog) /\ r \notin ToSet(logged)
            /\ buffer' = Append(buffer, r)
            /\ call' = [call EXCEPT ![r] = "logged"]
            /\ ToSet(logged') = ToSet(logged) \cup {r}
            /\ \A i, j \in DOMAIN logged' : logged'[i] = logged'[j] => i = j
            /\ \A q \in ToSet(logged) :
                 /\ <<q, r>> \in InBlock'
                 /\ \A p \in ToSet(logged) : <<p, q>> \in InBlock <=> <<p, q>> \in InBlock'
      BY <1>2, <2>1, StoreRelations
    <3>2. \A b \in Seq(Record) :
            ToSet(b) \subseteq ToSet(logged) /\ Sorted(InBlock, b) => Sorted(InBlock', b)
      BY <3>1, InSequences DEF Sorted
    <3>3. /\ buffer' \in Seq(Record) /\ ToSet(buffer') = ToSet(buffer) \cup {r}
          /\ Sorted(InBlock', buffer')
      <4>1. buffer' \in Seq(Record) /\ ToSet(buffer') = ToSet(buffer) \cup {r}
        BY <1>0, <3>1, InSequences
      <4>2. InBlock' \in SUBSET (Record \X Record)
        BY DEF InBlock, Rel
      <4>3. Sorted(InBlock', buffer) /\ Apart(InBlock', ToSet(buffer), {r})
        BY <1>0, <3>1, <3>2 DEF Contents, Apart
      <4>4. Sorted(InBlock', Append(buffer, r))
        BY <1>0, <4>2, <4>3, SortedAppend
      <4> QED BY <3>1, <4>1, <4>4
    <3>4. \A b \in Blocks \cup {loaded} :
            b \in Seq(Record) /\ ToSet(b) \subseteq ToSet(logged) /\ Sorted(InBlock, b)
      BY <1>0, LenProperties, ElementOfSeq DEF Contents, Blocks
    <3>5. UNCHANGED <<blocks, loaded, handed, dropped>> /\ wlog' = <<>>
      BY <1>2 DEF Store, disk, reading, failing
    <3>6. \A q \in ToSet(logged') : call'[q] = "logged"
      BY <3>1 DEF Contents, OtherTypes
    <3>7. Blocks' = Blocks
      BY <3>5 DEF Blocks
    <3>8. ToSet(buffer) \subseteq ToSet(logged)
      BY DEF Contents
    <3>9. \A b \in Blocks' \cup {loaded', buffer'} :
            ToSet(b) \subseteq ToSet(logged') /\ Sorted(InBlock', b)
      BY <3>1, <3>2, <3>3, <3>4, <3>5, <3>7, <3>8
    <3> QED BY <3>1, <3>5, <3>6, <3>9 DEF Contents
  <2>2. CASE logged' = logged
    <3>1. /\ UNCHANGED <<logged, crashes, blocks, loaded, handed, dropped>>
          /\ wlog' = <<>>
          /\ UNCHANGED buffer /\ call' = [call EXCEPT ![Head(wlog)] = "refused"]
      <4>1. Append(logged, Head(wlog)) # logged
        <5>1. Head(wlog) \in Record /\ Len(logged) \in Nat
          BY <1>0, <1>2, LenProperties DEF Store, Types
        <5>2. Len(Append(logged, Head(wlog))) = Len(logged) + 1
          BY <1>0, <5>1
        <5> QED BY <5>1, <5>2
      <4> QED BY <1>2, <2>2, <4>1 DEF Store, disk, reading, failing
    <3>2. InBlock' = InBlock /\ Blocks' = Blocks
      BY <3>1, SameRelations DEF Blocks
    <3>3. \A q \in ToSet(logged) : q # Head(wlog)
      BY <1>2, <1>0 DEF Contents, Store, Types
    <3> QED BY <3>1, <3>2, <3>3 DEF Contents, OtherTypes
  <2> QED BY <2>1, <2>2
<1>3. CASE UNCHANGED <<logged, call, wlog, dropped, handed, crashes>>
           /\ \A b \in Blocks' \cup {loaded', buffer'} :
                b \in Blocks \cup {loaded, buffer, <<>>}
  <2>1. InBlock' = InBlock
    BY <1>3, SameRelations
  <2> QED BY <1>1, <1>3, <2>1 DEF Contents
<1>4. ASSUME NEW r \in Record, Write(r) PROVE Contents'
  <2>1. /\ UNCHANGED <<logged, dropped, handed, crashes, blocks, loaded, buffer>>
        /\ wlog' = <<r>> /\ call' = [call EXCEPT ![r] = "wait"] /\ call[r] = "idle"
    BY <1>4 DEF Write, disk, reading, failing
  <2>2. InBlock' = InBlock /\ Blocks' = Blocks
    BY <2>1, SameRelations DEF Blocks
  <2>3. Head(wlog') = r
    BY <2>1
  <2> QED BY <2>1, <2>2, <2>3 DEF Contents, OtherTypes
<1>5. CASE Tick \/ Close \/ ReadFails \/ ZeroWriteOff \/ Advance \/ SaveGroups
           \/ SaveGroupsFails \/ AppendHeader
  <2>1. /\ UNCHANGED <<logged, call, wlog, dropped, handed, crashes, blocks>>
        /\ loaded' \in {loaded, <<>>} /\ buffer' \in {buffer, <<>>}
    BY <1>5 DEF Tick, Close, ReadFails, ZeroWriteOff, Advance, SaveGroups,
                SaveGroupsFails, AppendHeader, Reset, Poll, disk, reading, writing, outcome, failing
  <2>2. Blocks' = Blocks
    BY <2>1 DEF Blocks
  <2> QED BY <1>3, <2>1, <2>2
<1>6. CASE AppendBlock
  <2>1. /\ UNCHANGED <<logged, call, wlog, dropped, handed, crashes, loaded, buffer>>
    BY <1>6 DEF AppendBlock, reading, outcome, failing
  <2>2. \A b \in Blocks' : b \in Blocks \cup {buffer}
    <3>1. \A i \in DOMAIN blocks' : blocks'[i] = buffer \/ (i \in DOMAIN blocks /\ blocks'[i] = blocks[i])
      <4>1. CASE writeblock < Len(blocks)
        BY <1>0, <1>6, <4>1, AppendedBlocks
      <4>2. CASE ~(writeblock < Len(blocks))
        <5>1. /\ DOMAIN blocks' = 1 .. Len(blocks) + 1 /\ DOMAIN blocks = 1..Len(blocks)
              /\ blocks'[Len(blocks) + 1] = buffer /\ Len(blocks) \in Nat
              /\ \A i \in 1..Len(blocks) : blocks'[i] = blocks[i]
          BY <1>0, <1>6, <4>2, AppendedBlocks
        <5>2. \A n \in Nat : \A i \in 1 .. n + 1 : i = n + 1 \/ i \in 1..n
          OBVIOUS
        <5> QED BY <5>1, <5>2
      <4> QED BY <4>1, <4>2
    <3> QED BY <3>1 DEF Blocks
  <2> QED BY <1>3, <2>1, <2>2
<1>7. CASE AppendFails
  <2>1. /\ UNCHANGED <<logged, call, wlog, handed, crashes, blocks, loaded>>
        /\ buffer' = <<>> /\ dropped' = dropped \cup ToSet(buffer)
    BY <1>7 DEF AppendFails, Reset, disk, reading, outcome
  <2>2. InBlock' = InBlock /\ Blocks' = Blocks
    BY <2>1, SameRelations DEF Blocks
  <2> QED BY <1>1, <2>1, <2>2 DEF Contents
<1>8. CASE GetBlock
  <2>1. /\ UNCHANGED <<logged, call, wlog, dropped, handed, crashes, blocks, buffer>>
        /\ loaded' = blocks[readblock + 1] /\ readblock < Len(blocks)
    BY <1>8 DEF GetBlock, disk, writing, outcome, failing
  <2>2. loaded' \in Blocks /\ Blocks' = Blocks
    BY <1>0, <2>1, LenProperties DEF Blocks
  <2> QED BY <1>3, <2>1, <2>2
<1>9. CASE Truncate
  <2>1. /\ UNCHANGED <<logged, call, wlog, dropped, handed, crashes, loaded, buffer>>
        /\ blocks' \in {blocks, <<>>}
    BY <1>9 DEF Truncate, writing, outcome, failing
  <2>2. \A b \in Blocks' : b \in Blocks
    BY <2>1 DEF Blocks
  <2> QED BY <1>3, <2>1, <2>2
<1>10. CASE SaveChats \/ SaveChatsFails
  <2>1. /\ UNCHANGED <<logged, call, wlog, dropped, crashes, blocks, buffer>>
        /\ handed' = handed \o loaded /\ loaded' \in {loaded, <<>>}
    BY <1>10 DEF SaveChats, SaveChatsFails, Poll, disk, writing, failing
  <2>2. InBlock' = InBlock /\ Blocks' = Blocks
    BY <2>1, SameRelations DEF Blocks
  <2>3. ToSet(handed') = ToSet(handed) \cup ToSet(loaded)
    BY <1>0, <2>1, InSequences
  <2> QED BY <1>1, <2>1, <2>2, <2>3 DEF Contents
<1>11. CASE Crash
  <2>1. /\ UNCHANGED <<logged, dropped, handed, blocks>>
        /\ wlog' = <<>> /\ buffer' = <<>> /\ loaded' = <<>>
        /\ call' = [r \in Record |-> IF call[r] = "wait" THEN "gone" ELSE call[r]]
    BY <1>11 DEF Crash, disk, failing
  <2>2. InBlock' = InBlock /\ Blocks' = Blocks
    BY <1>11, <2>1, CrashRelations DEF Blocks
  <2>3. ToSet(logged) \in SUBSET Record
    BY <1>0, InSequences
  <2> QED BY <1>1, <2>1, <2>2, <2>3 DEF Contents
<1> QED BY <1>2, <1>4, <1>5, <1>6, <1>7, <1>8, <1>9, <1>10, <1>11
        DEF Next, Writer, Reader

-----------------------------------------------------------------------------
(* Where the block that is being taken or added is in the file, and how     *)
(* many blocks of before a crash may stand behind the last one.             *)
Taking == {"zero", "truncate", "advance"}
Positions ==
  file = "open" =>
    /\ reader \in Taking /\ blocks # <<>>
         => readOff < Len(blocks) /\ blocks[readOff + 1] = loaded
    /\ reader = "zero" => writeOff = readOff + 1
    /\ reader = "advance" => readblock = readOff + 1 \/ (readblock = 0 /\ blocks = <<>>)
    /\ writer = "header" => blocks[writeblock + 1] = buffer
    /\ crashes = 0 =>
         Len(blocks) <= IF reader = "truncate" THEN readOff + 1
                        ELSE IF writer = "header" THEN writeOff + 1 ELSE writeOff
    /\ crashes = 1 /\ reader # "truncate" =>
         Len(blocks) <= 1 + IF writeOff < readOff THEN readOff ELSE writeOff

(* Nothing is being taken when the log starts.                              *)
LEMMA PositionsInit == Init => Positions
  BY EmptySeq DEF Init, Positions, Taking

(* Every step keeps the block that is taken where the header says.          *)
LEMMA PositionsStep == ASSUME IInv, Positions, Next PROVE Positions'
<1> USE DEF Positions, Taking
<1>0. /\ Types /\ LockInv /\ OffInv /\ blocks \in Seq(Seq(Record)) /\ buffer \in Seq(Record)
      /\ readOff \in Nat /\ writeOff \in Nat /\ readblock \in Nat /\ writeblock \in Nat
      /\ crashes \in Nat /\ Len(blocks) \in Nat /\ DOMAIN blocks = 1..Len(blocks)
      /\ file \in {"open", "closed"}
      /\ blocks = <<>> => Len(blocks) = 0
  BY LenProperties, EmptySeq DEF IInv, Types
<1>1. ASSUME NEW r \in Record, Write(r) PROVE Positions'
  BY <1>1 DEF Write, disk, numbers, reading, failing
<1>2. CASE Tick \/ AppendFails
  BY <1>2 DEF Tick, AppendFails, AfterAppend, disk, numbers, reading, failing
<1>3. CASE Close
  BY <1>3 DEF Close
<1>4. CASE AppendBlock
  <2>1. /\ UNCHANGED <<readOff, writeOff, readblock, writeblock, buffer, reader, loaded,
                       file, crashes>>
        /\ writer = "append" /\ mutex = "free" /\ writer' = "header"
    BY <1>4 DEF AppendBlock, numbers, reading, failing
  <2>2. SUFFICES ASSUME file = "open" PROVE Positions'
    BY <2>1
  <2>3. /\ reader \notin Taking /\ readOff = readblock /\ writeOff = writeblock
        /\ writeOff <= Len(blocks)
    BY <1>0, <2>1, <2>2 DEF LockInv, OffInv
  <2>4. CASE writeblock < Len(blocks)
    <3>1. Len(blocks') = Len(blocks) /\ blocks'[writeblock + 1] = buffer
      BY <1>0, <1>4, <2>4, AppendedBlocks
    <3> QED BY <1>0, <2>1, <2>2, <2>3, <2>4, <3>1
  <2>5. CASE ~(writeblock < Len(blocks))
    <3>1. Len(blocks') = Len(blocks) + 1 /\ blocks'[Len(blocks) + 1] = buffer
      BY <1>0, <1>4, <2>5, AppendedBlocks
    <3>2. \A m, n \in Nat : m <= n /\ ~(m < n) => m = n
      OBVIOUS
    <3>3. writeblock = Len(blocks)
      BY <1>0, <2>3, <2>5, <3>2
    <3>4. Len(blocks') = writeblock + 1 /\ blocks'[writeblock + 1] = buffer
      BY <3>1, <3>3
    <3>5. /\ writeOff + 1 <= writeOff' + 1
          /\ writeOff + 1 <= 1 + IF writeOff' < readOff' THEN readOff' ELSE writeOff'
      BY <1>0, <2>1
    <3>6. Len(blocks') = writeOff + 1 /\ blocks'[writeblock' + 1] = buffer'
      BY <2>1, <2>3, <3>4
    <3>7. reader' \notin Taking /\ writer' = "header"
      BY <2>1, <2>3
    <3> QED BY <3>5, <3>6, <3>7
  <2> QED BY <2>4, <2>5
<1>5. CASE AppendHeader
  <2>1. /\ UNCHANGED <<blocks, readOff, readblock, reader, loaded, file, crashes>>
        /\ writer = "header" /\ writer' \in {"select", "store"}
        /\ writeOff' = writeblock + 1
    BY <1>5 DEF AppendHeader, AfterAppend, reading, failing
  <2>2. file = "open" => writeOff = writeblock /\ reader \notin Taking
    BY <1>0, <2>1 DEF LockInv, OffInv
  <2> QED BY <1>0, <2>1, <2>2
<1>6. CASE Store
  BY <1>6 DEF Store, disk, numbers, reading, failing
<1>7. CASE GetBlock
  <2>1. /\ UNCHANGED <<blocks, readOff, writeOff, writer, buffer, file, crashes>>
        /\ reader = "poll" /\ mutex = "free" /\ readblock < Len(blocks)
        /\ loaded' = blocks[readblock + 1] /\ file = "open"
        /\ \/ readblock + 1 = writeblock /\ reader' = "zero"
           \/ reader' = "advance" /\ readblock' = readblock + 1
    BY <1>7 DEF GetBlock, disk, writing, failing
  <2>2. readOff = readblock /\ writeOff = writeblock /\ writer # "header"
    BY <1>0, <2>1 DEF LockInv, OffInv
  <2> QED BY <1>0, <2>1, <2>2
<1>8. CASE ReadFails
  BY <1>8 DEF ReadFails, disk, numbers, writing, reading
<1>9. CASE ZeroWriteOff
  <2>1. /\ UNCHANGED <<blocks, readOff, readblock, writeblock, writer, buffer, loaded, file,
                       crashes>>
        /\ reader = "zero" /\ reader' = "truncate"
        /\ writeOff' = IF file = "open" THEN 0 ELSE writeOff
    BY <1>9 DEF ZeroWriteOff, numbers, writing, failing
  <2>2. writer # "header"
    BY <1>0, <2>1 DEF LockInv
  <2> QED BY <1>0, <2>1, <2>2
<1>10. CASE Truncate
  <2>1. /\ UNCHANGED <<readOff, writeOff, readblock, writeblock, writer, buffer, loaded, file,
                       crashes>>
        /\ reader = "truncate" /\ reader' = "advance"
        /\ blocks' = IF file = "open" THEN <<>> ELSE blocks
    BY <1>10 DEF Truncate, numbers, writing, failing
  <2>2. writer # "header" /\ (file = "open" => readblock = 0) /\ Len(<<>>) = 0
    BY <1>0, <2>1, EmptySeq DEF LockInv, OffInv
  <2> QED BY <1>0, <2>1, <2>2
<1>11. CASE Advance
  <2>1. /\ UNCHANGED <<blocks, writeOff, readblock, writeblock, writer, buffer, loaded, file,
                       crashes>>
        /\ reader = "advance" /\ reader' = "sub"
        /\ readOff' = IF file = "open" THEN readblock ELSE readOff
    BY <1>11 DEF Advance, NewReadOff, numbers, writing, failing
  <2>2. writer # "header"
    BY <1>0, <2>1 DEF LockInv
  <2> QED BY <1>0, <2>1, <2>2
<1>12. CASE SaveChats \/ SaveChatsFails \/ SaveGroups \/ SaveGroupsFails
  BY <1>0, <1>12 DEF SaveChats, SaveChatsFails, SaveGroups, SaveGroupsFails, Poll, disk,
               numbers, writing, failing
<1>13. CASE Crash
  <2>1. /\ UNCHANGED <<blocks, readOff, writeOff>> /\ file = "open" /\ file' = "open"
        /\ crashes' = crashes + 1 /\ reader' = "poll" /\ writer' = "select"
    BY <1>13 DEF Crash, disk
  <2>2. crashes = 0 => Len(blocks) <= 1 + IF writeOff < readOff THEN readOff ELSE writeOff
    BY <1>0, <2>1
  <2> QED BY <1>0, <2>1, <2>2
<1> QED BY <1>1, <1>2, <1>3, <1>4, <1>5, <1>6, <1>7, <1>8, <1>9, <1>10, <1>11,
           <1>12, <1>13 DEF Next, Writer, Reader

-----------------------------------------------------------------------------
(* The order of what sub got, what readloop holds, the blocks of the file   *)
(* and the block in memory: for the blocks that a crash makes readloop read *)
(* again, and for those that it is about to read.                           *)
OnDisk == readOff + 1 .. Len(blocks)
DiskOrder ==
  file = "open" =>
    /\ \A i, j \in OnDisk : i < j => Apart(ForDisk, ToSet(blocks[i]), ToSet(blocks[j]))
    /\ \A i \in OnDisk :
         /\ Apart(ForDisk, ToSet(handed), ToSet(blocks[i]))
         /\ reader = "sub" => Apart(ForDisk, ToSet(loaded), ToSet(blocks[i]))
         /\ ~(writer = "header" /\ i = writeblock + 1)
              => Apart(ForDisk, ToSet(blocks[i]), ToSet(buffer))

LastComing == IF writeblock < readblock THEN Len(blocks) ELSE writeblock
Coming == readblock + 1 .. LastComing
MemoryOrder ==
  /\ Sorted(ForMemory, handed)
  /\ Apart(ForMemory, ToSet(handed), ToSet(Held))
  /\ Apart(ForMemory, ToSet(handed), ToSet(buffer))
  /\ Apart(ForMemory, ToSet(Held), ToSet(buffer))
ComingOrder ==
  file = "open" =>
    /\ \A i, j \in Coming : i < j => Apart(ForMemory, ToSet(blocks[i]), ToSet(blocks[j]))
    /\ \A i \in Coming : /\ Apart(ForMemory, ToSet(handed), ToSet(blocks[i]))
                         /\ Apart(ForMemory, ToSet(Held), ToSet(blocks[i]))
                         /\ Apart(ForMemory, ToSet(blocks[i]), ToSet(buffer))

(* Nothing is in the wrong order when the log starts.                       *)
LEMMA OrderInit == Init => DiskOrder /\ MemoryOrder /\ ComingOrder
<1>1. ToSet(<<>>) = {} /\ \A R : Sorted(R, <<>>)
  BY EmptySeq, InSequences DEF Sorted
<1>2. Init => OnDisk = {} /\ Coming = {} /\ Held = <<>>
  BY EmptySeq DEF Init, OnDisk, Coming, LastComing, Held
<1> QED BY <1>1, <1>2 DEF Init, DiskOrder, MemoryOrder, ComingOrder, Apart

(* What the orders mean for sets of records that get smaller or were only   *)
(* moved.                                                                   *)
LEMMA ApartFacts ==
  /\ \A R, X : Apart(R, X, {}) /\ Apart(R, {}, X)
  /\ \A R, Q, X, Y : R \subseteq Q /\ Apart(R, X, Y) => Apart(Q, X, Y)
  /\ \A R, X, Y, Z : Apart(R, X \cup Y, Z) <=> Apart(R, X, Z) /\ Apart(R, Y, Z)
  /\ \A R, X, Y, Z : Apart(R, Z, X \cup Y) <=> Apart(R, Z, X) /\ Apart(R, Z, Y)
  BY DEF Apart

(* Every step keeps the order of what a crash would bring back.             *)
LEMMA DiskOrderStep ==
  ASSUME IInv, OtherTypes, Contents, Positions, DiskOrder, MemoryOrder, Next
  PROVE  DiskOrder'
<1>0. /\ Types /\ LockInv /\ OffInv /\ blocks \in Seq(Seq(Record)) /\ buffer \in Seq(Record)
      /\ readOff \in Nat /\ writeOff \in Nat /\ readblock \in Nat /\ writeblock \in Nat
      /\ crashes \in Nat /\ Len(blocks) \in Nat /\ DOMAIN blocks = 1..Len(blocks)
      /\ file \in {"open", "closed"} /\ handed \in Seq(Record) /\ loaded \in Seq(Record)
      /\ wlog \in Seq(Record) /\ ToSet(<<>>) = {}
  BY LenProperties, EmptySeq, InSequences DEF IInv, Types, OtherTypes
<1>1. CASE /\ UNCHANGED <<blocks, readOff, handed, logged, crashes>>
           /\ file' = "open" => file = "open"
           /\ \/ buffer' = <<>>
              \/ /\ buffer' = buffer
                 /\ writer = "header" => writer' = "header" /\ writeblock' = writeblock
           /\ reader' = "sub" => reader = "sub" /\ loaded' = loaded
  <2>1. ForDisk' = ForDisk
    BY <1>1, SameRelations
  <2>2. OnDisk' = OnDisk
    BY <1>1 DEF OnDisk
  <2>3. SUFFICES ASSUME file = "open", file' = "open" PROVE DiskOrder'
    BY <1>1 DEF DiskOrder
  <2>4. \A R, X : buffer' = <<>> => Apart(R, X, ToSet(buffer'))
    BY <1>0, ApartFacts
  <2>5. ASSUME NEW i \in OnDisk, ~(writer' = "header" /\ i = writeblock' + 1), buffer' = buffer,
               writer = "header" => writer' = "header" /\ writeblock' = writeblock
        PROVE  Apart(ForDisk, ToSet(blocks[i]), ToSet(buffer'))
    BY <2>3, <2>5 DEF DiskOrder
  <2>6. \A i \in OnDisk : reader' = "sub" => Apart(ForDisk, ToSet(loaded'), ToSet(blocks[i]))
    BY <1>1, <2>3 DEF DiskOrder
  <2>7. \A i \in OnDisk : ~(writer' = "header" /\ i = writeblock' + 1)
                           => Apart(ForDisk, ToSet(blocks[i]), ToSet(buffer'))
    BY <1>1, <2>4, <2>5
  <2> QED BY <1>1, <2>1, <2>2, <2>3, <2>6, <2>7 DEF DiskOrder
<1>2. ASSUME NEW r \in Record, Write(r) PROVE DiskOrder'
  <2>1. /\ UNCHANGED <<blocks, readOff, handed, logged, crashes, file, buffer, writeblock, reader,
                       loaded>>
        /\ writer = "select"
    BY <1>2 DEF Write, disk, numbers, reading, failing
  <2> QED BY <1>1, <2>1
<1>3. CASE Tick \/ Close \/ ReadFails \/ ZeroWriteOff \/ SaveGroups \/ SaveGroupsFails
  <2>1. /\ UNCHANGED <<blocks, readOff, handed, logged, crashes, buffer, writeblock>>
        /\ file' = "open" => file = "open"
        /\ writer' = writer \/ writer = "select"
        /\ reader' = "sub" => reader = "sub" /\ loaded' = loaded
    BY <1>3 DEF Tick, Close, ReadFails, ZeroWriteOff, SaveGroups, SaveGroupsFails, Poll,
                disk, numbers, reading, writing, outcome, failing
  <2> QED BY <1>1, <2>1
<1>4. CASE AppendFails \/ AppendHeader \/ GetBlock
  <2>1. /\ UNCHANGED <<blocks, readOff, handed, logged, crashes, file>>
        /\ \/ buffer' = <<>>
           \/ buffer' = buffer /\ writer' = writer /\ writer # "header"
        /\ reader' = "sub" => reader = "sub" /\ loaded' = loaded
    BY <1>0, <1>4 DEF AppendFails, AppendHeader, GetBlock, Reset, LockInv,
                disk, numbers, reading, writing, outcome, failing
  <2> QED BY <1>1, <2>1
<1>5. CASE Store
  <2>0. /\ UNCHANGED <<blocks, readOff, handed, loaded, reader, crashes, file, writeblock>>
        /\ writer' = "select" /\ writer = "store"
    BY <1>5 DEF Store, disk, numbers, reading, failing
  <2>1. CASE logged' = logged
    <3>1. UNCHANGED buffer
      <4>1. Append(logged, Head(wlog)) # logged
        <5>1. Head(wlog) \in Record /\ Len(logged) \in Nat /\ logged \in Seq(Record)
          BY <1>0, <1>5, LenProperties DEF Store, Types, OtherTypes
        <5>2. Len(Append(logged, Head(wlog))) = Len(logged) + 1
          BY <5>1
        <5> QED BY <5>1, <5>2
      <4> QED BY <1>5, <2>1, <4>1 DEF Store
    <3> QED BY <1>1, <2>0, <2>1, <3>1
  <2>2. CASE logged' # logged
    <3>1. PICK r \in Record :
            /\ buffer' = Append(buffer, r)
            /\ \A q \in ToSet(logged) :
                 /\ <<q, r>> \in ForDisk'
                 /\ \A p \in ToSet(logged) : <<p, q>> \in ForDisk <=> <<p, q>> \in ForDisk'
      BY <1>5, <2>2, StoreRelations
    <3>2. ToSet(buffer') = ToSet(buffer) \cup {r}
      BY <1>0, <3>1, InSequences
    <3>3. \A X, Y \in SUBSET ToSet(logged) :
            /\ Apart(ForDisk, X, Y) => Apart(ForDisk', X, Y)
            /\ Apart(ForDisk', X, {r})
      BY <3>1 DEF Apart
    <3>4. /\ \A i \in OnDisk : ToSet(blocks[i]) \in SUBSET ToSet(logged)
          /\ ToSet(handed) \in SUBSET ToSet(logged) /\ ToSet(loaded) \in SUBSET ToSet(logged)
          /\ ToSet(buffer) \in SUBSET ToSet(logged)
      <4>1. \A i \in OnDisk : i \in 1..Len(blocks)
        BY <1>0 DEF OnDisk
      <4>2. \A i \in OnDisk : blocks[i] \in Blocks
        BY <1>0, <4>1 DEF Blocks
      <4> QED BY <4>2 DEF Contents
    <3>5. OnDisk' = OnDisk
      BY <2>0 DEF OnDisk
    <3>6. SUFFICES ASSUME file = "open" PROVE DiskOrder'
      BY <2>0 DEF DiskOrder
    <3>7. ASSUME NEW i \in OnDisk
          PROVE  /\ Apart(ForDisk', ToSet(handed'), ToSet(blocks'[i]))
                 /\ reader' = "sub" => Apart(ForDisk', ToSet(loaded'), ToSet(blocks'[i]))
                 /\ Apart(ForDisk', ToSet(blocks'[i]), ToSet(buffer'))
      BY <2>0, <3>2, <3>3, <3>4, <3>6, <3>7, ApartFacts DEF DiskOrder
    <3>8. ASSUME NEW i \in OnDisk, NEW j \in OnDisk, i < j
          PROVE  Apart(ForDisk', ToSet(blocks'[i]), ToSet(blocks'[j]))
      BY <2>0, <3>3, <3>4, <3>6, <3>8 DEF DiskOrder
    <3> QED BY <3>5, <3>7, <3>8 DEF DiskOrder
  <2> QED BY <2>1, <2>2
<1>6. CASE AppendBlock
  <2>1. /\ UNCHANGED <<readOff, readblock, writeblock, buffer, reader, loaded, handed, logged,
                       file, crashes>>
        /\ writer = "append" /\ mutex = "free" /\ writer' = "header"
    BY <1>6 DEF AppendBlock, numbers, reading, failing, outcome
  <2>2. SUFFICES ASSUME file = "open" PROVE DiskOrder'
    BY <2>1 DEF DiskOrder
  <2>3. /\ reader \notin Taking /\ readOff = readblock /\ writeOff = writeblock
        /\ writeblock <= Len(blocks)
    BY <1>0, <2>1, <2>2 DEF LockInv, OffInv, Taking
  <2>4. ForDisk' = ForDisk /\ ForMemory \subseteq ForDisk
    BY <1>0, <2>1, SameRelations, Relations
  <2>5. /\ Apart(ForDisk, ToSet(handed), ToSet(buffer))
        /\ reader = "sub" => Apart(ForDisk, ToSet(loaded), ToSet(buffer))
    BY <2>4, ApartFacts DEF MemoryOrder, Held
  <2>6. \A i \in OnDisk : Apart(ForDisk, ToSet(blocks[i]), ToSet(buffer))
    BY <2>1, <2>2 DEF DiskOrder
  <2>7. ASSUME NEW i \in OnDisk, i > writeblock + 1, writeblock + 1 \in OnDisk
        PROVE  Apart(ForDisk, ToSet(buffer), ToSet(blocks[i]))
    <3>1. crashes > 1
      <4>1. crashes # 0
        BY <1>0, <2>1, <2>2, <2>3, <2>7 DEF Positions, OnDisk, Taking
      <4>2. crashes # 1
        BY <1>0, <2>1, <2>2, <2>3, <2>7 DEF Positions, OnDisk, Taking
      <4> QED BY <1>0, <4>1, <4>2
    <3>2. \A p, q \in Record : <<p, q>> \in ForDisk <=> p # q
      BY <1>0, <3>1 DEF ForDisk, Rel
    <3>3. ToSet(buffer) \in SUBSET Record /\ ToSet(blocks[i]) \in SUBSET Record
      <4>1. i \in 1..Len(blocks)
        BY <1>0 DEF OnDisk
      <4> QED BY <1>0, <4>1, ElementOfSeq, InSequences
    <3> QED BY <2>6, <3>2, <3>3 DEF Apart
  <2>8. CASE writeblock < Len(blocks)
    <3>1. /\ Len(blocks') = Len(blocks) /\ writeblock + 1 \in 1..Len(blocks)
          /\ blocks'[writeblock + 1] = buffer
          /\ \A i \in 1..Len(blocks) : i # writeblock + 1 => blocks'[i] = blocks[i]
      BY <1>0, <1>6, <2>8, AppendedBlocks
    <3>2. OnDisk' = OnDisk /\ \A i \in OnDisk : i \in 1..Len(blocks)
      BY <1>0, <2>1, <3>1 DEF OnDisk
    <3>3. ASSUME NEW i \in OnDisk, NEW j \in OnDisk, i < j
          PROVE  Apart(ForDisk, ToSet(blocks'[i]), ToSet(blocks'[j]))
      <4>1. CASE i = writeblock + 1
        <5>1. j > writeblock + 1 /\ j # writeblock + 1 /\ writeblock + 1 \in OnDisk
          BY <1>0, <3>2, <3>3, <4>1
        <5> QED BY <2>7, <3>1, <3>2, <4>1, <5>1
      <4>2. CASE j = writeblock + 1
        <5>1. i # writeblock + 1
          BY <1>0, <3>2, <3>3, <4>2
        <5> QED BY <2>6, <3>1, <3>2, <4>2, <5>1
      <4>3. CASE i # writeblock + 1 /\ j # writeblock + 1
        BY <2>2, <3>1, <3>2, <3>3, <4>3 DEF DiskOrder
      <4> QED BY <4>1, <4>2, <4>3
    <3>4. ASSUME NEW i \in OnDisk
          PROVE  /\ Apart(ForDisk, ToSet(handed), ToSet(blocks'[i]))
                 /\ reader = "sub" => Apart(ForDisk, ToSet(loaded), ToSet(blocks'[i]))
                 /\ i # writeblock + 1 => Apart(ForDisk, ToSet(blocks'[i]), ToSet(buffer))
      <4>1. CASE i = writeblock + 1
        BY <2>5, <3>1, <4>1
      <4>2. CASE i # writeblock + 1
        BY <2>2, <2>6, <3>1, <3>2, <4>2 DEF DiskOrder
      <4> QED BY <4>1, <4>2
    <3> QED BY <2>1, <2>4, <3>2, <3>3, <3>4 DEF DiskOrder
  <2>9. CASE ~(writeblock < Len(blocks))
    <3>1. /\ Len(blocks') = Len(blocks) + 1 /\ blocks'[Len(blocks) + 1] = buffer
          /\ \A i \in 1..Len(blocks) : blocks'[i] = blocks[i]
      BY <1>0, <1>6, <2>9, AppendedBlocks
    <3>2. \A m, n \in Nat : m <= n /\ ~(m < n) => m = n
      OBVIOUS
    <3>3. writeblock = Len(blocks)
      BY <1>0, <2>3, <2>9, <3>2
    <3>4. OnDisk' = readOff + 1 .. Len(blocks) + 1
      BY <2>1, <3>1 DEF OnDisk
    <3>5. \A i \in OnDisk' : \/ i = Len(blocks) + 1
                             \/ i \in OnDisk /\ i \in 1..Len(blocks) /\ i < Len(blocks) + 1
      <4>1. \A m, n \in Nat : \A i \in m + 1 .. n + 1 :
              i = n + 1 \/ (i \in m + 1 .. n /\ i \in 1..n /\ i < n + 1)
        OBVIOUS
      <4> QED BY <1>0, <3>4, <4>1 DEF OnDisk
    <3>6. ASSUME NEW i \in OnDisk', NEW j \in OnDisk', i < j
          PROVE  Apart(ForDisk, ToSet(blocks'[i]), ToSet(blocks'[j]))
      <4>1. i # Len(blocks) + 1
        BY <1>0, <3>4, <3>6
      <4>2. i \in OnDisk /\ blocks'[i] = blocks[i]
        BY <3>1, <3>5, <4>1
      <4>3. CASE j = Len(blocks) + 1
        BY <2>6, <3>1, <4>2, <4>3
      <4>4. CASE j # Len(blocks) + 1
        <5>1. j \in OnDisk /\ blocks'[j] = blocks[j]
          BY <3>1, <3>5, <4>4
        <5> QED BY <2>2, <3>6, <4>2, <5>1 DEF DiskOrder
      <4> QED BY <4>3, <4>4
    <3>7. ASSUME NEW i \in OnDisk'
          PROVE  /\ Apart(ForDisk, ToSet(handed), ToSet(blocks'[i]))
                 /\ reader = "sub" => Apart(ForDisk, ToSet(loaded), ToSet(blocks'[i]))
                 /\ i # writeblock + 1 => Apart(ForDisk, ToSet(blocks'[i]), ToSet(buffer))
      <4>1. CASE i = Len(blocks) + 1
        BY <2>5, <3>1, <3>3, <4>1
      <4>2. CASE i # Len(blocks) + 1
        <5>1. i \in OnDisk /\ blocks'[i] = blocks[i]
          BY <3>1, <3>5, <4>2
        <5> QED BY <2>2, <2>6, <5>1 DEF DiskOrder
      <4> QED BY <4>1, <4>2
    <3> QED BY <2>1, <2>4, <3>6, <3>7 DEF DiskOrder
  <2> QED BY <2>8, <2>9
<1>7. CASE Truncate
  <2>1. /\ UNCHANGED <<readOff, writeblock, writer, buffer, handed, logged, file, crashes>>
        /\ reader' = "advance" /\ blocks' = IF file = "open" THEN <<>> ELSE blocks
    BY <1>7 DEF Truncate, numbers, writing, failing, outcome
  <2>2. file = "open" => OnDisk' = {}
    <3>1. Len(<<>>) = 0 /\ \A n \in Nat : n + 1 .. 0 = {}
      BY EmptySeq
    <3> QED BY <1>0, <2>1, <3>1 DEF OnDisk
  <2> QED BY <2>1, <2>2 DEF DiskOrder
<1>8. CASE Advance
  <2>1. /\ UNCHANGED <<blocks, writeblock, writer, buffer, handed, logged, loaded, file, crashes>>
        /\ reader = "advance" /\ reader' = "sub"
        /\ readOff' = IF file = "open" THEN readblock ELSE readOff
    BY <1>8 DEF Advance, NewReadOff, numbers, writing, failing, outcome
  <2>2. ForDisk' = ForDisk
    BY <2>1, SameRelations
  <2>3. SUFFICES ASSUME file = "open" PROVE DiskOrder'
    BY <2>1 DEF DiskOrder
  <2>4. CASE blocks = <<>>
    <3>1. Len(blocks) = 0 /\ \A n \in Nat : n + 1 .. 0 = {}
      BY <2>4, EmptySeq
    <3>2. OnDisk' = {}
      BY <1>0, <2>1, <2>3, <3>1 DEF OnDisk
    <3> QED BY <3>2 DEF DiskOrder
  <2>5. CASE blocks # <<>>
    <3>1. readOff + 1 \in OnDisk /\ blocks[readOff + 1] = loaded /\ readOff' = readOff + 1
      BY <1>0, <2>1, <2>3, <2>5 DEF Positions, OnDisk, Taking
    <3>2. \A i \in OnDisk' : i \in OnDisk /\ readOff + 1 < i
      BY <1>0, <2>1, <3>1 DEF OnDisk
    <3>3. \A i \in OnDisk' : Apart(ForDisk, ToSet(loaded), ToSet(blocks[i]))
      BY <2>3, <3>1, <3>2 DEF DiskOrder
    <3> QED BY <2>1, <2>2, <2>3, <3>2, <3>3 DEF DiskOrder
  <2> QED BY <2>4, <2>5
<1>9. CASE SaveChats \/ SaveChatsFails
  <2>1. /\ UNCHANGED <<blocks, readOff, writeblock, writer, buffer, logged, file, crashes>>
        /\ reader = "sub" /\ reader' # "sub" /\ handed' = handed \o loaded
    BY <1>9 DEF SaveChats, SaveChatsFails, Poll, disk, numbers, writing, failing
  <2>2. ForDisk' = ForDisk
    BY <2>1, SameRelations
  <2>3. OnDisk' = OnDisk
    BY <2>1 DEF OnDisk
  <2>4. ToSet(handed') = ToSet(handed) \cup ToSet(loaded)
    BY <1>0, <2>1, InSequences
  <2>5. SUFFICES ASSUME file = "open" PROVE DiskOrder'
    BY <2>1 DEF DiskOrder
  <2>6. \A i \in OnDisk : Apart(ForDisk, ToSet(handed) \cup ToSet(loaded), ToSet(blocks[i]))
    BY <2>1, <2>5, ApartFacts DEF DiskOrder
  <2>7. \A i \in OnDisk' :
          /\ Apart(ForDisk', ToSet(handed'), ToSet(blocks'[i]))
          /\ ~(writer' = "header" /\ i = writeblock' + 1)
               => Apart(ForDisk', ToSet(blocks'[i]), ToSet(buffer'))
    <3>1. \A i \in OnDisk : Apart(ForDisk, ToSet(handed'), ToSet(blocks[i]))
      BY <2>4, <2>6
    <3> QED BY <2>1, <2>2, <2>3, <2>5, <3>1 DEF DiskOrder
  <2>8. \A i, j \in OnDisk' : i < j => Apart(ForDisk', ToSet(blocks'[i]), ToSet(blocks'[j]))
    BY <2>1, <2>2, <2>3, <2>5 DEF DiskOrder
  <2>9. reader' # "sub"
    BY <2>1
  <2> QED BY <2>7, <2>8, <2>9 DEF DiskOrder
<1>10. CASE Crash
  <2>1. /\ UNCHANGED <<blocks, readOff, handed>> /\ file = "open"
        /\ buffer' = <<>> /\ reader' = "poll"
    BY <1>10 DEF Crash, disk
  <2>2. ForDisk \subseteq ForDisk'
    BY <1>10, CrashRelations
  <2>3. OnDisk' = OnDisk
    BY <2>1 DEF OnDisk
  <2>4. \A X, Y : Apart(ForDisk, X, Y) => Apart(ForDisk', X, Y)
    BY <2>2, ApartFacts
  <2>5. \A X : Apart(ForDisk', X, ToSet(buffer'))
    BY <1>0, <2>1, ApartFacts
  <2>6. reader' # "sub"
    BY <2>1
  <2> QED BY <2>1, <2>3, <2>4, <2>5, <2>6 DEF DiskOrder
<1> QED BY <1>2, <1>3, <1>4, <1>5, <1>6, <1>7, <1>8, <1>9, <1>10
        DEF Next, Writer, Reader

(* The blocks that are coming are in the file.                              *)
LEMMA ComingInFile ==
  ASSUME IInv, file = "open"
  PROVE  /\ Len(blocks) \in Nat /\ DOMAIN blocks = 1..Len(blocks) /\ writeblock <= Len(blocks)
         /\ \A i \in Coming : i \in 1..Len(blocks) /\ blocks[i] \in Blocks
<1>1. /\ Types /\ LockInv /\ OffInv /\ blocks \in Seq(Seq(Record))
      /\ readOff \in Nat /\ writeOff \in Nat /\ readblock \in Nat /\ writeblock \in Nat
      /\ Len(blocks) \in Nat /\ DOMAIN blocks = 1..Len(blocks)
      /\ reader \in {"poll", "zero", "truncate", "advance", "sub", "groups"}
  BY LenProperties DEF IInv, Types
<1>2. writeblock <= Len(blocks)
  BY <1>1 DEF OffInv
<1>3. LastComing \in Nat /\ LastComing <= Len(blocks)
  BY <1>1, <1>2 DEF LastComing
<1>4. \A i \in Coming : i \in 1..Len(blocks)
  BY <1>1, <1>3 DEF Coming
<1> QED BY <1>1, <1>2, <1>4 DEF Blocks

(* A Store that logs nothing changes nothing that the orders are about.     *)
LEMMA StoreNothing ==
  ASSUME IInv, OtherTypes, Store, logged' = logged
  PROVE  buffer' = buffer
<1>1. Head(wlog) \in Record /\ Len(logged) \in Nat /\ logged \in Seq(Record)
  BY LenProperties DEF Store, IInv, Types, OtherTypes
<1>2. Len(Append(logged, Head(wlog))) = Len(logged) + 1
  BY <1>1
<1>3. Append(logged, Head(wlog)) # logged
  BY <1>1, <1>2
<1> QED BY <1>3 DEF Store

(* Every step keeps the order of what sub got and what is in memory.        *)
LEMMA MemoryOrderStep ==
  ASSUME IInv, OtherTypes, Contents, MemoryOrder, ComingOrder, Next
  PROVE  MemoryOrder'
<1>0. /\ Types /\ LockInv /\ OffInv /\ blocks \in Seq(Seq(Record)) /\ buffer \in Seq(Record)
      /\ readblock \in Nat /\ writeblock \in Nat /\ crashes \in Nat
      /\ handed \in Seq(Record) /\ loaded \in Seq(Record)
      /\ wlog \in Seq(Record) /\ ToSet(<<>>) = {} /\ Held \in Seq(Record)
      /\ reader \in {"poll", "zero", "truncate", "advance", "sub", "groups"}
  BY EmptySeq, InSequences DEF IInv, Types, OtherTypes, Held
<1>1. CASE /\ UNCHANGED <<handed, logged, crashes>>
           /\ Held' = Held \/ Held' = <<>>
           /\ buffer' = buffer \/ buffer' = <<>>
  <2>1. ForMemory' = ForMemory
    BY <1>1, SameRelations
  <2> QED BY <1>0, <1>1, <2>1, ApartFacts DEF MemoryOrder
<1>2. ASSUME NEW r \in Record, Write(r) PROVE MemoryOrder'
  <2>1. UNCHANGED <<handed, logged, crashes, reader, loaded, buffer>>
    BY <1>2 DEF Write, reading, failing
  <2> QED BY <1>1, <2>1 DEF Held
<1>3. CASE Tick \/ Close \/ ReadFails \/ AppendBlock \/ AppendFails \/ AppendHeader
  <2>1. /\ UNCHANGED <<handed, logged, crashes, reader, loaded>>
        /\ buffer' = buffer \/ buffer' = <<>>
    BY <1>3 DEF Tick, Close, ReadFails, AppendBlock, AppendFails, AppendHeader, Reset,
                reading, writing, outcome, failing
  <2> QED BY <1>1, <2>1 DEF Held
<1>4. CASE ZeroWriteOff \/ Truncate \/ Advance
  <2>1. /\ UNCHANGED <<handed, logged, crashes, loaded, buffer>>
        /\ reader \in Taking /\ reader' \in Taking \cup {"sub"}
    BY <1>4 DEF ZeroWriteOff, Truncate, Advance, writing, outcome, failing, Taking
  <2> QED BY <1>1, <2>1 DEF Held, Taking
<1>5. CASE SaveGroups \/ SaveGroupsFails
  <2>1. /\ UNCHANGED <<handed, logged, crashes, buffer>>
        /\ reader' = "poll"
    BY <1>5 DEF SaveGroups, SaveGroupsFails, Poll, writing, outcome, failing
  <2> QED BY <1>1, <2>1 DEF Held
<1>6. CASE Store
  <2>0. UNCHANGED <<handed, crashes, reader, loaded>>
    BY <1>6 DEF Store, reading, failing
  <2>1. CASE logged' = logged
    BY <1>1, <1>6, <2>0, <2>1, StoreNothing DEF Held
  <2>2. CASE logged' # logged
    <3>1. PICK r \in Record :
            /\ buffer' = Append(buffer, r)
            /\ \A q \in ToSet(logged) :
                 /\ <<q, r>> \in ForMemory'
                 /\ \A p \in ToSet(logged) : <<p, q>> \in ForMemory <=> <<p, q>> \in ForMemory'
      BY <1>6, <2>2, StoreRelations
    <3>2. ToSet(buffer') = ToSet(buffer) \cup {r}
      BY <1>0, <3>1, InSequences
    <3>3. \A X, Y \in SUBSET ToSet(logged) :
            /\ Apart(ForMemory, X, Y) => Apart(ForMemory', X, Y)
            /\ Apart(ForMemory', X, {r})
      BY <3>1 DEF Apart
    <3>4. /\ ToSet(handed) \in SUBSET ToSet(logged) /\ ToSet(Held) \in SUBSET ToSet(logged)
          /\ ToSet(buffer) \in SUBSET ToSet(logged)
      BY <1>0 DEF Contents, Held
    <3>5. Held' = Held
      BY <2>0 DEF Held
    <3>6. \A i \in DOMAIN handed : handed[i] \in ToSet(logged)
      BY <1>0, <3>4, InSequences
    <3>7. Sorted(ForMemory', handed')
      BY <2>0, <3>1, <3>6 DEF MemoryOrder, Sorted
    <3>8. Apart(ForMemory', ToSet(handed'), ToSet(Held'))
      BY <2>0, <3>3, <3>4, <3>5 DEF MemoryOrder
    <3>9. \A X \in SUBSET ToSet(logged) :
            Apart(ForMemory, X, ToSet(buffer)) => Apart(ForMemory', X, ToSet(buffer'))
      BY <3>2, <3>3, <3>4, ApartFacts
    <3>10. /\ Apart(ForMemory', ToSet(handed'), ToSet(buffer'))
           /\ Apart(ForMemory', ToSet(Held'), ToSet(buffer'))
      BY <2>0, <3>4, <3>5, <3>9 DEF MemoryOrder
    <3> QED BY <3>7, <3>8, <3>10 DEF MemoryOrder
  <2> QED BY <2>1, <2>2
<1>7. CASE GetBlock
  <2>1. /\ UNCHANGED <<handed, logged, crashes, buffer>>
        /\ reader' \in {"zero", "advance"} /\ loaded' = blocks[readblock + 1]
        /\ readblock # writeblock /\ readblock < Len(blocks) /\ file = "open"
    BY <1>7 DEF GetBlock, disk, writing, outcome, failing
  <2>2. ForMemory' = ForMemory
    BY <2>1, SameRelations
  <2>3. readblock + 1 \in Coming
    BY <1>0, <2>1, ComingInFile DEF Coming, LastComing
  <2>4. Held' = blocks[readblock + 1]
    BY <2>1 DEF Held
  <2> QED BY <2>1, <2>2, <2>3, <2>4 DEF MemoryOrder, ComingOrder
<1>8. CASE SaveChats \/ SaveChatsFails
  <2>1. /\ UNCHANGED <<logged, crashes, buffer>>
        /\ reader = "sub" /\ reader' \in {"groups", "poll"} /\ handed' = handed \o loaded
    BY <1>8 DEF SaveChats, SaveChatsFails, Poll, writing, failing
  <2>2. ForMemory' = ForMemory /\ InBlock \subseteq ForMemory
        /\ ForMemory \in SUBSET (Record \X Record)
    BY <1>0, <2>1, SameRelations, Relations
  <2>3. Held = loaded /\ Held' = <<>>
    BY <2>1 DEF Held
  <2>4. Sorted(ForMemory, loaded)
    BY <2>2 DEF Contents, Sorted
  <2>5. Sorted(ForMemory, handed \o loaded)
    BY <1>0, <2>2, <2>3, <2>4, SortedConcat DEF MemoryOrder
  <2>6. ToSet(handed') = ToSet(handed) \cup ToSet(loaded)
    BY <1>0, <2>1, InSequences
  <2>7. Apart(ForMemory, ToSet(handed'), ToSet(buffer))
    BY <2>3, <2>6, ApartFacts DEF MemoryOrder
  <2>8. Sorted(ForMemory', handed')
    BY <2>1, <2>2, <2>5
  <2>9. ToSet(Held') = {} /\ buffer' = buffer
    BY <1>0, <2>1, <2>3
  <2> QED BY <2>2, <2>7, <2>8, <2>9, ApartFacts DEF MemoryOrder
<1>9. CASE Crash
  <2>1. /\ handed' = handed /\ buffer' = <<>> /\ reader' = "poll"
    BY <1>9 DEF Crash
  <2>2. ForMemory \subseteq ForMemory'
    BY <1>9, CrashRelations
  <2>3. ToSet(Held') = {} /\ ToSet(buffer') = {}
    BY <1>0, <2>1 DEF Held
  <2>4. Sorted(ForMemory', handed')
    BY <2>1, <2>2 DEF MemoryOrder, Sorted
  <2> QED BY <2>3, <2>4, ApartFacts DEF MemoryOrder
<1> QED BY <1>2, <1>3, <1>4, <1>5, <1>6, <1>7, <1>8, <1>9
        DEF Next, Writer, Reader

(* Every step keeps the order of the blocks about to be read.               *)
LEMMA ComingOrderStep ==
  ASSUME IInv, OtherTypes, Contents, Positions, DiskOrder, MemoryOrder, ComingOrder, Next
  PROVE  ComingOrder'
<1>0. /\ Types /\ LockInv /\ OffInv /\ blocks \in Seq(Seq(Record)) /\ buffer \in Seq(Record)
      /\ readOff \in Nat /\ writeOff \in Nat
      /\ readblock \in Nat /\ writeblock \in Nat /\ crashes \in Nat
      /\ handed \in Seq(Record) /\ loaded \in Seq(Record)
      /\ wlog \in Seq(Record) /\ ToSet(<<>>) = {} /\ Held \in Seq(Record)
      /\ reader \in {"poll", "zero", "truncate", "advance", "sub", "groups"}
      /\ file \in {"open", "closed"} /\ Len(blocks) \in Nat
  BY LenProperties, EmptySeq, InSequences DEF IInv, Types, OtherTypes, Held
<1>1. CASE /\ UNCHANGED <<logged, crashes>>
           /\ file' = "open" => file = "open"
           /\ ToSet(handed') \subseteq ToSet(handed) \cup ToSet(Held)
           /\ ToSet(Held') \subseteq ToSet(Held)
           /\ ToSet(buffer') \subseteq ToSet(buffer)
           /\ file' = "open" => \A i \in Coming' : i \in Coming /\ blocks'[i] = blocks[i]
  <2>1. ForMemory' = ForMemory
    BY <1>1, SameRelations
  <2>2. SUFFICES ASSUME file = "open", file' = "open" PROVE ComingOrder'
    BY <1>1 DEF ComingOrder
  <2>3. ASSUME NEW i \in Coming'
        PROVE  /\ Apart(ForMemory, ToSet(handed'), ToSet(blocks[i]))
               /\ Apart(ForMemory, ToSet(Held'), ToSet(blocks[i]))
               /\ Apart(ForMemory, ToSet(blocks[i]), ToSet(buffer'))
    <3>1. i \in Coming
      BY <1>1, <2>2
    <3>2. /\ Apart(ForMemory, ToSet(handed), ToSet(blocks[i]))
          /\ Apart(ForMemory, ToSet(Held), ToSet(blocks[i]))
          /\ Apart(ForMemory, ToSet(blocks[i]), ToSet(buffer))
      BY <2>2, <3>1 DEF ComingOrder
    <3> QED BY <1>1, <3>2 DEF Apart
  <2>4. \A i, j \in Coming' : i < j => Apart(ForMemory, ToSet(blocks'[i]), ToSet(blocks'[j]))
    BY <1>1, <2>2 DEF ComingOrder
  <2>5. \A i \in Coming' : blocks'[i] = blocks[i]
    BY <1>1, <2>2
  <2> QED BY <2>1, <2>3, <2>4, <2>5 DEF ComingOrder
<1>2. CASE /\ UNCHANGED <<blocks, readblock, writeblock, handed, logged, crashes>>
           /\ file' = "open" => file = "open"
           /\ Held' = Held \/ Held' = <<>>
           /\ buffer' = buffer \/ buffer' = <<>>
  <2>1. Coming' = Coming
    BY <1>2 DEF Coming, LastComing
  <2>2. /\ ToSet(handed') \subseteq ToSet(handed) \cup ToSet(Held)
        /\ ToSet(Held') \subseteq ToSet(Held)
        /\ ToSet(buffer') \subseteq ToSet(buffer)
    BY <1>0, <1>2
  <2> QED BY <1>1, <1>2, <2>1, <2>2
<1>3. ASSUME NEW r \in Record, Write(r) PROVE ComingOrder'
  <2>1. UNCHANGED <<blocks, readblock, writeblock, handed, logged, crashes, reader, loaded, buffer,
                    file>>
    BY <1>3 DEF Write, disk, numbers, reading, failing
  <2> QED BY <1>2, <2>1 DEF Held
<1>4. CASE Tick \/ Close \/ ReadFails \/ AppendFails
  <2>1. /\ UNCHANGED <<blocks, readblock, writeblock, handed, logged, crashes, reader, loaded>>
        /\ buffer' = buffer \/ buffer' = <<>>
        /\ file' = "open" => file = "open"
    BY <1>4 DEF Tick, Close, ReadFails, AppendFails, Reset,
                disk, numbers, reading, writing, outcome, failing
  <2> QED BY <1>2, <2>1 DEF Held
<1>5. CASE ZeroWriteOff \/ Advance
  <2>1. /\ UNCHANGED <<blocks, readblock, writeblock, handed, logged, crashes, loaded, buffer, file>>
        /\ reader \in Taking /\ reader' \in Taking \cup {"sub"}
    BY <1>5 DEF ZeroWriteOff, Advance, numbers, writing, outcome, failing, Taking
  <2> QED BY <1>2, <2>1 DEF Held, Taking
<1>6. CASE SaveGroups \/ SaveGroupsFails
  <2>1. /\ UNCHANGED <<blocks, readblock, writeblock, handed, logged, crashes, buffer, file>>
        /\ reader' = "poll"
    BY <1>6 DEF SaveGroups, SaveGroupsFails, Poll, disk, numbers, writing, outcome, failing
  <2> QED BY <1>2, <2>1 DEF Held
<1>7. CASE SaveChats \/ SaveChatsFails
  <2>1. /\ UNCHANGED <<blocks, readblock, writeblock, logged, crashes, buffer, file>>
        /\ reader = "sub" /\ reader' \in {"groups", "poll"} /\ handed' = handed \o loaded
    BY <1>7 DEF SaveChats, SaveChatsFails, Poll, disk, numbers, writing, failing
  <2>2. Held = loaded /\ ToSet(Held') = {}
    BY <1>0, <2>1 DEF Held
  <2>3. ToSet(handed') = ToSet(handed) \cup ToSet(Held)
    BY <1>0, <2>1, <2>2, InSequences
  <2>4. Coming' = Coming
    BY <2>1 DEF Coming, LastComing
  <2>5. UNCHANGED <<blocks, logged, crashes, buffer, file>>
    BY <2>1
  <2> QED BY <1>1, <2>2, <2>3, <2>4, <2>5
<1>8. CASE Store
  <2>0. UNCHANGED <<blocks, readblock, writeblock, handed, crashes, reader, loaded, file>>
    BY <1>8 DEF Store, disk, numbers, reading, failing
  <2>1. CASE logged' = logged
    BY <1>2, <1>8, <2>0, <2>1, StoreNothing DEF Held
  <2>2. CASE logged' # logged
    <3>1. PICK r \in Record :
            /\ buffer' = Append(buffer, r)
            /\ \A q \in ToSet(logged) :
                 /\ <<q, r>> \in ForMemory'
                 /\ \A p \in ToSet(logged) : <<p, q>> \in ForMemory <=> <<p, q>> \in ForMemory'
      BY <1>8, <2>2, StoreRelations
    <3>2. ToSet(buffer') = ToSet(buffer) \cup {r}
      BY <1>0, <3>1, InSequences
    <3>3. \A X, Y \in SUBSET ToSet(logged) :
            /\ Apart(ForMemory, X, Y) => Apart(ForMemory', X, Y)
            /\ Apart(ForMemory', X, {r})
      BY <3>1 DEF Apart
    <3>4. /\ ToSet(handed) \in SUBSET ToSet(logged) /\ ToSet(Held) \in SUBSET ToSet(logged)
          /\ ToSet(buffer) \in SUBSET ToSet(logged)
      BY <1>0 DEF Contents, Held
    <3>5. Held' = Held /\ Coming' = Coming
      BY <2>0 DEF Held, Coming, LastComing
    <3>6. SUFFICES ASSUME file = "open" PROVE ComingOrder'
      BY <2>0 DEF ComingOrder
    <3>7. \A i \in Coming : ToSet(blocks[i]) \in SUBSET ToSet(logged)
      BY <3>6, ComingInFile DEF Contents
    <3>8. ASSUME NEW i \in Coming
          PROVE  /\ Apart(ForMemory', ToSet(handed), ToSet(blocks[i]))
                 /\ Apart(ForMemory', ToSet(Held), ToSet(blocks[i]))
                 /\ Apart(ForMemory', ToSet(blocks[i]), ToSet(buffer'))
      BY <3>2, <3>3, <3>4, <3>6, <3>7, ApartFacts DEF ComingOrder
    <3>9. \A i, j \in Coming : i < j => Apart(ForMemory', ToSet(blocks[i]), ToSet(blocks[j]))
      BY <3>3, <3>6, <3>7 DEF ComingOrder
    <3> QED BY <2>0, <3>5, <3>8, <3>9 DEF ComingOrder
  <2> QED BY <2>1, <2>2
<1>9. CASE AppendBlock
  <2>1. UNCHANGED <<readblock, writeblock, handed, logged, crashes, reader, loaded, buffer, file>>
    BY <1>9 DEF AppendBlock, numbers, reading, outcome, failing
  <2>2. ASSUME file = "open", NEW i \in Coming' PROVE i \in Coming /\ blocks'[i] = blocks[i]
    <3>1. writeblock <= Len(blocks)
      BY <2>2, ComingInFile
    <3>2. CASE writeblock < Len(blocks)
      <4>1. /\ Len(blocks') = Len(blocks)
            /\ \A j \in 1..Len(blocks) : j # writeblock + 1 => blocks'[j] = blocks[j]
        BY <1>0, <1>9, <3>2, AppendedBlocks
      <4>2. i \in Coming
        BY <2>1, <2>2, <4>1 DEF Coming, LastComing
      <4>3. i \in 1..Len(blocks)
        BY <2>2, <4>2, ComingInFile
      <4>4. i # writeblock + 1
        BY <1>0, <2>1, <2>2, <4>2 DEF Coming, LastComing
      <4> QED BY <4>1, <4>2, <4>3, <4>4
    <3>3. CASE ~(writeblock < Len(blocks))
      <4>1. /\ Len(blocks') = Len(blocks) + 1
            /\ \A j \in 1..Len(blocks) : blocks'[j] = blocks[j]
        BY <1>0, <1>9, <3>3, AppendedBlocks
      <4>2. \A m, n \in Nat : m <= n /\ ~(m < n) => m = n
        OBVIOUS
      <4>3. writeblock = Len(blocks)
        BY <1>0, <3>1, <3>3, <4>2
      <4>4. LastComing' = IF writeblock < readblock THEN writeblock + 1 ELSE writeblock
        BY <2>1, <4>1, <4>3 DEF LastComing
      <4>5. i \in readblock + 1 .. LastComing'
        BY <2>1, <2>2 DEF Coming
      <4>6. ~(writeblock < readblock)
        BY <1>0, <4>4, <4>5
      <4>7. i \in Coming
        BY <4>4, <4>5, <4>6 DEF Coming, LastComing
      <4> QED BY <2>2, <4>1, <4>7, ComingInFile
    <3> QED BY <3>2, <3>3
  <2>3. Held' = Held
    BY <2>1 DEF Held
  <2> QED BY <1>1, <2>1, <2>2, <2>3
<1>10. CASE AppendHeader
  <2>1. /\ UNCHANGED <<blocks, readblock, handed, logged, crashes, reader, loaded, file>>
        /\ writer = "header" /\ writeblock' = writeblock + 1 /\ buffer' = <<>>
    BY <1>10 DEF AppendHeader, Reset, reading, outcome, failing
  <2>2. Held' = Held /\ ForMemory' = ForMemory
    BY <2>1, SameRelations DEF Held
  <2>3. SUFFICES ASSUME file = "open" PROVE ComingOrder'
    BY <2>1 DEF ComingOrder
  <2>4. blocks[writeblock + 1] = buffer
    BY <2>1, <2>3 DEF Positions
  <2>5. ASSUME NEW i \in Coming' PROVE i \in Coming \/ (i = writeblock + 1 /\ ~(writeblock < readblock))
    BY <1>0, <2>1 DEF Coming, LastComing
  <2>6. ASSUME NEW i \in Coming', NEW j \in Coming', i < j
        PROVE  Apart(ForMemory, ToSet(blocks[i]), ToSet(blocks[j]))
    <3>1. CASE i \in Coming /\ j \in Coming
      BY <2>3, <2>6, <3>1 DEF ComingOrder
    <3>2. CASE i \in Coming /\ j = writeblock + 1
      BY <2>3, <2>4, <3>2 DEF ComingOrder
    <3>3. CASE i = writeblock + 1 /\ ~(writeblock < readblock)
      BY <1>0, <2>1, <2>6, <3>3 DEF Coming, LastComing
    <3> QED BY <2>5, <3>1, <3>2, <3>3
  <2>7. ASSUME NEW i \in Coming'
        PROVE  /\ Apart(ForMemory, ToSet(handed), ToSet(blocks[i]))
               /\ Apart(ForMemory, ToSet(Held), ToSet(blocks[i]))
    <3>1. CASE i \in Coming
      BY <2>3, <3>1 DEF ComingOrder
    <3>2. CASE i = writeblock + 1
      BY <2>4, <3>2 DEF MemoryOrder
    <3> QED BY <2>5, <3>1, <3>2
  <2>8. \A X : Apart(ForMemory', X, ToSet(buffer'))
    BY <1>0, <2>1, ApartFacts
  <2>9. UNCHANGED <<blocks, handed>>
    BY <2>1
  <2> QED BY <2>2, <2>6, <2>7, <2>8, <2>9 DEF ComingOrder
<1>11. CASE GetBlock
  <2>1. /\ UNCHANGED <<blocks, handed, logged, crashes, buffer, file>>
        /\ reader' \in {"zero", "advance"} /\ loaded' = blocks[readblock + 1]
        /\ readblock # writeblock /\ readblock < Len(blocks) /\ file = "open"
        /\ \/ readblock' = 0 /\ writeblock' = 0
           \/ readblock' = readblock + 1 /\ writeblock' = writeblock /\ readblock + 1 # writeblock
    BY <1>11 DEF GetBlock, disk, writing, outcome, failing
  <2>2. ForMemory' = ForMemory /\ Held' = blocks[readblock + 1]
    BY <2>1, SameRelations DEF Held
  <2>3. readblock + 1 \in Coming
    BY <1>0, <2>1, ComingInFile DEF Coming, LastComing
  <2>4. ASSUME NEW i \in Coming' PROVE i \in Coming /\ readblock + 1 < i
    <3>1. CASE readblock' = 0 /\ writeblock' = 0
      BY <2>4, <3>1 DEF Coming, LastComing
    <3>2. CASE readblock' = readblock + 1 /\ writeblock' = writeblock /\ readblock + 1 # writeblock
      BY <1>0, <2>1, <2>4, <3>2 DEF Coming, LastComing
    <3> QED BY <2>1, <3>1, <3>2
  <2>5. \A i \in Coming' : /\ Apart(ForMemory, ToSet(handed), ToSet(blocks[i]))
                           /\ Apart(ForMemory, ToSet(blocks[readblock + 1]), ToSet(blocks[i]))
                           /\ Apart(ForMemory, ToSet(blocks[i]), ToSet(buffer))
    BY <2>1, <2>3, <2>4 DEF ComingOrder
  <2>6. \A i, j \in Coming' : i < j => Apart(ForMemory, ToSet(blocks[i]), ToSet(blocks[j]))
    BY <2>1, <2>4 DEF ComingOrder
  <2>7. UNCHANGED <<blocks, handed, buffer>>
    BY <2>1
  <2> QED BY <2>2, <2>5, <2>6, <2>7 DEF ComingOrder
<1>12. CASE Truncate
  <2>1. /\ UNCHANGED <<handed, logged, crashes, buffer, file, readblock, writeblock, loaded>>
        /\ reader = "truncate" /\ reader' = "advance"
        /\ blocks' = IF file = "open" THEN <<>> ELSE blocks
    BY <1>12 DEF Truncate, numbers, writing, outcome, failing
  <2>2. file = "open" => Coming' = {}
    <3>1. file = "open" => readblock' = 0 /\ writeblock' = 0
      BY <1>0, <2>1 DEF OffInv
    <3> QED BY <3>1 DEF Coming, LastComing
  <2> QED BY <2>1, <2>2 DEF ComingOrder
<1>13. CASE Crash
  <2>1. /\ UNCHANGED <<blocks, handed>> /\ buffer' = <<>> /\ reader' = "poll"
        /\ readblock' = readOff /\ writeblock' = writeOff /\ file = "open"
    BY <1>13 DEF Crash, Reopened, disk
  <2>2. ForDisk \subseteq ForMemory'
    BY <1>13, CrashRelations
  <2>3. \A X, Y : Apart(ForDisk, X, Y) => Apart(ForMemory', X, Y)
    BY <2>2, ApartFacts
  <2>4. \A X : Apart(ForMemory', X, ToSet(buffer')) /\ Apart(ForMemory', ToSet(Held'), X)
    BY <1>0, <2>1, ApartFacts DEF Held
  <2>5. \A i \in Coming' : i \in OnDisk
    <3>1. writeOff <= Len(blocks)
      BY <1>0, <2>1 DEF OffInv
    <3> QED BY <1>0, <2>1, <3>1 DEF Coming, LastComing, OnDisk
  <2>6. \A i \in Coming' : Apart(ForDisk, ToSet(handed), ToSet(blocks[i]))
    BY <2>1, <2>5 DEF DiskOrder
  <2>7. \A i, j \in Coming' : i < j => Apart(ForDisk, ToSet(blocks[i]), ToSet(blocks[j]))
    BY <2>1, <2>5 DEF DiskOrder
  <2>8. UNCHANGED <<blocks, handed>>
    BY <2>1
  <2> QED BY <2>3, <2>4, <2>6, <2>7, <2>8 DEF ComingOrder
<1> QED BY <1>3, <1>4, <1>5, <1>6, <1>7, <1>8, <1>9, <1>10, <1>11, <1>12, <1>13
        DEF Next, Writer, Reader

-----------------------------------------------------------------------------
(* The tables hold what sub got, and between its two saves the group        *)
(* messages of the block are still to come.                                 *)
Kinds == {"chat", "group"}
TableOrder ==
  /\ \A kind \in Kinds :
       Sorted(ForMemory, Table(kind)) /\ ToSet(Table(kind)) \subseteq ToSet(handed)
  /\ reader = "groups" => /\ Apart(ForMemory, ToSet(Table("group")), ToSet(loaded))
                          /\ ToSet(loaded) \subseteq ToSet(handed)

(* The tables are empty when the log starts.                                *)
LEMMA TableInit == Init => TableOrder
<1>1. ToSet(<<>>) = {} /\ (\A R : Sorted(R, <<>>)) /\ <<>> \in Seq(Record)
  BY EmptySeq, InSequences DEF Sorted
<1>2. \A kind : OfKind(kind) \in SUBSET Record
  BY DEF OfKind
<1>3. \A kind : Only(<<>>, OfKind(kind)) = <<>>
  BY <1>1, <1>2, OnlyAppend
<1> QED BY <1>1, <1>3 DEF Init, TableOrder, Table, Apart

(* A table after the records of one kind were saved.                        *)
LEMMA TableGrows ==
  ASSUME OtherTypes, NEW kind \in Kinds, NEW of \in Kinds, saved' = saved \o Loaded(of)
  PROVE  /\ kind # of => Table(kind)' = Table(kind)
         /\ kind = of => Table(kind)' = Table(kind) \o Loaded(of)
         /\ Loaded(of) \in Seq(Record) /\ Table(kind) \in Seq(Record)
         /\ ToSet(Loaded(of)) \subseteq ToSet(loaded)
         /\ \A R \in SUBSET (Record \X Record) : Sorted(R, loaded) => Sorted(R, Loaded(of))
<1>1. saved \in Seq(Record) /\ loaded \in Seq(Record)
  BY DEF OtherTypes
<1>2. OfKind(kind) \in SUBSET Record /\ OfKind(of) \in SUBSET Record
  BY DEF OfKind
<1>3. /\ Loaded(of) \in Seq(Record) /\ Table(kind) \in Seq(Record)
      /\ ToSet(Loaded(of)) = ToSet(loaded) \cap OfKind(of)
      /\ \A R \in SUBSET (Record \X Record) : Sorted(R, loaded) => Sorted(R, Loaded(of))
  BY <1>1, <1>2, OnlyAppend, OnlyKeeps DEF Loaded, Table
<1>4. Table(kind)' = Table(kind) \o Only(Loaded(of), OfKind(kind))
  <2> DEFINE l == Loaded(of)
  <2>1. l \in Seq(Record) /\ saved' = saved \o l
    BY <1>3
  <2> HIDE DEF l
  <2>2. Only(saved \o l, OfKind(kind)) = Only(saved, OfKind(kind)) \o Only(l, OfKind(kind))
    BY <1>1, <1>2, <2>1, OnlyConcat
  <2>3. Table(kind)' = Only(saved \o l, OfKind(kind))
    BY <2>1 DEF Table, OfKind
  <2> QED BY <2>2, <2>3 DEF Table, l
<1>5. ASSUME kind # of PROVE Table(kind)' = Table(kind)
  <2>1. ToSet(Loaded(of)) \cap OfKind(kind) = {}
    BY <1>3, <1>5 DEF OfKind
  <2>2. Only(Loaded(of), OfKind(kind)) = <<>>
    BY <1>2, <1>3, <2>1, OnlyTwice
  <2> QED BY <1>3, <1>4, <2>2, ConcatEmptySeq
<1>6. ASSUME kind = of PROVE Table(kind)' = Table(kind) \o Loaded(of)
  <2>1. ToSet(Loaded(of)) \subseteq OfKind(kind)
    BY <1>3, <1>6
  <2>2. Only(Loaded(of), OfKind(kind)) = Loaded(of)
    BY <1>2, <1>3, <2>1, OnlyTwice
  <2> QED BY <1>4, <2>2
<1> QED BY <1>3, <1>5, <1>6

(* Every step keeps the order of the tables.                                *)
LEMMA TableOrderStep ==
  ASSUME IInv, OtherTypes, Contents, MemoryOrder, TableOrder, Next
  PROVE  TableOrder'
<1>0. /\ crashes \in Nat /\ handed \in Seq(Record) /\ loaded \in Seq(Record)
      /\ saved \in Seq(Record) /\ ToSet(<<>>) = {}
      /\ \A kind : OfKind(kind) \in SUBSET Record
      /\ ToSet(logged) \in SUBSET Record /\ wlog \in Seq(Record)
  BY EmptySeq, InSequences DEF IInv, Types, OtherTypes, OfKind
<1>1. CASE /\ UNCHANGED <<saved, handed>>
           /\ ForMemory \subseteq ForMemory'
           /\ reader' = "groups" => reader = "groups" /\ loaded' = loaded
  <2>1. \A kind : Table(kind)' = Table(kind)
    BY <1>1 DEF Table, OfKind
  <2>2. \A s : Sorted(ForMemory, s) => Sorted(ForMemory', s)
    BY <1>1 DEF Sorted
  <2>3. \A X, Y : Apart(ForMemory, X, Y) => Apart(ForMemory', X, Y)
    BY <1>1, ApartFacts
  <2> QED BY <1>1, <2>1, <2>2, <2>3 DEF TableOrder
<1>2. ASSUME NEW r \in Record, Write(r) PROVE TableOrder'
  <2>1. UNCHANGED <<saved, handed, logged, crashes, reader, loaded>>
    BY <1>2 DEF Write, reading, failing, saving
  <2> QED BY <1>1, <2>1, SameRelations
<1>3. CASE \/ Tick \/ Close \/ ReadFails \/ AppendBlock \/ AppendFails \/ AppendHeader
           \/ GetBlock \/ ZeroWriteOff \/ Truncate \/ Advance
  <2>1. /\ UNCHANGED <<saved, handed, logged, crashes>>
        /\ reader' = "groups" => reader = "groups" /\ loaded' = loaded
    BY <1>3 DEF Tick, Close, ReadFails, AppendBlock, AppendFails, AppendHeader, GetBlock,
                ZeroWriteOff, Truncate, Advance, reading, outcome, failing, saving
  <2> QED BY <1>1, <2>1, SameRelations
<1>4. CASE Store
  <2>0. UNCHANGED <<saved, handed, crashes, reader, loaded>>
    BY <1>4 DEF Store, reading, failing, saving
  <2>1. CASE logged' = logged
    BY <1>1, <2>0, <2>1, SameRelations
  <2>2. CASE logged' # logged
    <3>1. \A p, q \in ToSet(logged) : <<p, q>> \in ForMemory => <<p, q>> \in ForMemory'
      BY <1>4, <2>2, StoreRelations
    <3>2. \A kind : Table(kind)' = Table(kind)
      BY <2>0 DEF Table, OfKind
    <3>3. ToSet(handed) \subseteq ToSet(logged) /\ ToSet(loaded) \subseteq ToSet(logged)
      BY DEF Contents
    <3>4. ASSUME NEW kind \in Kinds
          PROVE  Sorted(ForMemory', Table(kind)) /\ ToSet(Table(kind)) \subseteq ToSet(handed)
      <4>1. ToSet(Table(kind)) \subseteq ToSet(handed) /\ Sorted(ForMemory, Table(kind))
        BY DEF TableOrder
      <4>2. \A i \in DOMAIN Table(kind) : Table(kind)[i] \in ToSet(logged)
        <5>1. Table(kind) \in Seq(Record)
          BY <1>0, OnlyAppend DEF Table
        <5> QED BY <3>3, <4>1, <5>1, InSequences
      <4> QED BY <3>1, <4>1, <4>2 DEF Sorted
    <3>5. reader = "groups" => Apart(ForMemory', ToSet(Table("group")), ToSet(loaded))
      <4>1. ToSet(Table("group")) \subseteq ToSet(logged)
        BY <3>3, <3>4 DEF Kinds
      <4> QED BY <3>1, <3>3, <4>1 DEF TableOrder, Apart
    <3> QED BY <2>0, <3>2, <3>4, <3>5 DEF TableOrder
  <2> QED BY <2>1, <2>2
<1>5. CASE Crash
  <2>1. UNCHANGED <<saved, handed>> /\ reader' = "poll"
    BY <1>5 DEF Crash, saving
  <2> QED BY <1>1, <1>5, <2>1, CrashRelations
<1>6. CASE SaveGroupsFails
  <2>1. UNCHANGED <<saved, handed, logged, crashes>> /\ reader' = "poll"
    BY <1>6 DEF SaveGroupsFails, Poll, outcome
  <2> QED BY <1>1, <2>1, SameRelations
<1>7. ASSUME SaveChats \/ SaveChatsFails \/ SaveGroups
      PROVE  /\ ForMemory' = ForMemory /\ ForMemory \in SUBSET (Record \X Record)
             /\ Sorted(ForMemory, loaded)
  <2>1. UNCHANGED <<logged, crashes>>
    BY <1>7 DEF SaveChats, SaveChatsFails, SaveGroups, outcome, failing
  <2>2. ForMemory' = ForMemory /\ InBlock \subseteq ForMemory
        /\ ForMemory \in SUBSET (Record \X Record)
    BY <1>0, <2>1, SameRelations, Relations
  <2> QED BY <2>2 DEF Contents, Sorted
<1>8. CASE SaveChatsFails
  <2>1. saved' = saved /\ reader' = "poll" /\ handed' = handed \o loaded
    BY <1>8 DEF SaveChatsFails, Poll
  <2>2. ToSet(handed') = ToSet(handed) \cup ToSet(loaded)
    BY <1>0, <2>1, InSequences
  <2>3. \A kind : Table(kind)' = Table(kind)
    BY <2>1 DEF Table, OfKind
  <2>4. reader' # "groups"
    BY <2>1
  <2> QED BY <1>7, <1>8, <2>2, <2>3, <2>4 DEF TableOrder
<1>9. CASE SaveChats
  <2>1. /\ saved' = saved \o Loaded("chat") /\ reader = "sub" /\ handed' = handed \o loaded
        /\ loaded' = loaded
    BY <1>9 DEF SaveChats
  <2>2. ToSet(handed') = ToSet(handed) \cup ToSet(loaded) /\ Held = loaded
    BY <1>0, <2>1, InSequences DEF Held
  <2>3. /\ Table("group")' = Table("group")
        /\ Table("chat")' = Table("chat") \o Loaded("chat")
        /\ Loaded("chat") \in Seq(Record) /\ Table("chat") \in Seq(Record)
        /\ ToSet(Loaded("chat")) \subseteq ToSet(loaded)
        /\ Sorted(ForMemory, Loaded("chat"))
    BY <1>7, <1>9, <2>1, TableGrows DEF Kinds
  <2>4. \A kind \in Kinds : ToSet(Table(kind)) \subseteq ToSet(handed) /\ Sorted(ForMemory, Table(kind))
    BY DEF TableOrder
  <2>5. \A kind \in Kinds : Apart(ForMemory, ToSet(Table(kind)), ToSet(loaded))
    BY <2>2, <2>4 DEF MemoryOrder, Apart
  <2>6. /\ ToSet(Table("chat")') = ToSet(Table("chat")) \cup ToSet(Loaded("chat"))
        /\ Sorted(ForMemory, Table("chat")')
    <3>1. Apart(ForMemory, ToSet(Table("chat")), ToSet(Loaded("chat")))
      BY <2>3, <2>5 DEF Kinds, Apart
    <3>2. Sorted(ForMemory, Table("chat") \o Loaded("chat"))
      BY <1>7, <1>9, <2>3, <2>4, <3>1, SortedConcat DEF Kinds
    <3>3. ToSet(Table("chat") \o Loaded("chat")) = ToSet(Table("chat")) \cup ToSet(Loaded("chat"))
      BY <2>3, InSequences
    <3> QED BY <2>3, <3>2, <3>3
  <2>7. \A kind \in Kinds :
          Sorted(ForMemory', Table(kind)') /\ ToSet(Table(kind)') \subseteq ToSet(handed')
    <3> TAKE kind \in Kinds
    <3>1. CASE kind = "chat"
      BY <1>7, <1>9, <2>2, <2>3, <2>4, <2>6, <3>1
    <3>2. CASE kind = "group"
      BY <1>7, <1>9, <2>2, <2>3, <2>4, <3>2
    <3> QED BY <3>1, <3>2 DEF Kinds
  <2>8. Apart(ForMemory', ToSet(Table("group")'), ToSet(loaded')) /\ ToSet(loaded') \subseteq ToSet(handed')
    BY <1>7, <1>9, <2>1, <2>2, <2>3, <2>5 DEF Kinds
  <2> QED BY <2>7, <2>8 DEF TableOrder
<1>10. CASE SaveGroups
  <2>1. /\ saved' = saved \o Loaded("group") /\ reader = "groups" /\ handed' = handed
        /\ reader' = "poll"
    BY <1>10 DEF SaveGroups, Poll, outcome
  <2>2. Apart(ForMemory, ToSet(Table("group")), ToSet(loaded)) /\ ToSet(loaded) \subseteq ToSet(handed)
    BY <2>1 DEF TableOrder
  <2>3. /\ Table("chat")' = Table("chat")
        /\ Table("group")' = Table("group") \o Loaded("group")
        /\ Loaded("group") \in Seq(Record) /\ Table("group") \in Seq(Record)
        /\ ToSet(Loaded("group")) \subseteq ToSet(loaded)
        /\ Sorted(ForMemory, Loaded("group"))
    BY <1>7, <1>10, <2>1, TableGrows DEF Kinds
  <2>4. \A kind \in Kinds : ToSet(Table(kind)) \subseteq ToSet(handed) /\ Sorted(ForMemory, Table(kind))
    BY DEF TableOrder
  <2>5. /\ ToSet(Table("group")') = ToSet(Table("group")) \cup ToSet(Loaded("group"))
        /\ Sorted(ForMemory, Table("group")')
    <3>1. Apart(ForMemory, ToSet(Table("group")), ToSet(Loaded("group")))
      BY <2>2, <2>3 DEF Apart
    <3>2. Sorted(ForMemory, Table("group") \o Loaded("group"))
      BY <1>7, <1>10, <2>3, <2>4, <3>1, SortedConcat DEF Kinds
    <3>3. ToSet(Table("group") \o Loaded("group")) = ToSet(Table("group")) \cup ToSet(Loaded("group"))
      BY <2>3, InSequences
    <3> QED BY <2>3, <3>2, <3>3
  <2>6. \A kind \in Kinds :
          Sorted(ForMemory', Table(kind)') /\ ToSet(Table(kind)') \subseteq ToSet(handed')
    <3> TAKE kind \in Kinds
    <3>1. CASE kind = "chat"
      BY <1>7, <1>10, <2>1, <2>3, <2>4, <3>1
    <3>2. CASE kind = "group"
      BY <1>7, <1>10, <2>1, <2>2, <2>3, <2>4, <2>5, <3>2
    <3> QED BY <3>1, <3>2 DEF Kinds
  <2>7. reader' # "groups"
    BY <2>1
  <2> QED BY <2>6, <2>7 DEF TableOrder
<1> QED BY <1>2, <1>3, <1>4, <1>5, <1>6, <1>8, <1>9, <1>10
        DEF Next, Writer, Reader

-----------------------------------------------------------------------------
(* One sequence behind another.                                             *)
Then(s, t) == s \o t

(* How sequences are put one behind the other.                              *)
LEMMA ThenFacts ==
  ASSUME NEW S
  PROVE  /\ <<>> \in Seq(S)
         /\ \A s, t \in Seq(S) : Then(s, t) \in Seq(S)
         /\ \A s \in Seq(S) : Then(s, <<>>) = s /\ Then(<<>>, s) = s
         /\ \A s, t, u \in Seq(S) : Then(Then(s, t), u) = Then(s, Then(t, u))
         /\ \A s, t \in Seq(S), e \in S : Then(s, Append(t, e)) = Append(Then(s, t), e)
<1>1. <<>> \in Seq(S) /\ \A s, t \in Seq(S) : Then(s, t) \in Seq(S)
  BY EmptySeq, ConcatProperties DEF Then
<1>2. \A s \in Seq(S) : Then(s, <<>>) = s /\ Then(<<>>, s) = s
  BY ConcatEmptySeq DEF Then
<1>3. \A s, t, u \in Seq(S) : Then(Then(s, t), u) = Then(s, Then(t, u))
  BY ConcatAssociative DEF Then
<1>4. \A s, t \in Seq(S), e \in S : Then(s, Append(t, e)) = Append(Then(s, t), e)
  BY AppendBehind DEF Then
<1> QED BY <1>1, <1>2, <1>3, <1>4

(* Only takes from each of the two.                                         *)
LEMMA ThenOnly ==
  ASSUME NEW S \in SUBSET Record
  PROVE  \A s, t \in Seq(Record) : Only(Then(s, t), S) = Then(Only(s, S), Only(t, S))
  BY OnlyConcat DEF Then

(* The records of blocks put one behind the other.                          *)
LEMMA ThenFlatten ==
  ASSUME NEW S
  PROVE  /\ \A w \in Seq(Seq(S)) : FlattenSeq(w) \in Seq(S)
         /\ FlattenSeq(<<>>) = <<>>
         /\ \A w \in Seq(Seq(S)), x \in Seq(S) :
              /\ FlattenSeq(Append(w, x)) = Then(FlattenSeq(w), x)
              /\ FlattenSeq(Then(<<x>>, w)) = Then(x, FlattenSeq(w))
<1>1. \A w \in Seq(Seq(S)), x \in Seq(S) : FlattenSeq(Append(w, x)) = Then(FlattenSeq(w), x)
  BY FlattenAppend DEF Then
<1>2. \A w \in Seq(Seq(S)), x \in Seq(S) : FlattenSeq(Then(<<x>>, w)) = Then(x, FlattenSeq(w))
  BY FlattenFront DEF Then
<1>3. <<>> \in Seq(Seq(S)) /\ <<>> \in Seq(S)
  BY EmptySeq
<1>4. FlattenSeq(<<>>) = <<>>
  BY <1>3, FlattenAppend
<1>5. \A w \in Seq(Seq(S)) : FlattenSeq(w) \in Seq(S)
  BY <1>3, FlattenAppend
<1> QED BY <1>1, <1>2, <1>4, <1>5

(* The blocks of a part of the file.                                        *)
Part(b, from, to) == [i \in 1..(to - from) |-> b[from + i]]

(* A part of the file has the blocks from the one place to the other.       *)
LEMMA PartFacts ==
  ASSUME NEW S, NEW b \in Seq(S), NEW from \in Nat, NEW to \in Nat,
         from <= to, to <= Len(b)
  PROVE  /\ Part(b, from, to) \in Seq(S) /\ Len(Part(b, from, to)) = to - from
         /\ \A i \in 1..(to - from) : Part(b, from, to)[i] = b[from + i]
<1>1. to - from \in Nat /\ Len(b) \in Nat
  BY LenProperties
<1>2. \A i \in 1..(to - from) : b[from + i] \in S
  <2> TAKE i \in 1..(to - from)
  <2>1. from + i \in 1..Len(b)
    BY <1>1
  <2> QED BY <2>1, ElementOfSeq
<1> QED BY <1>1, <1>2 DEF Part

(* A part that ends one block later has that block behind it.               *)
LEMMA PartLast ==
  ASSUME NEW S, NEW b \in Seq(S), NEW from \in Nat, NEW to \in Nat,
         from <= to, to < Len(b)
  PROVE  Part(b, from, to + 1) = Append(Part(b, from, to), b[to + 1])
<1> DEFINE p == Part(b, from, to)
           q == Part(b, from, to + 1)
           a == Append(p, b[to + 1])
<1>0. Len(b) \in Nat /\ to + 1 \in Nat /\ from <= to + 1 /\ to + 1 <= Len(b) /\ to <= Len(b)
      /\ (to + 1) - from = (to - from) + 1 /\ to - from \in Nat
      /\ from + ((to - from) + 1) = to + 1
  BY LenProperties
<1>1. /\ p \in Seq(S) /\ Len(p) = to - from
      /\ \A i \in 1..(to - from) : p[i] = b[from + i]
  <2>1. to <= Len(b)
    BY <1>0
  <2> QED BY <2>1, PartFacts
<1>2. /\ q \in Seq(S) /\ Len(q) = (to - from) + 1
      /\ \A i \in 1 .. (to - from) + 1 : q[i] = b[from + i]
  <2> DEFINE m == to + 1
  <2>1. m \in Nat /\ from <= m /\ m <= Len(b) /\ m - from = (to - from) + 1
    BY <1>0
  <2> HIDE DEF m
  <2>2. /\ Part(b, from, m) \in Seq(S) /\ Len(Part(b, from, m)) = m - from
        /\ \A i \in 1..(m - from) : Part(b, from, m)[i] = b[from + i]
    <3>1. b \in Seq(S) /\ m \in Nat /\ from \in Nat /\ from <= m /\ m <= Len(b)
      BY <2>1
    <3> HIDE DEF p, q, a
    <3> QED BY <3>1, PartFacts
  <2>3. q = Part(b, from, m)
    BY DEF m
  <2> HIDE DEF q
  <2> QED BY <2>1, <2>2, <2>3
<1>3. b[to + 1] \in S
  <2>1. to + 1 \in 1..Len(b)
    BY <1>0
  <2> QED BY <2>1, ElementOfSeq
<1> HIDE DEF p, q
<1>4. /\ a \in Seq(S) /\ Len(a) = (to - from) + 1
      /\ \A i \in 1 .. (to - from) + 1 : a[i] = IF i <= to - from THEN p[i] ELSE b[to + 1]
  BY <1>0, <1>1, <1>3
<1> HIDE DEF a
<1>5. \A i \in 1..Len(q) : q[i] = a[i]
  <2> TAKE i \in 1..Len(q)
  <2>1. i \in 1 .. (to - from) + 1
    BY <1>2
  <2>2. CASE i <= to - from
    <3>1. i \in 1..(to - from)
      BY <1>0, <2>1, <2>2
    <3> QED BY <1>1, <1>2, <1>4, <2>1, <2>2, <3>1
  <2>3. CASE ~(i <= to - from)
    <3>1. i = (to - from) + 1
      BY <1>0, <2>1, <2>3
    <3>2. from + i = to + 1
      BY <1>0, <3>1
    <3> QED BY <1>2, <1>4, <2>1, <2>3, <3>2
  <2> QED BY <2>2, <2>3
<1>6. q = a
  BY <1>2, <1>4, <1>5, SeqEqual
<1> QED BY <1>6 DEF p, q, a

(* A part has its first block in front of those that follow.                *)
LEMMA PartFirst ==
  ASSUME NEW S, NEW b \in Seq(S), NEW from \in Nat, NEW to \in Nat,
         from < to, to <= Len(b)
  PROVE  Part(b, from, to) = Then(<<b[from + 1]>>, Part(b, from + 1, to))
<1> DEFINE p == Part(b, from + 1, to)
           q == Part(b, from, to)
           x == b[from + 1]
           a == Then(<<x>>, p)
<1>0. Len(b) \in Nat /\ from + 1 \in Nat /\ from <= to /\ from + 1 <= to
      /\ to - (from + 1) = (to - from) - 1 /\ to - from \in Nat
      /\ 1 + ((to - from) - 1) = to - from
  BY LenProperties
<1>1. /\ q \in Seq(S) /\ Len(q) = to - from
      /\ \A i \in 1..(to - from) : q[i] = b[from + i]
  <2>1. from <= to
    BY <1>0
  <2> QED BY <2>1, PartFacts
<1>2. /\ p \in Seq(S) /\ Len(p) = (to - from) - 1
      /\ \A i \in 1 .. (to - from) - 1 : p[i] = b[(from + 1) + i]
  <2> DEFINE m == from + 1
  <2>1. m \in Nat /\ m <= to /\ to - m = (to - from) - 1
    BY <1>0
  <2> HIDE DEF m
  <2>2. /\ Part(b, m, to) \in Seq(S) /\ Len(Part(b, m, to)) = to - m
        /\ \A i \in 1..(to - m) : Part(b, m, to)[i] = b[m + i]
    <3>1. b \in Seq(S) /\ m \in Nat /\ to \in Nat /\ m <= to /\ to <= Len(b)
      BY <2>1
    <3> HIDE DEF p, q, a, x
    <3> QED BY <3>1, PartFacts
  <2>3. p = Part(b, m, to)
    BY DEF m
  <2> HIDE DEF p
  <2>4. /\ p \in Seq(S) /\ Len(p) = (to - from) - 1
        /\ \A i \in 1 .. (to - from) - 1 : p[i] = b[m + i]
    BY <2>1, <2>2, <2>3
  <2> QED BY <2>4 DEF m
<1>3. x \in S
  <2>1. from + 1 \in 1..Len(b)
    BY <1>0
  <2> QED BY <2>1, ElementOfSeq
<1> HIDE DEF p, q
<1>4. /\ a \in Seq(S) /\ Len(a) = to - from
      /\ \A i \in 1..(to - from) : a[i] = IF i <= 1 THEN x ELSE p[i - 1]
  <2> HIDE DEF x
  <2>1. <<x>> \in Seq(S) /\ Len(<<x>>) = 1 /\ <<x>>[1] = x
    BY <1>3
  <2>2. /\ a \in Seq(S) /\ Len(a) = 1 + Len(p)
        /\ \A i \in 1 .. 1 + Len(p) : a[i] = IF i <= 1 THEN <<x>>[i] ELSE p[i - 1]
    BY <1>2, <2>1, ConcatProperties DEF Then
  <2> HIDE DEF a
  <2>3. 1 + Len(p) = to - from
    BY <1>0, <1>2
  <2>4. \A i \in 1..(to - from) : i <= 1 => i = 1
    BY <1>0
  <2> QED BY <2>1, <2>2, <2>3, <2>4
<1> HIDE DEF a, x
<1>5. \A i \in 1..Len(q) : q[i] = a[i]
  <2> TAKE i \in 1..Len(q)
  <2>1. i \in 1..(to - from)
    BY <1>1
  <2>2. CASE i <= 1
    <3>1. i = 1
      BY <1>0, <2>1, <2>2
    <3> QED BY <1>1, <1>4, <2>1, <3>1 DEF x
  <2>3. CASE ~(i <= 1)
    <3>1. i - 1 \in 1 .. (to - from) - 1 /\ (from + 1) + (i - 1) = from + i
      BY <1>0, <2>1, <2>3
    <3> QED BY <1>1, <1>2, <1>4, <2>1, <2>3, <3>1
  <2> QED BY <2>2, <2>3
<1>6. q = a
  BY <1>1, <1>4, <1>5, SeqEqual
<1> QED BY <1>6 DEF p, q, a, x

(* What was logged and did not fail, and where it is.                       *)
Kept == Only(logged, Record \ dropped)
Whole ==
  crashes = 0 /\ file = "open" => Kept = Then(Then(Then(handed, Held), Unread), buffer)

(* Nothing was logged when the log starts.                                  *)
LEMMA WholeInit == Init => Whole
<1> SUFFICES ASSUME Init PROVE Whole
  OBVIOUS
<1>1. logged = <<>> /\ handed = <<>> /\ Held = <<>> /\ buffer = <<>>
  BY DEF Init, Held
<1>2. Unread = <<>>
  <2>1. \A p \in Seq({}) : Len(p) = 0 => p = <<>>
    BY EmptySeq
  <2>2. blocks \in Seq(Seq(Record)) /\ readblock = 0 /\ writeblock = 0 /\ Len(blocks) = 0
    BY EmptySeq DEF Init
  <2>3. Part(blocks, 0, 0) \in Seq(Seq(Record)) /\ Len(Part(blocks, 0, 0)) = 0
    <3>1. 0 \in Nat /\ 0 <= 0 /\ 0 <= Len(blocks) /\ 0 - 0 = 0
      BY <2>2
    <3>2. \A S : \A b \in Seq(S) :
            0 <= Len(b) => /\ Part(b, 0, 0) \in Seq(S) /\ Len(Part(b, 0, 0)) = 0 - 0
      BY <3>1, PartFacts
    <3> QED BY <2>2, <3>1, <3>2
  <2>4. Part(blocks, 0, 0) = <<>>
    BY <2>3, EmptySeq
  <2>5. Unread = FlattenSeq(Part(blocks, 0, 0))
    BY <2>2 DEF Unread, Part
  <2> QED BY <2>4, <2>5, ThenFlatten
<1>3. Kept = <<>>
  BY <1>1, EmptySeq, OnlyAppend DEF Kept
<1>4. Then(Then(Then(<<>>, <<>>), <<>>), <<>>) = <<>>
  BY ThenFacts
<1> QED BY <1>1, <1>2, <1>3, <1>4 DEF Whole

(* The blocks that are still to be read.                                    *)
LEMMA UnreadIs ==
  ASSUME IInv, crashes = 0, file = "open"
  PROVE  /\ Unread = FlattenSeq(Part(blocks, readblock, writeblock))
         /\ Part(blocks, readblock, writeblock) \in Seq(Seq(Record))
         /\ Unread \in Seq(Record)
         /\ readblock \in Nat /\ writeblock \in Nat /\ readblock <= writeblock
         /\ writeblock <= Len(blocks) /\ blocks \in Seq(Seq(Record)) /\ Len(blocks) \in Nat
<1>1. /\ readblock \in Nat /\ writeblock \in Nat /\ writeblock <= Len(blocks)
      /\ blocks \in Seq(Seq(Record))
  BY ComingInFile DEF IInv, Types
<1>2. readblock <= writeblock
  BY DEF IInv, OffInv
<1>3. Part(blocks, readblock, writeblock) \in Seq(Seq(Record))
  BY <1>1, <1>2, PartFacts
<1>4. Unread = FlattenSeq(Part(blocks, readblock, writeblock))
  BY DEF Unread, Part
<1>5. Unread \in Seq(Record)
  BY <1>3, <1>4, ThenFlatten
<1> QED BY <1>1, <1>2, <1>3, <1>4, <1>5, LenProperties

(* Every step moves records along, or drops those of a block.               *)
LEMMA WholeStep ==
  ASSUME IInv, OtherTypes, Contents, Positions, Whole, Next
  PROVE  Whole'
<1>0. /\ Types /\ LockInv /\ OffInv /\ blocks \in Seq(Seq(Record)) /\ buffer \in Seq(Record)
      /\ handed \in Seq(Record) /\ loaded \in Seq(Record) /\ logged \in Seq(Record)
      /\ wlog \in Seq(Record) /\ Held \in Seq(Record) /\ crashes \in Nat
      /\ dropped \in SUBSET Record /\ (Record \ dropped) \in SUBSET Record
      /\ file \in {"open", "closed"}
  BY EmptySeq DEF IInv, Types, OtherTypes, Held
<1> DEFINE u == Unread
           X == Then(Then(handed, Held), u)
<1>a. Crash \/ Close => Whole'
  BY <1>0 DEF Crash, Close, Whole
<1> SUFFICES ASSUME crashes = 0, file = "open", crashes' = 0, file' = "open" PROVE Whole'
  <2>1. CASE Crash \/ Close
    BY <1>a, <2>1
  <2>2. CASE ~(Crash \/ Close)
    <3>1. UNCHANGED <<crashes, file>>
      BY <2>2 DEF Next, Writer, Reader, Write, Tick, AppendBlock, AppendFails, AppendHeader,
                  Store, GetBlock, ReadFails, ZeroWriteOff, Truncate, Advance, SaveChats,
                  SaveChatsFails, SaveGroups, SaveGroupsFails, failing
    <3> QED BY <3>1 DEF Whole
  <2> QED BY <2>1, <2>2
<1>1. /\ Kept = Then(X, buffer)
      /\ u \in Seq(Record) /\ X \in Seq(Record)
  BY <1>0, UnreadIs, ThenFacts DEF Whole
<1>2. u = FlattenSeq(Part(blocks, readblock, writeblock))
      /\ Part(blocks, readblock, writeblock) \in Seq(Seq(Record))
      /\ readblock \in Nat /\ writeblock \in Nat /\ readblock <= writeblock
      /\ writeblock <= Len(blocks) /\ Len(blocks) \in Nat
  BY UnreadIs
<1>3. CASE UNCHANGED <<logged, dropped, handed, Held, buffer>> /\ Unread' = u
  <2>1. Kept' = Kept
    BY <1>3 DEF Kept
  <2>2. Then(Then(Then(handed', Held'), Unread'), buffer') = Then(X, buffer)
    BY <1>3
  <2> HIDE DEF u, X
  <2> QED BY <1>1, <2>1, <2>2 DEF Whole
<1>4. ASSUME NEW r \in Record, Write(r) PROVE Whole'
  <2>1. UNCHANGED <<logged, dropped, handed, buffer, reader, loaded, blocks, readblock, writeblock>>
    BY <1>4 DEF Write, disk, numbers, reading, failing
  <2> QED BY <1>3, <2>1 DEF Held, Unread
<1>5. CASE Tick \/ ReadFails
  <2>1. UNCHANGED <<logged, dropped, handed, buffer, reader, loaded, blocks, readblock, writeblock>>
    BY <1>5 DEF Tick, ReadFails, disk, numbers, reading, writing, outcome, failing
  <2> QED BY <1>3, <2>1 DEF Held, Unread
<1>6. CASE ZeroWriteOff \/ Advance
  <2>1. UNCHANGED <<logged, dropped, handed, buffer, loaded, blocks, readblock, writeblock>>
        /\ reader \in Taking /\ reader' \in Taking \cup {"sub"}
    BY <1>6 DEF ZeroWriteOff, Advance, numbers, writing, outcome, failing, Taking
  <2> QED BY <1>3, <2>1 DEF Held, Unread, Taking
<1>7. CASE SaveGroups \/ SaveGroupsFails
  <2>1. UNCHANGED <<logged, dropped, handed, buffer, blocks, readblock, writeblock>>
        /\ reader = "groups" /\ reader' = "poll"
    BY <1>7 DEF SaveGroups, SaveGroupsFails, Poll, disk, numbers, writing, outcome, failing
  <2> QED BY <1>3, <2>1 DEF Held, Unread
<1>8. CASE Truncate
  <2>1. UNCHANGED <<logged, dropped, handed, buffer, loaded, readblock, writeblock>>
        /\ reader = "truncate" /\ reader' = "advance"
    BY <1>8 DEF Truncate, numbers, writing, outcome, failing
  <2>2. readblock = 0 /\ writeblock = 0
    BY <1>0, <2>1 DEF OffInv
  <2>3. Unread' = u
    BY <2>1, <2>2 DEF Unread
  <2> QED BY <1>3, <2>1, <2>3 DEF Held
<1>9. CASE AppendBlock
  <2>1. UNCHANGED <<logged, dropped, handed, buffer, reader, loaded, readblock, writeblock>>
    BY <1>9 DEF AppendBlock, numbers, reading, outcome, failing
  <2>2. \A i \in 1..(writeblock - readblock) : blocks'[readblock + i] = blocks[readblock + i]
    <3> TAKE i \in 1..(writeblock - readblock)
    <3>1. readblock + i \in 1..Len(blocks) /\ readblock + i # writeblock + 1
      BY <1>2
    <3>2. CASE writeblock < Len(blocks)
      BY <1>0, <1>9, <3>1, <3>2, AppendedBlocks
    <3>3. CASE ~(writeblock < Len(blocks))
      BY <1>0, <1>9, <3>1, <3>3, AppendedBlocks
    <3> QED BY <3>2, <3>3
  <2>3. Unread' = u
    BY <2>1, <2>2 DEF Unread
  <2> QED BY <1>3, <2>1, <2>3 DEF Held
<1>10. CASE AppendHeader
  <2>1. /\ UNCHANGED <<logged, dropped, handed, reader, loaded, blocks, readblock>>
        /\ writer = "header" /\ writeblock' = writeblock + 1 /\ buffer' = <<>>
    BY <1>10 DEF AppendHeader, Reset, reading, outcome, failing
  <2>2. blocks[writeblock + 1] = buffer /\ writeblock < Len(blocks)
    BY <1>0, <2>1 DEF Positions, OffInv
  <2>3. Part(blocks, readblock, writeblock + 1) = Append(Part(blocks, readblock, writeblock), buffer)
    BY <1>0, <1>2, <2>2, PartLast
  <2>4. Unread' = Then(u, buffer)
    <3>1. Unread' = FlattenSeq(Part(blocks, readblock, writeblock + 1))
      BY <2>1 DEF Unread, Part
    <3> HIDE DEF u
    <3> QED BY <1>0, <1>2, <2>3, <3>1, ThenFlatten
  <2>5. Held' = Held /\ Kept' = Kept
    BY <2>1 DEF Held, Kept
  <2>6. Then(Then(Then(handed, Held), Then(u, buffer)), <<>>) = Then(X, buffer)
    <3> HIDE DEF u
    <3>1. Then(handed, Held) \in Seq(Record) /\ Then(u, buffer) \in Seq(Record)
      BY <1>0, <1>1, ThenFacts
    <3>2. Then(Then(handed, Held), Then(u, buffer)) = Then(X, buffer)
      BY <1>0, <1>1, <3>1, ThenFacts
    <3>3. Then(X, buffer) \in Seq(Record)
      BY <1>0, <1>1, ThenFacts
    <3> QED BY <3>2, <3>3, ThenFacts
  <2> HIDE DEF u, X
  <2> QED BY <1>1, <2>1, <2>4, <2>5, <2>6 DEF Whole
<1>11. CASE AppendFails
  <2> DEFINE B == ToSet(buffer)
             S == Record \ dropped
             T == Record \ B
             Diff == {p \in Record \X Record : p[1] # p[2]}
  <2>1. /\ UNCHANGED <<logged, handed, reader, loaded, blocks, readblock, writeblock>>
        /\ buffer' = <<>> /\ dropped' = dropped \cup B
    BY <1>11 DEF AppendFails, Reset, disk, numbers, reading, outcome
  <2>2. Held' = Held /\ Unread' = u
    BY <2>1 DEF Held, Unread
  <2>3. Kept' = Only(Kept, T)
    <3>1. Record \ dropped' = S \cap T
      BY <2>1
    <3>2. S \in SUBSET Record /\ T \in SUBSET Record
      OBVIOUS
    <3> HIDE DEF S, T
    <3>3. \A s \in Seq(Record) : Only(Only(s, S), T) = Only(s, S \cap T)
      BY <3>2, OnlyTwice
    <3>4. Only(Only(logged, S), T) = Only(logged, S \cap T)
      BY <1>0, <3>3
    <3> QED BY <2>1, <3>1, <3>4 DEF Kept, S
  <2>4. Apart(Diff, ToSet(X), B)
    <3>1. Diff \in SUBSET (Record \X Record)
      OBVIOUS
    <3>2. Sorted(Diff, logged)
      <4>1. \A i \in DOMAIN logged : logged[i] \in Record /\ i \in Nat
        BY <1>0, LenProperties
      <4> QED BY <4>1 DEF Contents, Sorted
    <3> HIDE DEF Diff, X, B
    <3>3. Sorted(Diff, Kept)
      BY <1>0, <3>1, <3>2, OnlyKeeps DEF Kept
    <3>4. Sorted(Diff, X \o buffer)
      BY <1>1, <3>3 DEF Then
    <3> QED BY <1>0, <1>1, <3>1, <3>4, SortedConcat DEF B
  <2>5. ToSet(X) \subseteq T
    <3>1. ToSet(X) \in SUBSET Record
      <4> HIDE DEF X
      <4> QED BY <1>1, InSequences
    <3> HIDE DEF X, B
    <3>2. \A r \in ToSet(X) : r \notin B
      BY <2>4 DEF Apart
    <3> QED BY <3>1, <3>2
  <2>6. Only(Then(X, buffer), T) = X
    <3>1. T \in SUBSET Record
      OBVIOUS
    <3>2. B \cap T = {}
      OBVIOUS
    <3> HIDE DEF X, T
    <3>3. Only(Then(X, buffer), T) = Then(Only(X, T), Only(buffer, T))
      BY <1>0, <1>1, <3>1, ThenOnly
    <3>4. Only(X, T) = X
      BY <1>1, <2>5, <3>1, OnlyTwice
    <3>5. Only(buffer, T) = <<>>
      BY <1>0, <3>1, <3>2, OnlyTwice
    <3> QED BY <1>1, <3>3, <3>4, <3>5, ThenFacts
  <2>7. Then(X, <<>>) = X
    <3> HIDE DEF X
    <3> QED BY <1>1, ThenFacts
  <2>8. Kept' = X
    <3> HIDE DEF X, T
    <3> QED BY <1>1, <2>3, <2>6
  <2> HIDE DEF u, B
  <2> QED BY <2>1, <2>2, <2>7, <2>8 DEF Whole
<1>12. CASE Store
  <2>0. UNCHANGED <<handed, reader, loaded, blocks, readblock, writeblock, dropped>>
    BY <1>12 DEF Store, disk, numbers, reading, failing
  <2>1. Held' = Held /\ Unread' = u
    BY <2>0 DEF Held, Unread
  <2>2. CASE logged' = logged
    BY <1>3, <1>12, <2>0, <2>1, <2>2, StoreNothing
  <2>3. CASE logged' # logged
    <3>1. PICK r \in Record : /\ r \notin ToSet(logged) /\ logged' = Append(logged, r)
                              /\ buffer' = Append(buffer, r)
      BY <1>12, <2>3, StoreRelations
    <3>2. r \in Record \ dropped
      BY <3>1 DEF Contents
    <3>3. Only(Append(logged, r), Record \ dropped) = Append(Only(logged, Record \ dropped), r)
      BY <1>0, <3>2, OnlyOneMore
    <3>4. Kept' = Append(Kept, r)
      BY <2>0, <3>1, <3>3 DEF Kept
    <3>5. Append(Then(X, buffer), r) = Then(X, Append(buffer, r))
      <4> HIDE DEF X
      <4>1. \A s, t \in Seq(Record), e \in Record : Then(s, Append(t, e)) = Append(Then(s, t), e)
        BY ThenFacts
      <4> QED BY <1>0, <1>1, <4>1
    <3> HIDE DEF u
    <3> QED BY <1>1, <2>0, <2>1, <3>1, <3>4, <3>5 DEF Whole
  <2> QED BY <2>2, <2>3
<1>13. CASE GetBlock
  <2> DEFINE b == blocks[readblock + 1]
             v == FlattenSeq(Part(blocks, readblock + 1, writeblock))
  <2>1. /\ UNCHANGED <<logged, dropped, handed, buffer, blocks>>
        /\ reader = "poll" /\ reader' \in {"zero", "advance"} /\ loaded' = b
        /\ readblock # writeblock
        /\ \/ readblock + 1 = writeblock /\ readblock' = 0 /\ writeblock' = 0
           \/ readblock' = readblock + 1 /\ writeblock' = writeblock
    BY <1>13 DEF GetBlock, disk, writing, outcome, failing
  <2>2. Held = <<>> /\ Held' = b /\ Kept' = Kept
    BY <2>1 DEF Held, Kept
  <2>3. readblock < writeblock /\ readblock + 1 \in Nat /\ readblock + 1 <= writeblock
    BY <1>2, <2>1
  <2>4. b \in Seq(Record) /\ Part(blocks, readblock + 1, writeblock) \in Seq(Seq(Record))
    <3>1. readblock + 1 \in 1..Len(blocks)
      BY <1>2, <2>3
    <3>2. b \in Seq(Record)
      BY <1>0, <3>1, ElementOfSeq
    <3>3. PICK m \in Nat : m = readblock + 1
      BY <2>3
    <3>4. Part(blocks, m, writeblock) \in Seq(Seq(Record))
      BY <1>0, <1>2, <2>3, <3>3, PartFacts
    <3> QED BY <3>2, <3>3, <3>4
  <2>5. Part(blocks, readblock, writeblock) = Then(<<b>>, Part(blocks, readblock + 1, writeblock))
    BY <1>0, <1>2, <2>3, PartFirst
  <2>6. u = Then(b, v) /\ v \in Seq(Record)
    <3> HIDE DEF u, b
    <3> QED BY <1>2, <2>4, <2>5, ThenFlatten
  <2>7. Unread' = v
    <3>1. CASE readblock' = readblock + 1 /\ writeblock' = writeblock
      BY <2>1, <3>1 DEF Unread, Part
    <3>2. CASE readblock + 1 = writeblock /\ readblock' = 0 /\ writeblock' = 0
      <4>1. writeblock' - readblock' = 0 /\ writeblock - (readblock + 1) = 0
        BY <1>2, <3>2
      <4>2. 1..0 = {}
        OBVIOUS
      <4>3. Part(blocks, readblock + 1, writeblock) = [i \in {} |-> blocks[readblock + 1 + i]]
        BY <4>1, <4>2 DEF Part
      <4>4. Unread' = FlattenSeq([i \in {} |-> blocks'[readblock' + i]])
        BY <4>1, <4>2 DEF Unread
      <4>5. [i \in {} |-> blocks'[readblock' + i]] = [i \in {} |-> blocks[readblock + 1 + i]]
        OBVIOUS
      <4> QED BY <4>3, <4>4, <4>5
    <3> QED BY <2>1, <3>1, <3>2
  <2> HIDE DEF b, v
  <2>8. Then(Then(Then(handed, b), v), buffer) = Then(X, buffer)
    <3> HIDE DEF u
    <3>1. Then(handed, <<>>) = handed
      BY <1>0, ThenFacts
    <3>2. X = Then(handed, Then(b, v))
      BY <2>2, <2>6, <3>1
    <3>3. Then(Then(handed, b), v) = Then(handed, Then(b, v))
      BY <1>0, <2>4, <2>6, ThenFacts
    <3> QED BY <3>2, <3>3
  <2> HIDE DEF u, X
  <2> QED BY <1>1, <2>1, <2>2, <2>7, <2>8 DEF Whole
<1>14. CASE SaveChats \/ SaveChatsFails
  <2>1. /\ UNCHANGED <<logged, dropped, buffer, blocks, readblock, writeblock>>
        /\ reader = "sub" /\ reader' \in {"groups", "poll"} /\ handed' = handed \o loaded
    BY <1>14 DEF SaveChats, SaveChatsFails, Poll, disk, numbers, writing, failing
  <2>2. Held = loaded /\ Held' = <<>> /\ Kept' = Kept /\ Unread' = u
    BY <2>1 DEF Held, Kept, Unread
  <2>3. handed' = Then(handed, Held)
    BY <2>1, <2>2 DEF Then
  <2>4. Then(Then(handed, Held), <<>>) = Then(handed, Held)
    BY <1>0, ThenFacts
  <2>5. Then(Then(Then(handed', Held'), Unread'), buffer') = Then(X, buffer)
    BY <2>1, <2>2, <2>3, <2>4
  <2> HIDE DEF u, X
  <2> QED BY <1>1, <2>2, <2>5 DEF Whole
<1> QED BY <1>a, <1>4, <1>5, <1>6, <1>7, <1>8, <1>9, <1>10, <1>11, <1>12, <1>13, <1>14
        DEF Next, Writer, Reader

-----------------------------------------------------------------------------
(* All of it together.                                                      *)
LogInv ==
  /\ IInv /\ OtherTypes /\ Contents /\ Positions /\ DiskOrder /\ MemoryOrder
  /\ ComingOrder /\ TableOrder /\ Whole

(* The log starts in the invariant.                                         *)
LEMMA LogInvInit == Init => LogInv
<1>1. ASSUME Init PROVE OtherTypes
  <2>1. <<>> \in Seq(Record) /\ Used(<<>>) = 0
    BY EmptySeq, UsedAppend
  <2>2. BlockSize \in Nat /\ MaxTrouble \in Nat
    BY BoundAssumption
  <2> QED BY <1>1, <2>1, <2>2 DEF Init, OtherTypes
<1> QED BY <1>1, InitInv, ContentsInit, PositionsInit, OrderInit, TableInit, WholeInit
        DEF LogInv

(* Every step keeps the invariant.                                          *)
LEMMA LogInvStep == LogInv /\ [Next]_vars => LogInv'
<1>1. ASSUME LogInv, Next PROVE LogInv'
  <2>1. IInv'
    BY <1>1, TypesStep, OffStep DEF LogInv, IInv
  <2>2. OtherTypes' /\ Contents' /\ Positions' /\ DiskOrder'
    BY <1>1, OtherTypesStep, ContentsStep, PositionsStep, DiskOrderStep DEF LogInv
  <2>3. MemoryOrder' /\ ComingOrder' /\ TableOrder' /\ Whole'
    BY <1>1, MemoryOrderStep, ComingOrderStep, TableOrderStep, WholeStep DEF LogInv
  <2> QED BY <2>1, <2>2, <2>3 DEF LogInv
<1>2. ASSUME LogInv, UNCHANGED vars PROVE LogInv'
  <2> USE DEF vars, disk, numbers, writing, reading, outcome, saving, failing
  <2>1. IInv'
    BY <1>2 DEF LogInv, IInv, Types, LockInv, OffInv
  <2>2. OtherTypes' /\ Contents'
    BY <1>2, SameRelations DEF LogInv, OtherTypes, Contents, Blocks, Sorted
  <2>3. Positions'
    BY <1>2 DEF LogInv, Positions
  <2>4. ForMemory' = ForMemory /\ ForDisk' = ForDisk /\ Held' = Held /\ Unread' = Unread
        /\ \A kind : Table(kind)' = Table(kind)
    BY <1>2, SameRelations DEF Held, Unread, Table, OfKind
  <2>5. DiskOrder'
    <3>1. UNCHANGED <<blocks, readOff, writeblock, handed, loaded, buffer, reader, writer, file>>
      BY <1>2
    <3>2. OnDisk' = OnDisk
      BY <3>1 DEF OnDisk
    <3> QED BY <1>2, <2>4, <3>1, <3>2, Zenon DEF LogInv, DiskOrder
  <2>6. MemoryOrder' /\ ComingOrder'
    BY <1>2, <2>4 DEF LogInv, MemoryOrder, ComingOrder, Coming, LastComing
  <2>7. TableOrder'
    BY <1>2, <2>4 DEF LogInv, TableOrder
  <2>8. Whole'
    BY <1>2, <2>4 DEF LogInv, Whole, Kept
  <2> QED BY <2>1, <2>2, <2>3, <2>5, <2>6, <2>7, <2>8 DEF LogInv
<1> QED BY <1>1, <1>2

(* The file, the numbers and the two loops keep their types, and a block    *)
(* its size.                                                                *)
THEOREM LogTypeOK == Spec => []TypeOK
<1>1. LogInv => TypeOK
  BY DEF LogInv, IInv, Types, LockInv, OtherTypes, TypeOK
<1> QED BY LogInvInit, LogInvStep, <1>1, PTL DEF Spec

(* Sequences that are sorted in memory are as they were logged.             *)
LEMMA AsLoggedIs ==
  ASSUME crashes \in Nat, NEW s \in Seq(Record), Sorted(ForMemory, s)
  PROVE  AsLogged(s)
<1> SUFFICES ASSUME NEW i \in DOMAIN s, NEW j \in DOMAIN s, i < j
             PROVE  s[i] # s[j] /\ (crashes <= 2 => Place(s[i]) < Place(s[j]))
  BY DEF AsLogged
<1>1. <<s[i], s[j]>> \in Rel(crashes <= 2)
  BY DEF Sorted, ForMemory
<1>2. s[i] \in Record /\ s[j] \in Record
  BY ElementOfSeq, LenProperties
<1> QED BY <1>1, <1>2 DEF Rel

(* sub and the two tables get no record twice, and none out of order until  *)
(* the process has stopped three times.                                     *)
THEOREM LogAtMostOnceInOrder == Spec => []AtMostOnceInOrder
<1>1. LogInv => AtMostOnceInOrder
  <2> SUFFICES ASSUME LogInv PROVE AtMostOnceInOrder
    OBVIOUS
  <2>1. crashes \in Nat /\ handed \in Seq(Record) /\ saved \in Seq(Record)
    BY DEF LogInv, IInv, Types, OtherTypes
  <2>2. \A kind : Table(kind) \in Seq(Record)
    <3>1. \A kind : OfKind(kind) \in SUBSET Record
      BY DEF OfKind
    <3> QED BY <2>1, <3>1, OnlyAppend DEF Table
  <2>3. AsLogged(handed)
    BY <2>1, AsLoggedIs DEF LogInv, MemoryOrder
  <2>4. Sorted(ForMemory, Table("chat")) /\ Sorted(ForMemory, Table("group"))
    BY DEF LogInv, TableOrder, Kinds
  <2>5. AsLogged(Table("chat")) /\ AsLogged(Table("group"))
    BY <2>1, <2>2, <2>4, AsLoggedIs
  <2> QED BY <2>3, <2>5 DEF AtMostOnceInOrder
<1> QED BY LogInvInit, LogInvStep, <1>1, PTL DEF Spec

(* Before a crash, what was logged is what sub got, what is held for it,    *)
(* what is in unread blocks and what is in memory, but for the blocks that  *)
(* could not be appended.                                                   *)
THEOREM LogNothingLost == Spec => []NothingLost
<1>1. LogInv => NothingLost
  <2> SUFFICES ASSUME LogInv, crashes = 0, file = "open"
               PROVE  Only(logged, Record \ dropped) = handed \o Held \o Unread \o buffer
    BY DEF NothingLost
  <2> QED BY DEF LogInv, Whole, Kept, Then
<1> QED BY LogInvInit, LogInvStep, <1>1, PTL DEF Spec
=============================================================================
