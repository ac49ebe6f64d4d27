----------------------------- MODULE DataProofs -----------------------------
(***************************************************************************)
(* Proofs about bytes and what they are for: the blocks of the log, for     *)
(* bytes of any number of values, blocks of any size that a uint16 counts   *)
(* and records of any lengths; the list of servers in redis, for any        *)
(* servers, cleaners, readers and any number of commands that fail; and the *)
(* frames of a connection, for any messages, of any lengths, that a frame   *)
(* holds any number of.                                                     *)
(***************************************************************************)
EXTENDS Block, ServerCache, Codec, ChannelFacts

-----------------------------------------------------------------------------
(* Block: the bytes.                                                        *)
Byte == 0..(Base - 1)
Memory == [1..BlockSize -> Byte]
Fits16(v) == v < Base * Base

-----------------------------------------------------------------------------
(* Numbers as bytes.                                                        *)

(* A division by a byte's values leaves a quotient and a byte.              *)
LEMMA Division ==
  \A b \in Nat \ {0}, v \in Nat :
    /\ v \div b \in Nat /\ v % b \in 0..(b - 1)
    /\ v = b * (v \div b) + (v % b)
  OBVIOUS

(* The quotient of a number of two bytes is one byte.                       *)
LEMMA Quotient == \A b \in Nat \ {0}, q, r \in Nat : b * q + r < b * b => q < b
  OBVIOUS

(* A number below the modulus is its own remainder.                         *)
LEMMA Remainder == \A b \in Nat \ {0}, v \in Nat : v < b => v % b = v
  OBVIOUS

(* There are uint16, and a block is as long as one.                         *)
LEMMA Sizes ==
  /\ Base \in Nat \ {0, 1} /\ Base * Base \in Nat \ {0}
  /\ BlockSize \in Nat /\ 2 <= BlockSize /\ BlockSize < Base * Base
  /\ MaxRecords \in Nat /\ MaxRecords < Base * Base
<1>1. \A b \in Nat \ {0, 1} : b * b \in Nat \ {0}
  OBVIOUS
<1> DEFINE w == Base * Base
<1>2. w \in Nat \ {0} /\ BlockSize \in 4..(w - 3) /\ MaxRecords \in 1..(w - 1)
  BY <1>1, SizeAssumption
<1> HIDE DEF w
<1>3. BlockSize \in Nat /\ 2 <= BlockSize /\ BlockSize < w
      /\ MaxRecords \in Nat /\ MaxRecords < w
  BY <1>2
<1> QED BY <1>2, <1>3, SizeAssumption DEF w

(* A uint16 keeps what fits, and is one whatever it is made of.             *)
LEMMA Uint16Fits == \A v \in Nat : Fits16(v) => Uint16(v) = v
<1> DEFINE w == Base * Base
<1>1. w \in Nat \ {0}
  BY Sizes
<1> HIDE DEF w
<1>2. \A v \in Nat : v < w => v % w = v
  BY <1>1, Remainder
<1> QED BY <1>2 DEF w, Uint16, Fits16

LEMMA Uint16Type == \A v \in Nat : Uint16(v) \in Nat /\ Fits16(Uint16(v))
<1> DEFINE w == Base * Base
<1>1. w \in Nat \ {0}
  BY Sizes
<1> HIDE DEF w
<1>2. \A v \in Nat : v % w \in Nat /\ v % w < w
  BY <1>1, Division
<1> QED BY <1>2 DEF w, Uint16, Fits16

(* The two bytes that a number is written as, and what they are read as.    *)
LEMMA TwoBytes ==
  ASSUME NEW v \in Nat
  PROVE  /\ Len(BytesOf(v)) = 2 /\ BytesOf(v)[1] \in Byte /\ BytesOf(v)[2] \in Byte
         /\ Fits16(v) => BytesOf(v)[1] + Base * BytesOf(v)[2] = v
<1>1. Base \in Nat \ {0}
  BY Sizes
<1>2. v \div Base \in Nat /\ v % Base \in Byte /\ v = Base * (v \div Base) + (v % Base)
  BY <1>1, Division DEF Byte
<1>3. (v \div Base) % Base \in Byte
  BY <1>1, <1>2, Division DEF Byte
<1>4. ASSUME Fits16(v)
      PROVE  (v % Base) + Base * ((v \div Base) % Base) = v
  <2> DEFINE q == v \div Base
             r == v % Base
  <2>1. q \in Nat /\ r \in Nat /\ v = Base * q + r
    BY <1>1, <1>2 DEF Byte
  <2> HIDE DEF q, r
  <2>2. q < Base
    BY <1>1, <1>4, <2>1, Quotient DEF Fits16
  <2>3. q % Base = q
    BY <1>1, <2>1, <2>2, Remainder
  <2>4. r + Base * q = v
    <3> DEFINE p == Base * q
    <3>1. p \in Nat /\ v = p + r
      BY <1>1, <2>1
    <3> HIDE DEF p
    <3>2. r + p = v
      BY <2>1, <3>1
    <3> QED BY <3>2 DEF p
  <2>5. r + Base * (q % Base) = v
    BY <2>3, <2>4
  <2> QED BY <2>5 DEF q, r
<1> QED BY <1>2, <1>3, <1>4 DEF BytesOf

-----------------------------------------------------------------------------
(* Bytes in a block.                                                        *)

(* Writing a uint16 changes two bytes.                                      *)
LEMMA WriteCells ==
  ASSUME NEW b \in Memory, NEW v \in Nat, NEW at \in Nat
  PROVE  /\ WriteUint16(b, v, at) \in Memory
         /\ \A i \in 1..BlockSize :
              /\ i # at + 1 /\ i # at + 2 => WriteUint16(b, v, at)[i] = b[i]
              /\ i = at + 1 => WriteUint16(b, v, at)[i] = BytesOf(v)[1]
              /\ i = at + 2 => WriteUint16(b, v, at)[i] = BytesOf(v)[2]
<1> DEFINE two == BytesOf(v)
           low == two[1]
           high == two[2]
           w == WriteUint16(b, v, at)
<1>1. Len(two) = 2 /\ two[1] = low /\ two[2] = high /\ low \in Byte /\ high \in Byte
  BY TwoBytes
<1>2. BlockSize \in Nat
  BY Sizes
<1> HIDE DEF two, low, high
<1>3. w = [i \in 1..BlockSize |-> IF i > at /\ i - at <= 2 THEN two[i - at] ELSE b[i]]
  BY <1>1 DEF WriteUint16, Copied, two
<1> HIDE DEF w
<1>4. ASSUME NEW i \in 1..BlockSize
      PROVE  /\ i # at + 1 /\ i # at + 2 => w[i] = b[i]
             /\ i = at + 1 => w[i] = low
             /\ i = at + 2 => w[i] = high
             /\ w[i] \in Byte
  <2>1. w[i] = IF i > at /\ i - at <= 2 THEN two[i - at] ELSE b[i]
    BY <1>3
  <2>2. b[i] \in Byte
    BY DEF Memory
  <2>3. CASE i = at + 1
    <3>1. i > at /\ i - at = 1
      BY <1>2, <2>3
    <3> QED BY <1>1, <2>1, <2>3, <3>1
  <2>4. CASE i = at + 2
    <3>1. i > at /\ i - at = 2
      BY <1>2, <2>4
    <3> QED BY <1>1, <2>1, <2>4, <3>1
  <2>5. CASE i # at + 1 /\ i # at + 2
    <3>1. ~(i > at /\ i - at <= 2)
      BY <1>2, <2>5
    <3> QED BY <2>1, <2>2, <2>5, <3>1
  <2> QED BY <2>3, <2>4, <2>5
<1>5. w \in Memory
  BY <1>3, <1>4 DEF Memory
<1> QED BY <1>4, <1>5 DEF w, low, high, two

(* All other bytes it leaves as they are.                                   *)
Elsewhere(b, c, at) == \A i \in 1..BlockSize : i # at + 1 /\ i # at + 2 => c[i] = b[i]

LEMMA WriteElsewhere ==
  ASSUME NEW b \in Memory, NEW v \in Nat, NEW at \in Nat
  PROVE  WriteUint16(b, v, at) \in Memory /\ Elsewhere(b, WriteUint16(b, v, at), at)
<1>1. WriteUint16(b, v, at) \in Memory
  BY WriteCells
<1>2. ASSUME NEW i \in 1..BlockSize, i # at + 1, i # at + 2
      PROVE  WriteUint16(b, v, at)[i] = b[i]
  BY <1>2, WriteCells
<1> QED BY <1>1, <1>2 DEF Elsewhere

(* They are the bytes that it is read from.                                 *)
LEMMA ReadWritten ==
  ASSUME NEW b \in Memory, NEW v \in Nat, NEW at \in Nat,
         at + 2 <= BlockSize, Fits16(v)
  PROVE  ReadUint16(WriteUint16(b, v, at), at) = v
<1> DEFINE low == BytesOf(v)[1]
           high == BytesOf(v)[2]
           w == WriteUint16(b, v, at)
<1>1. low + Base * high = v
  BY TwoBytes
<1>2. at + 1 \in 1..BlockSize /\ at + 2 \in 1..BlockSize
  BY Sizes
<1>3. w[at + 1] = low /\ w[at + 2] = high
  BY <1>2, WriteCells
<1> HIDE DEF w, low, high
<1>4. ReadUint16(w, at) = v
  BY <1>1, <1>3 DEF ReadUint16
<1> QED BY <1>4 DEF w

(* A record is of some length, and of bytes.                                 *)
LEMMA RecordFields == \A r \in Record : r.len \in Nat \ {0} /\ r.tag \in Byte
<1>1. Lengths \subseteq Nat \ {0} /\ Tags \subseteq 1..(Base - 1)
  BY SizeAssumption, Zenon
<1>2. 1..(Base - 1) \subseteq Byte
  BY Sizes DEF Byte
<1>3. \A r \in Record : r.len \in Lengths /\ r.tag \in Tags
  BY DEF Record
<1> QED BY <1>1, <1>2, <1>3

(* Copying a record changes the bytes it takes.                             *)
Holds(b, c, r, at) ==
  \A i \in 1..BlockSize :
    /\ i <= at => c[i] = b[i]
    /\ i > at /\ i <= at + r.len => c[i] = r.tag

LEMMA CopyCells ==
  ASSUME NEW b \in Memory, NEW r \in Record, NEW at \in Nat
  PROVE  Copied(b, at, Bytes(r)) \in Memory /\ Holds(b, Copied(b, at, Bytes(r)), r, at)
<1> DEFINE s == Bytes(r)
           n == r.len
           w == Copied(b, at, s)
<1>1. n \in Nat /\ r.tag \in Byte /\ BlockSize \in Nat
  BY RecordFields, Sizes
<1>2. Len(s) = n /\ \A k \in 1..n : s[k] = r.tag
  BY <1>1 DEF Bytes
<1> HIDE DEF s, n
<1>3. w = [i \in 1..BlockSize |-> IF i > at /\ i - at <= n THEN s[i - at] ELSE b[i]]
  BY <1>2 DEF Copied
<1> HIDE DEF w
<1>4. ASSUME NEW i \in 1..BlockSize
      PROVE  /\ i <= at => w[i] = b[i]
             /\ i > at /\ i <= at + n => w[i] = r.tag
             /\ w[i] \in Byte
  <2>1. w[i] = IF i > at /\ i - at <= n THEN s[i - at] ELSE b[i]
    BY <1>3
  <2>2. b[i] \in Byte
    BY DEF Memory
  <2>3. CASE i > at /\ i - at <= n
    <3>1. i - at \in 1..n /\ ~(i <= at)
      BY <1>1, <2>3
    <3> QED BY <1>1, <1>2, <2>1, <2>3, <3>1
  <2>4. CASE ~(i > at /\ i - at <= n)
    <3>1. ~(i > at /\ i <= at + n)
      BY <1>1, <2>4
    <3> QED BY <2>1, <2>2, <2>4, <3>1
  <2> QED BY <2>3, <2>4
<1>5. w \in Memory
  BY <1>3, <1>4 DEF Memory
<1>6. Holds(b, w, r, at)
  BY <1>4 DEF Holds, n
<1> QED BY <1>5, <1>6 DEF w, s

-----------------------------------------------------------------------------
(* Records laid out in a block: at[i] is where the i-th begins, and the     *)
(* last of at where they end.                                               *)
LaidAt(b, r, o) ==
  /\ ReadUint16(b, o) = r.len
  /\ \A k \in 1..r.len : b[o + 2 + k] = r.tag

Laid(b, rs, at, end) ==
  /\ at \in [1..(Len(rs) + 1) -> Nat] /\ at[1] = 2 /\ at[Len(rs) + 1] = end
  /\ 2 <= end /\ end <= BlockSize
  /\ \A i \in 1..Len(rs) :
       /\ 2 <= at[i] /\ at[i] + rs[i].len + 2 <= end
       /\ at[i + 1] = at[i] + rs[i].len + 2
       /\ LaidAt(b, rs[i], at[i])

(* A record depends on its own bytes only.                                  *)
LEMMA SameRecord ==
  ASSUME NEW b \in Memory, NEW c \in Memory, NEW r \in Record, NEW o \in Nat,
         NEW end \in Nat, o + r.len + 2 <= end, end <= BlockSize, 2 <= o,
         \A i \in 1..BlockSize : 2 < i /\ i <= end => c[i] = b[i], LaidAt(b, r, o)
  PROVE  LaidAt(c, r, o)
<1>1. r.len \in Nat /\ BlockSize \in Nat
  BY RecordFields, Sizes
<1> DEFINE n == r.len
<1> HIDE DEF n
<1>2. n \in Nat /\ n = r.len
  BY <1>1 DEF n
<1>3. o + 1 \in 1..BlockSize /\ o + 2 \in 1..BlockSize /\ 2 < o + 1 /\ o + 2 <= end
  BY <1>1, <1>2
<1>4. c[o + 1] = b[o + 1] /\ c[o + 2] = b[o + 2]
  BY <1>3
<1>5. ReadUint16(c, o) = ReadUint16(b, o)
  BY <1>4 DEF ReadUint16
<1>6. ASSUME NEW k \in 1..n PROVE c[o + 2 + k] = b[o + 2 + k]
  <2>1. o + 2 + k \in 1..BlockSize /\ 2 < o + 2 + k /\ o + 2 + k <= end
    BY <1>1, <1>2
  <2> QED BY <2>1
<1> QED BY <1>2, <1>5, <1>6 DEF LaidAt

(* So do all of them: the first two bytes and those behind the last record  *)
(* are not theirs.                                                          *)
LEMMA SameRecords ==
  ASSUME NEW b \in Memory, NEW c \in Memory, NEW rs \in Seq(Record), NEW at,
         NEW end \in Nat, Laid(b, rs, at, end),
         \A i \in 1..BlockSize : 2 < i /\ i <= end => c[i] = b[i]
  PROVE  Laid(c, rs, at, end)
<1>1. Len(rs) \in Nat
  BY LenProperties
<1>2. ASSUME NEW i \in 1..Len(rs) PROVE LaidAt(c, rs[i], at[i])
  <2>1. rs[i] \in Record
    BY ElementOfSeq
  <2>2. at[i] \in Nat /\ 2 <= at[i] /\ at[i] + rs[i].len + 2 <= end /\ end <= BlockSize
        /\ LaidAt(b, rs[i], at[i])
    BY <1>1 DEF Laid
  <2> QED BY <2>1, <2>2, SameRecord
<1> QED BY <1>2 DEF Laid

(* An empty block.                                                          *)
LEMMA LaidNone == \A b : Laid(b, <<>>, [i \in 1..1 |-> 2], 2)
<1>1. Len(<<>>) = 0 /\ 2 <= BlockSize
  BY Sizes
<1> QED BY <1>1 DEF Laid

(* One record more, where the last one ended.                               *)
LEMMA LaidMore ==
  ASSUME NEW b \in Memory, NEW rs \in Seq(Record), NEW at, NEW r \in Record,
         NEW o \in Nat, Laid(b, rs, at, o), LaidAt(b, r, o),
         NEW end \in Nat, end = o + r.len + 2, end <= BlockSize
  PROVE  \E as : Laid(b, Append(rs, r), as, end)
<1> DEFINE n == Len(rs)
           ts == Append(rs, r)
           as == [i \in 1..(n + 2) |-> IF i <= n + 1 THEN at[i] ELSE end]
<1>1. n \in Nat /\ r.len \in Nat
  BY LenProperties, RecordFields
<1>2. Len(ts) = n + 1 /\ ts[n + 1] = r /\ \A i \in 1..n : ts[i] = rs[i]
  BY <1>1
<1>3. /\ at \in [1..(n + 1) -> Nat] /\ at[1] = 2 /\ at[n + 1] = o /\ 2 <= o
      /\ \A i \in 1..n : /\ 2 <= at[i] /\ at[i] + rs[i].len + 2 <= o
                         /\ at[i + 1] = at[i] + rs[i].len + 2
                         /\ LaidAt(b, rs[i], at[i])
  BY DEF Laid
<1> HIDE DEF n, ts
<1>4. as \in [1..(n + 2) -> Nat]
  BY <1>1, <1>3
<1>5. as[n + 2] = end /\ \A i \in 1..(n + 1) : as[i] = at[i]
  BY <1>1
<1> HIDE DEF as
<1>6. 2 <= end /\ o + r.len + 2 <= end /\ (n + 1) + 1 = n + 2 /\ 1 \in 1..(n + 1)
      /\ n + 1 \in 1..(n + 1)
  BY <1>1, <1>3
<1>7. ASSUME NEW i \in 1..(n + 1)
      PROVE  /\ 2 <= as[i] /\ as[i] + ts[i].len + 2 <= end
             /\ as[i + 1] = as[i] + ts[i].len + 2
             /\ LaidAt(b, ts[i], as[i])
  <2>1. CASE i = n + 1
    <3>1. as[n + 1] = o /\ i + 1 = n + 2
      BY <1>3, <1>5, <1>6, <2>1
    <3>2. as[i] = o /\ ts[i] = r
      BY <1>2, <2>1, <3>1
    <3> QED BY <1>3, <1>5, <1>6, <3>1, <3>2
  <2>2. CASE i # n + 1
    <3>1. i \in 1..n /\ i + 1 \in 1..(n + 1)
      BY <1>1, <2>2
    <3>2. ts[i] = rs[i] /\ as[i] = at[i] /\ as[i + 1] = at[i + 1] /\ rs[i] \in Record
          /\ at[i] \in Nat
      BY <1>2, <1>3, <1>5, <3>1, ElementOfSeq DEF n
    <3>3. /\ 2 <= at[i] /\ at[i] + rs[i].len + 2 <= o
          /\ at[i + 1] = at[i] + rs[i].len + 2 /\ LaidAt(b, rs[i], at[i])
      BY <1>3, <3>1
    <3>4. rs[i].len \in Nat
      BY <3>2, RecordFields
    <3>5. at[i] + rs[i].len + 2 <= end
      <4> DEFINE p == at[i] + rs[i].len + 2
      <4>1. p \in Nat /\ p <= o
        BY <3>2, <3>3, <3>4
      <4> HIDE DEF p
      <4>2. p <= end
        BY <1>1, <4>1
      <4> QED BY <4>2 DEF p
    <3> QED BY <3>2, <3>3, <3>5
  <2> QED BY <2>1, <2>2
<1>8. Laid(b, ts, as, end)
  BY <1>2, <1>3, <1>4, <1>5, <1>6, <1>7 DEF Laid
<1> QED BY <1>8 DEF ts

-----------------------------------------------------------------------------
(* The invariant.                                                           *)
AllFit(rs) == \A i \in DOMAIN rs : LengthFits(rs[i])

TypeInv ==
  /\ buf \in Memory /\ rbuf \in Memory
  /\ offset \in Nat /\ roffset \in Nat /\ rlength \in Nat /\ left \in Nat
  /\ packed \in Seq(Record) /\ expected \in Seq(Record) /\ list \in Seq(Seq(Nat))

(* The block being filled counts its records, whatever their lengths.       *)
CountInv ==
  /\ length = Len(packed) /\ length <= MaxRecords /\ ReadUint16(buf, 0) = length

(* While all that it holds fits a uint16, it is laid out record by record.  *)
WriteInv == AllFit(packed) => \E at : Laid(buf, packed, at, offset)

(* Every record of the block being read has its entry, or will be read yet. *)
Entries == Len(list) + left = Len(expected)

(* While all fit, it is laid out too, and the next to read is the one       *)
(* behind those that have been read.                                        *)
ReadInv ==
  AllFit(expected) =>
    /\ rlength = left /\ AllRead
    /\ \E at : \E end \in Nat :
         Laid(rbuf, expected, at, end) /\ roffset = at[Len(list) + 1]

WritingInv == CountInv /\ WriteInv
ReadingInv == Entries /\ ReadInv
IInv == TypeInv /\ WritingInv /\ ReadingInv

(* Both blocks start empty.                                                 *)
LEMMA InitInv == Init => IInv
<1> SUFFICES ASSUME Init PROVE IInv
  OBVIOUS
<1>1. Zeros \in Memory /\ ReadUint16(Zeros, 0) = 0
  <2>1. 0 \in Byte /\ 1 \in 1..BlockSize /\ 2 \in 1..BlockSize /\ Base \in Nat
    BY Sizes DEF Byte
  <2>2. Zeros \in Memory /\ Zeros[1] = 0 /\ Zeros[2] = 0
    BY <2>1 DEF Zeros, Memory
  <2>3. ReadUint16(Zeros, 0) = Zeros[1] + Base * Zeros[2]
    BY DEF ReadUint16
  <2> QED BY <2>1, <2>2, <2>3
<1>2. <<>> \in Seq(Record) /\ <<>> \in Seq(Seq(Nat)) /\ Len(<<>>) = 0
  BY EmptySeq
<1>3. TypeInv
  BY <1>1, <1>2 DEF Init, TypeInv
<1>4. CountInv
  BY <1>1, <1>2, Sizes DEF Init, CountInv
<1>5. WriteInv
  BY LaidNone DEF Init, WriteInv
<1>6. Entries
  BY <1>2 DEF Init, Entries
<1>7. ReadInv
  <2> DEFINE at == [i \in 1..1 |-> 2]
  <2>1. Laid(rbuf, expected, at, 2) /\ at[Len(list) + 1] = 2
    BY <1>2, LaidNone DEF Init
  <2>2. rlength = left /\ AllRead /\ roffset = 2
    BY DEF Init, AllRead
  <2> HIDE DEF at
  <2> QED BY <2>1, <2>2 DEF ReadInv
<1> QED BY <1>3, <1>4, <1>5, <1>6, <1>7 DEF IInv, WritingInv, ReadingInv

(* The bytes of block.write: the record behind the others, and the count.   *)
WrittenBlock(b, o, n, r) ==
  WriteUint16(Copied(WriteUint16(b, Uint16(r.len), o), o + 2, Bytes(r)), n + 1, 0)

SameFront(b, c, o) == \A i \in 1..BlockSize : 2 < i /\ i <= o => c[i] = b[i]

LEMMA WrittenBytes ==
  ASSUME NEW b \in Memory, NEW o \in Nat, NEW n \in Nat, NEW r \in Record, NEW c,
         c = WrittenBlock(b, o, n, r), Fits16(n + 1)
  PROVE  /\ c \in Memory /\ ReadUint16(c, 0) = n + 1
         /\ 2 <= o => SameFront(b, c, o)
         /\ 2 <= o /\ Fits16(r.len) /\ o + r.len + 2 <= BlockSize => LaidAt(c, r, o)
<1> DEFINE m == r.len
           u == Uint16(m)
           d == WriteUint16(b, u, o)
           e == Copied(d, o + 2, Bytes(r))
<1>1. /\ m \in Nat /\ u \in Nat /\ BlockSize \in Nat
      /\ o + 2 \in Nat /\ n + 1 \in Nat /\ 0 \in Nat
  BY RecordFields, Uint16Type, Sizes
<1>2. Fits16(u)
  BY <1>1, Uint16Type
<1> HIDE DEF u
<1>3. /\ d \in Memory
      /\ Elsewhere(b, d, o)
      /\ o + 2 <= BlockSize => ReadUint16(d, o) = u
  <2>1. /\ WriteUint16(b, u, o) \in Memory
        /\ Elsewhere(b, WriteUint16(b, u, o), o)
    BY <1>1, WriteElsewhere
  <2>2. o + 2 <= BlockSize => ReadUint16(WriteUint16(b, u, o), o) = u
    BY <1>1, <1>2, ReadWritten
  <2> QED BY <2>1, <2>2
<1> HIDE DEF d
<1>4. e \in Memory /\ Holds(d, e, r, o + 2)
  BY <1>1, <1>3, CopyCells
<1>5. c = WriteUint16(e, n + 1, 0)
  BY DEF d, e, u, WrittenBlock
<1> HIDE DEF e
<1>6. /\ c \in Memory /\ ReadUint16(c, 0) = n + 1
      /\ Elsewhere(e, c, 0)
  <2>1. 0 + 2 <= BlockSize
    BY Sizes
  <2> DEFINE k == n + 1
  <2>2. k \in Nat /\ Fits16(k)
    BY <1>1
  <2> HIDE DEF k
  <2>3. /\ WriteUint16(e, k, 0) \in Memory
        /\ Elsewhere(e, WriteUint16(e, k, 0), 0)
    BY <1>1, <1>4, <2>2, WriteElsewhere
  <2>4. ReadUint16(WriteUint16(e, k, 0), 0) = k
    BY <1>1, <1>4, <2>1, <2>2, ReadWritten
  <2> QED BY <1>5, <2>3, <2>4 DEF k
<1>7. ASSUME NEW i \in 1..BlockSize, 2 < i PROVE c[i] = e[i]
  BY <1>6, <1>7 DEF Elsewhere
<1>8. ASSUME 2 <= o, NEW i \in 1..BlockSize, 2 < i, i <= o PROVE c[i] = b[i]
  <2>1. i # o + 1 /\ i # o + 2 /\ i <= o + 2
    BY <1>1, <1>8
  <2>2. c[i] = e[i]
    BY <1>7, <1>8
  <2>3. e[i] = d[i]
    BY <1>4, <2>1 DEF Holds
  <2>4. d[i] = b[i]
    BY <1>3, <2>1 DEF Elsewhere
  <2> QED BY <2>2, <2>3, <2>4
<1>9. ASSUME 2 <= o, Fits16(m), o + m + 2 <= BlockSize
      PROVE  LaidAt(c, r, o)
  <2>1. u = m
    BY <1>1, <1>9, Uint16Fits DEF u
  <2>2. o + 1 \in 1..BlockSize /\ o + 2 \in 1..BlockSize /\ o + 1 <= o + 2 /\ 2 < o + 1
        /\ o + 2 <= BlockSize
    BY <1>1, <1>9
  <2>3. ReadUint16(c, o) = m
    <3>1. c[o + 1] = d[o + 1] /\ c[o + 2] = d[o + 2]
      <4>1. c[o + 1] = e[o + 1] /\ c[o + 2] = e[o + 2]
        BY <1>1, <1>7, <2>2
      <4>2. e[o + 1] = d[o + 1] /\ e[o + 2] = d[o + 2]
        BY <1>1, <1>4, <2>2 DEF Holds
      <4> QED BY <4>1, <4>2
    <3>2. ReadUint16(c, o) = ReadUint16(d, o)
      BY <3>1 DEF ReadUint16
    <3> QED BY <1>3, <2>1, <2>2, <3>2
  <2>4. ASSUME NEW k \in 1..m PROVE c[o + 2 + k] = r.tag
    <3>1. /\ o + 2 + k \in 1..BlockSize /\ 2 < o + 2 + k
          /\ o + 2 + k > o + 2 /\ o + 2 + k <= (o + 2) + m
      BY <1>1, <1>9
    <3>2. e[o + 2 + k] = r.tag
      BY <1>4, <3>1 DEF Holds, m
    <3>3. c[o + 2 + k] = e[o + 2 + k]
      BY <1>7, <3>1
    <3> QED BY <3>2, <3>3
  <2> QED BY <2>3, <2>4 DEF LaidAt
<1>10. 2 <= o => SameFront(b, c, o)
  BY <1>8 DEF SameFront
<1> QED BY <1>6, <1>9, <1>10

(* A record that fits, in room that is as long as it: the arithmetic of the *)
(* guard does not wrap, and neither does the offset behind it.              *)
LEMMA Room ==
  ASSUME NEW r \in Record, LengthFits(r), NEW o \in Nat
  PROVE  /\ Uint16(r.len) = r.len /\ Fits16(r.len)
         /\ ~LackOfSpace(o, r) => o + r.len + 2 <= BlockSize
         /\ o + r.len + 2 <= BlockSize => Advanced(o, r.len) = o + r.len + 2
<1> DEFINE m == r.len
           w == Base * Base
<1>1. m \in Nat /\ w \in Nat /\ BlockSize \in Nat /\ BlockSize < w /\ m + 2 < w
  BY RecordFields, Sizes DEF LengthFits
<1>2. \A v \in Nat : v < w => Uint16(v) = v
  BY Uint16Fits DEF Fits16
<1>3. Fits16(m) <=> m < w
  BY DEF Fits16
<1> HIDE DEF m, w
<1>4. m < w /\ m + 2 \in Nat
  BY <1>1
<1>5. Uint16(m) = m /\ Fits16(m) /\ Uint16(m + 2) = m + 2
  BY <1>1, <1>2, <1>3, <1>4
<1>6. ~(BlockSize - o < m + 2) => o + m + 2 <= BlockSize
  BY <1>1
<1>7. ASSUME o + m + 2 <= BlockSize PROVE Advanced(o, m) = o + m + 2
  <2>1. o + m + 2 \in Nat /\ o + m + 2 < w
    BY <1>1, <1>7
  <2> QED BY <1>2, <2>1 DEF Advanced
<1> QED BY <1>5, <1>6, <1>7 DEF m, LackOfSpace

(* block.write keeps a block laid out and counted, or leaves it as it was.  *)
LEMMA BlockWriteStep ==
  ASSUME NEW b \in Memory, NEW o \in Nat, NEW rs \in Seq(Record), NEW r \in Record,
         NEW n, n = Len(rs), n < MaxRecords, ReadUint16(b, 0) = n,
         AllFit(rs) => \E at : Laid(b, rs, at, o),
         BlockWrite(b, o, n, rs, r)
  PROVE  /\ buf' \in Memory /\ offset' \in Nat /\ packed' \in Seq(Record)
         /\ CountInv' /\ WriteInv'
<1>1. n \in Nat /\ MaxRecords \in Nat /\ n + 1 \in Nat /\ n + 1 <= MaxRecords /\ Fits16(n + 1)
  <2> DEFINE w == Base * Base
  <2>1. n \in Nat /\ MaxRecords \in Nat /\ MaxRecords < w /\ w \in Nat
    BY LenProperties, Sizes
  <2> HIDE DEF w
  <2>2. n + 1 \in Nat /\ n + 1 <= MaxRecords /\ n + 1 < w
    BY <2>1
  <2> QED BY <2>1, <2>2 DEF w, Fits16
<1>2. CASE buf' = b /\ offset' = o /\ length' = n /\ packed' = rs
  <2>1. CountInv'
    BY <1>1, <1>2 DEF CountInv
  <2>2. WriteInv'
    BY <1>2 DEF WriteInv
  <2> QED BY <1>2, <2>1, <2>2
<1>3. CASE /\ ~LackOfSpace(o, r) /\ BytesInside(o)
           /\ buf' = WrittenBlock(b, o, n, r)
           /\ offset' = Advanced(o, r.len) /\ length' = n + 1
           /\ packed' = Append(rs, r)
  <2>1. PICK c, ts, end : c = buf' /\ ts = packed' /\ end = offset'
    OBVIOUS
  <2>2. ts \in Seq(Record) /\ Len(ts) = n + 1 /\ ts[n + 1] = r /\ \A i \in 1..n : ts[i] = rs[i]
    BY <1>1, <1>3, <2>1, AppendProperties
  <2>3. /\ c \in Memory /\ ReadUint16(c, 0) = n + 1
        /\ 2 <= o => SameFront(b, c, o)
        /\ 2 <= o /\ Fits16(r.len) /\ o + r.len + 2 <= BlockSize => LaidAt(c, r, o)
    BY <1>1, <1>3, <2>1, WrittenBytes
  <2>4. end \in Nat
    <3>1. r.len \in Nat /\ o + r.len + 2 \in Nat
      BY RecordFields
    <3> QED BY <1>3, <2>1, <3>1, Uint16Type DEF Advanced
  <2>5. CountInv'
    BY <1>1, <1>3, <2>1, <2>2, <2>3 DEF CountInv
  <2>6. ASSUME AllFit(ts) PROVE \E as : Laid(c, ts, as, end)
    <3>1. LengthFits(r) /\ AllFit(rs)
      <4>1. DOMAIN ts = 1..(n + 1) /\ DOMAIN rs = 1..n
        BY <2>2, LenProperties
      <4>2. LengthFits(ts[n + 1])
        BY <1>1, <2>6, <4>1 DEF AllFit
      <4>3. ASSUME NEW i \in 1..n PROVE LengthFits(rs[i])
        <5>1. i \in DOMAIN ts /\ ts[i] = rs[i]
          BY <1>1, <2>2, <4>1
        <5>2. LengthFits(ts[i])
          BY <2>6, <5>1 DEF AllFit
        <5> QED BY <5>1, <5>2
      <4> QED BY <2>2, <4>1, <4>2, <4>3 DEF AllFit
    <3>2. PICK at : Laid(b, rs, at, o)
      BY <3>1
    <3>3. 2 <= o
      BY <3>2 DEF Laid
    <3>4. Fits16(r.len) /\ o + r.len + 2 <= BlockSize /\ end = o + r.len + 2
      BY <1>3, <2>1, <3>1, Room
    <3>5. LaidAt(c, r, o)
      BY <2>3, <3>3, <3>4
    <3>6. Laid(c, rs, at, o)
      <4>1. \A i \in 1..BlockSize : 2 < i /\ i <= o => c[i] = b[i]
        BY <2>3, <3>3 DEF SameFront
      <4> QED BY <2>3, <3>2, <4>1, SameRecords
    <3>7. \E as : Laid(c, Append(rs, r), as, end)
      BY <2>3, <2>4, <3>4, <3>5, <3>6, LaidMore
    <3> QED BY <1>3, <2>1, <3>7
  <2>7. WriteInv'
    BY <2>1, <2>6 DEF WriteInv
  <2> QED BY <2>1, <2>2, <2>3, <2>4, <2>5, <2>7
<1> QED BY <1>2, <1>3 DEF BlockWrite, WrittenBlock

(* A block that is handed over is read from its first record, and counts    *)
(* those that it holds.                                                     *)
LEMMA HandStep ==
  ASSUME IInv, panicked = "none", Hand
  PROVE  /\ rbuf' \in Memory /\ roffset' \in Nat /\ rlength' \in Nat /\ left' \in Nat
         /\ expected' \in Seq(Record) /\ list' \in Seq(Seq(Nat))
         /\ ReadingInv'
<1>1. /\ rbuf' = buf /\ roffset' = 2 /\ rlength' = Len(packed) /\ left' = Len(packed)
      /\ list' = <<>> /\ expected' = packed /\ panicked' = "none"
  BY DEF Hand, IInv, WritingInv, CountInv
<1>2. /\ buf \in Memory /\ packed \in Seq(Record) /\ Len(packed) \in Nat /\ offset \in Nat
      /\ <<>> \in Seq(Seq(Nat)) /\ Len(<<>>) = 0
  BY EmptySeq, LenProperties DEF IInv, TypeInv
<1>3. Entries'
  BY <1>1, <1>2 DEF Entries
<1>4. ReadInv'
  <2> SUFFICES ASSUME AllFit(packed)
               PROVE  /\ rlength' = left' /\ AllRead'
                      /\ \E at : \E end \in Nat :
                           Laid(rbuf', expected', at, end) /\ roffset' = at[Len(list') + 1]
    BY <1>1 DEF ReadInv
  <2>1. PICK at : Laid(buf, packed, at, offset)
    BY DEF IInv, WritingInv, WriteInv
  <2>2. at[1] = 2 /\ 0 + 1 = 1
    BY <2>1 DEF Laid
  <2>3. AllRead'
    BY <1>1 DEF AllRead
  <2>4. Laid(rbuf', expected', at, offset) /\ roffset' = at[Len(list') + 1]
    BY <1>1, <1>2, <2>1, <2>2
  <2> QED BY <1>1, <1>2, <2>3, <2>4
<1> QED BY <1>1, <1>2, <1>3, <1>4 DEF ReadingInv

(* A block is reset, and holds nothing.                                     *)
LEMMA ResetStep ==
  ASSUME buf \in Memory
  PROVE  /\ ResetBytes \in Memory /\ ReadUint16(ResetBytes, 0) = 0
         /\ \E at : Laid(ResetBytes, <<>>, at, 2)
<1>1. Fits16(0) /\ 0 + 2 <= BlockSize
  <2> DEFINE w == Base * Base
  <2>1. w \in Nat \ {0} /\ 2 <= BlockSize
    BY Sizes
  <2> HIDE DEF w
  <2>2. 0 < w
    BY <2>1
  <2> QED BY <2>1, <2>2 DEF w, Fits16
<1>2. ResetBytes \in Memory
  BY WriteElsewhere DEF ResetBytes
<1>3. ReadUint16(ResetBytes, 0) = 0
  BY <1>1, ReadWritten DEF ResetBytes
<1> QED BY <1>2, <1>3, LaidNone

(* While all fit, the next record to read is at the offset, and it is there *)
(* whole: block.read finds it, and does not leave the block.                *)
LEMMA NextRecord ==
  ASSUME IInv, left > 0, AllFit(expected), NEW j, j = Len(list) + 1
  PROVE  /\ j \in 1..Len(expected) /\ expected[j] \in Record /\ LengthFits(expected[j])
         /\ LaidAt(rbuf, expected[j], roffset)
         /\ 2 <= roffset /\ roffset + expected[j].len + 2 <= BlockSize
         /\ ~Empty /\ rlength = left /\ AllRead
         /\ \E at : \E end \in Nat :
              /\ Laid(rbuf, expected, at, end)
              /\ at[j + 1] = roffset + expected[j].len + 2
<1>1. /\ rlength = left /\ AllRead /\ roffset \in Nat /\ left \in Nat
      /\ Len(list) \in Nat /\ Len(expected) \in Nat /\ expected \in Seq(Record)
      /\ Len(list) + left = Len(expected)
  BY LenProperties DEF IInv, TypeInv, ReadingInv, ReadInv, Entries
<1>2. PICK at : \E end \in Nat : Laid(rbuf, expected, at, end) /\ roffset = at[j]
  <2>1. \E at : \E end \in Nat :
          Laid(rbuf, expected, at, end) /\ roffset = at[Len(list) + 1]
    BY Zenon DEF IInv, ReadingInv, ReadInv
  <2> QED BY <2>1
<1>3. PICK end \in Nat : Laid(rbuf, expected, at, end) /\ roffset = at[j]
  BY <1>2
<1>4. j \in 1..Len(expected) /\ j \in DOMAIN expected
  BY <1>1, LenProperties
<1>5. expected[j] \in Record /\ LengthFits(expected[j])
  BY <1>1, <1>4, ElementOfSeq DEF AllFit
<1>6. /\ 2 <= roffset /\ roffset + expected[j].len + 2 <= end /\ end <= BlockSize
      /\ at[j + 1] = roffset + expected[j].len + 2 /\ LaidAt(rbuf, expected[j], roffset)
  BY <1>4, <1>3 DEF Laid
<1>7. roffset + expected[j].len + 2 <= BlockSize /\ ~(roffset >= BlockSize)
  <2>1. expected[j].len \in Nat /\ BlockSize \in Nat
    BY <1>5, RecordFields, Sizes
  <2> QED BY <1>1, <1>6, <2>1
<1>8. ~Empty
  BY <1>1, <1>7 DEF Empty
<1>9. \E as : \E e \in Nat :
        Laid(rbuf, expected, as, e) /\ as[j + 1] = roffset + expected[j].len + 2
  BY <1>6, <1>3
<1> QED BY <1>1, <1>4, <1>5, <1>6, <1>7, <1>8, <1>9

(* block.read of a record of n bytes, as the bytes that the block holds.    *)
LEMMA ReadsRecord ==
  ASSUME rbuf \in Memory, roffset \in Nat, NEW r \in Record, LaidAt(rbuf, r, roffset),
         roffset + r.len + 2 <= BlockSize
  PROVE  ReadUint16(rbuf, roffset) = r.len /\ ReadBytes(r.len) = Bytes(r)
<1> DEFINE n == r.len
<1>1. n \in Nat /\ BlockSize \in Nat
  BY RecordFields, Sizes
<1>2. \A i \in 1..n : rbuf[roffset + 2 + i] = r.tag
  BY DEF LaidAt
<1>3. \A i \in 1..n : roffset + 2 + i <= BlockSize
  BY <1>1
<1>4. ReadBytes(n) = [i \in 1..n |-> r.tag]
  <2> HIDE DEF n
  <2> QED BY <1>2, <1>3 DEF ReadBytes
<1> QED BY <1>4 DEF LaidAt, Bytes

(* The bytes that block.read returns are numbers.                           *)
LEMMA ReadTypes ==
  ASSUME rbuf \in Memory, roffset \in Nat, roffset + 2 <= BlockSize
  PROVE  /\ ReadUint16(rbuf, roffset) \in Nat
         /\ \A n \in Nat : ReadBytes(n) \in Seq(Nat)
<1>1. BlockSize \in Nat /\ Base \in Nat
  BY Sizes
<1>2. \A i \in 1..BlockSize : rbuf[i] \in Nat
  BY DEF Memory, Byte
<1>3. rbuf[roffset + 1] \in Nat /\ rbuf[roffset + 2] \in Nat
  BY <1>1, <1>2
<1>4. ReadUint16(rbuf, roffset) \in Nat
  <2>1. \A a, b, c \in Nat : a + b * c \in Nat
    OBVIOUS
  <2> QED BY <1>1, <1>3, <2>1 DEF ReadUint16
<1>5. ASSUME NEW n \in Nat PROVE ReadBytes(n) \in Seq(Nat)
  <2>1. ASSUME NEW i \in 1..n
        PROVE  (IF roffset + 2 + i <= BlockSize THEN rbuf[roffset + 2 + i] ELSE 0) \in Nat
    BY <1>1, <1>2
  <2>2. ReadBytes(n) \in [1..n -> Nat]
    BY <2>1 DEF ReadBytes
  <2> QED BY <2>2, SeqDef
<1> QED BY <1>4, <1>5

(* Reading an entry, whether it finds a record or not, counts it; and while *)
(* all fit it is the next record, whole.                                    *)
LEMMA ReadStep ==
  ASSUME IInv, panicked = "none", Read
  PROVE  /\ rbuf' \in Memory /\ roffset' \in Nat /\ rlength' \in Nat /\ left' \in Nat
         /\ expected' \in Seq(Record) /\ list' \in Seq(Seq(Nat))
         /\ ReadingInv'
<1>1. /\ left > 0 /\ left' = left - 1 /\ expected' = expected /\ panicked' = "none"
      /\ left \in Nat /\ rlength \in Nat /\ roffset \in Nat /\ rbuf \in Memory
      /\ list \in Seq(Seq(Nat)) /\ expected \in Seq(Record) /\ Len(list) \in Nat
  BY LenProperties DEF Read, IInv, TypeInv
<1>2. /\ left' \in Nat
      /\ \A e \in Seq(Nat) : /\ Append(list, e) \in Seq(Seq(Nat))
                             /\ Len(Append(list, e)) = Len(list) + 1
  BY <1>1, AppendProperties
<1>3. ASSUME NEW e \in Seq(Nat), list' = Append(list, e)
      PROVE  list' \in Seq(Seq(Nat)) /\ Entries'
  <2>1. list' \in Seq(Seq(Nat)) /\ Len(list') = Len(list) + 1
    BY <1>2, <1>3
  <2>2. Len(list) + left = Len(expected)
    BY DEF IInv, ReadingInv, Entries
  <2>3. Len(list) + 1 + (left - 1) = Len(list) + left
    BY <1>1
  <2> QED BY <1>1, <2>1, <2>2, <2>3 DEF Entries
<1>4. Nil \in Seq(Nat)
  BY EmptySeq DEF Nil
<1>5. CASE Empty /\ list' = Append(list, Nil) /\ UNCHANGED <<rbuf, roffset, rlength>>
  <2>1. ReadInv'
    <3>1. ~AllFit(expected)
      BY <1>1, <1>5, NextRecord
    <3> QED BY <1>1, <3>1 DEF ReadInv
  <2> QED BY <1>1, <1>2, <1>3, <1>4, <1>5, <2>1 DEF ReadingInv
<1>6. ASSUME ~Empty, roffset + 2 <= BlockSize, ReadUint16(rbuf, roffset) = 0,
             list' = Append(list, Nil), roffset' = roffset + 2, UNCHANGED <<rbuf, rlength>>
      PROVE  /\ rbuf' \in Memory /\ roffset' \in Nat /\ rlength' \in Nat
             /\ list' \in Seq(Seq(Nat)) /\ ReadingInv'
  <2>1. ReadInv'
    <3>1. ~AllFit(expected)
      <4> SUFFICES ASSUME AllFit(expected) PROVE FALSE
        OBVIOUS
      <4>1. PICK r \in Record :
              LaidAt(rbuf, r, roffset) /\ roffset + r.len + 2 <= BlockSize
        BY <1>1, NextRecord
      <4>2. r.len = 0
        BY <1>6, <4>1 DEF LaidAt
      <4> QED BY <4>2, RecordFields
    <3> QED BY <1>1, <3>1 DEF ReadInv
  <2>2. roffset' \in Nat
    BY <1>1, <1>6
  <2> QED BY <1>1, <1>3, <1>4, <1>6, <2>1, <2>2 DEF ReadingInv
<1>7. ASSUME ~Empty, roffset + 2 <= BlockSize, NEW n, n = ReadUint16(rbuf, roffset), n # 0,
             list' = Append(list, ReadBytes(n)), roffset' = Advanced(roffset, n),
             rlength' = rlength - 1, rbuf' = WriteUint16(rbuf, rlength - 1, 0)
      PROVE  /\ rbuf' \in Memory /\ roffset' \in Nat /\ rlength' \in Nat
             /\ list' \in Seq(Seq(Nat)) /\ ReadingInv'
  <2>1. n \in Nat /\ ReadBytes(n) \in Seq(Nat)
    BY <1>1, <1>7, ReadTypes
  <2>2. rlength - 1 \in Nat
    BY <1>1, <1>7 DEF Empty
  <2>3. rbuf' \in Memory /\ Elsewhere(rbuf, rbuf', 0)
    <3> DEFINE k == rlength - 1
    <3>1. k \in Nat
      BY <2>2
    <3> HIDE DEF k
    <3>2. WriteUint16(rbuf, k, 0) \in Memory /\ Elsewhere(rbuf, WriteUint16(rbuf, k, 0), 0)
      BY <1>1, <3>1, WriteElsewhere
    <3> QED BY <1>7, <3>2 DEF k
  <2>4. roffset' \in Nat
    <3>1. roffset + n + 2 \in Nat
      BY <1>1, <2>1
    <3> QED BY <1>7, <3>1, Uint16Type DEF Advanced
  <2>5. list' \in Seq(Seq(Nat)) /\ Entries'
    BY <1>3, <1>7, <2>1
  <2>6. ReadInv'
    <3> SUFFICES ASSUME AllFit(expected)
                 PROVE  /\ rlength' = left' /\ AllRead'
                        /\ \E at : \E end \in Nat :
                             Laid(rbuf', expected', at, end) /\ roffset' = at[Len(list') + 1]
      BY <1>1 DEF ReadInv
    <3> DEFINE j == Len(list) + 1
    <3>0. j = Len(list) + 1
      OBVIOUS
    <3> HIDE DEF j
    <3>1. PICK r : r = expected[j]
      OBVIOUS
    <3>2. /\ j \in 1..Len(expected) /\ r \in Record /\ LengthFits(r)
          /\ LaidAt(rbuf, r, roffset) /\ 2 <= roffset /\ roffset + r.len + 2 <= BlockSize
          /\ rlength = left /\ AllRead
          /\ \E at : \E end \in Nat :
               Laid(rbuf, expected, at, end) /\ at[j + 1] = roffset + r.len + 2
      BY <1>1, <3>0, <3>1, NextRecord
    <3>3. PICK at : \E end \in Nat :
            Laid(rbuf, expected, at, end) /\ at[j + 1] = roffset + r.len + 2
      BY <3>2
    <3>4. PICK end \in Nat :
            Laid(rbuf, expected, at, end) /\ at[j + 1] = roffset + r.len + 2
      BY <3>3
    <3>5. n = r.len /\ ReadBytes(n) = Bytes(r)
      BY <1>1, <1>7, <3>2, ReadsRecord
    <3>6. roffset' = at[j + 1]
      BY <1>1, <1>7, <3>2, <3>4, <3>5, Room
    <3>7. Laid(rbuf', expected', at, end)
      <4>1. PICK c : c = rbuf'
        OBVIOUS
      <4>2. c \in Memory /\ \A i \in 1..BlockSize : 2 < i /\ i <= end => c[i] = rbuf[i]
        BY <2>3, <4>1 DEF Elsewhere
      <4>3. Laid(c, expected, at, end)
        BY <1>1, <3>4, <4>2, SameRecords
      <4> QED BY <1>1, <4>1, <4>3
    <3>8. AllRead'
      <4>1. /\ Len(list') = j /\ list'[j] = Bytes(expected[j])
            /\ \A i \in 1..Len(list) : list'[i] = list[i]
        BY <1>1, <1>7, <2>1, <3>0, <3>1, <3>5, AppendProperties
      <4>2. DOMAIN list' = 1..j /\ DOMAIN list = 1..Len(list)
        BY <1>1, <2>5, <4>1, LenProperties
      <4>3. ASSUME NEW i \in 1..j PROVE list'[i] = Bytes(expected[i])
        <5>1. CASE i = j
          BY <4>1, <5>1
        <5>2. CASE i # j
          <6>1. i \in 1..Len(list)
            BY <1>1, <3>0, <5>2
          <6> QED BY <3>2, <4>1, <4>2, <6>1 DEF AllRead
        <5> QED BY <5>1, <5>2
      <4> QED BY <1>1, <4>2, <4>3 DEF AllRead
    <3>9. rlength' = left' /\ Len(list') = j
      BY <1>1, <1>2, <1>7, <2>1, <3>0, <3>2
    <3> QED BY <3>6, <3>7, <3>8, <3>9
  <2> QED BY <2>2, <1>7, <2>3, <2>4, <2>5, <2>6 DEF ReadingInv
<1> QED BY <1>1, <1>2, <1>5, <1>6, <1>7 DEF Read

(* Every step of the two loops keeps the invariant.                         *)
LEMMA NextInv == ASSUME IInv, Next PROVE IInv'
<1>1. panicked = "none"
  BY DEF Next
<1>2. /\ TypeInv /\ CountInv /\ WriteInv
      /\ buf \in Memory /\ offset \in Nat /\ packed \in Seq(Record)
  BY DEF IInv, WritingInv, TypeInv
<1>3. ASSUME NEW r \in Record, Write(r) PROVE IInv'
  <2>1. CASE /\ length < MaxRecords /\ BlockWrite(buf, offset, length, packed, r)
             /\ UNCHANGED reading
    <3>1. /\ length = Len(packed) /\ ReadUint16(buf, 0) = length
          /\ AllFit(packed) => \E at : Laid(buf, packed, at, offset)
      BY <1>2 DEF CountInv, WriteInv
    <3>2. /\ buf' \in Memory /\ offset' \in Nat /\ packed' \in Seq(Record)
          /\ CountInv' /\ WriteInv'
      BY <1>2, <2>1, <3>1, BlockWriteStep
    <3>3. TypeInv'
      BY <1>2, <2>1, <3>2 DEF TypeInv, reading
    <3>4. ReadingInv'
      BY <2>1 DEF reading, IInv, ReadingInv, Entries, ReadInv, AllRead
    <3> QED BY <3>2, <3>3, <3>4 DEF IInv, WritingInv
  <2>2. CASE Hand /\ BlockWrite(ResetBytes, 2, 0, <<>>, r)
    <3>1. /\ ResetBytes \in Memory /\ ReadUint16(ResetBytes, 0) = 0
          /\ \E at : Laid(ResetBytes, <<>>, at, 2)
      BY <1>2, ResetStep
    <3>2. <<>> \in Seq(Record) /\ Len(<<>>) = 0 /\ 0 < MaxRecords /\ 2 \in Nat
      <4>1. 0 < MaxRecords
        BY SizeAssumption
      <4> QED BY <4>1, EmptySeq
    <3> DEFINE b == ResetBytes
               z == <<>>
    <3> HIDE DEF b, z
    <3>3. /\ b \in Memory /\ z \in Seq(Record) /\ 0 = Len(z) /\ ReadUint16(b, 0) = 0
          /\ \E at : Laid(b, z, at, 2)
          /\ BlockWrite(b, 2, 0, z, r)
      BY <2>2, <3>1, <3>2 DEF b, z
    <3>4. /\ buf' \in Memory /\ offset' \in Nat /\ packed' \in Seq(Record)
          /\ CountInv' /\ WriteInv'
      BY <3>2, <3>3, BlockWriteStep
    <3>5. /\ rbuf' \in Memory /\ roffset' \in Nat /\ rlength' \in Nat /\ left' \in Nat
          /\ expected' \in Seq(Record) /\ list' \in Seq(Seq(Nat))
          /\ ReadingInv'
      BY <1>1, <2>2, HandStep
    <3> QED BY <3>4, <3>5 DEF IInv, WritingInv, TypeInv
  <2> QED BY <1>3, <2>1, <2>2 DEF Write
<1>4. CASE Tick
  <2>1. /\ rbuf' \in Memory /\ roffset' \in Nat /\ rlength' \in Nat /\ left' \in Nat
        /\ expected' \in Seq(Record) /\ list' \in Seq(Seq(Nat))
        /\ ReadingInv'
    BY <1>1, <1>4, HandStep DEF Tick
  <2>2. buf' = ResetBytes /\ offset' = 2 /\ length' = 0 /\ packed' = <<>>
    BY <1>4 DEF Tick
  <2>3. /\ ResetBytes \in Memory /\ ReadUint16(ResetBytes, 0) = 0
        /\ \E at : Laid(ResetBytes, <<>>, at, 2)
    BY <1>2, ResetStep
  <2>4. <<>> \in Seq(Record) /\ Len(<<>>) = 0 /\ 0 <= MaxRecords
    BY EmptySeq, Sizes
  <2>5. CountInv'
    BY <2>2, <2>3, <2>4 DEF CountInv
  <2>6. WriteInv'
    BY <2>2, <2>3 DEF WriteInv
  <2>7. TypeInv'
    BY <2>1, <2>2, <2>3, <2>4 DEF TypeInv
  <2> QED BY <2>1, <2>5, <2>6, <2>7 DEF IInv, WritingInv
<1>5. ASSUME NEW r \in Record, WritePanics(r) PROVE IInv'
  <2>1. UNCHANGED <<writing, rbuf, roffset, rlength, left, list, expected>>
        /\ panicked' = "writeloop"
    BY <1>5 DEF WritePanics
  <2>2. TypeInv' /\ WritingInv'
    BY <1>2, <2>1 DEF writing, TypeInv, WritingInv, CountInv, WriteInv
  <2>3. ReadingInv'
    BY <2>1 DEF IInv, ReadingInv, Entries, ReadInv, AllRead
  <2> QED BY <2>2, <2>3 DEF IInv
<1>6. CASE Read \/ ReadPanics
  <2>0. UNCHANGED writing
    BY <1>6 DEF Read, ReadPanics, writing
  <2>1. WritingInv'
    BY <2>0 DEF writing, IInv, WritingInv, CountInv, WriteInv
  <2>2. CASE Read
    <3>1. /\ rbuf' \in Memory /\ roffset' \in Nat /\ rlength' \in Nat /\ left' \in Nat
          /\ expected' \in Seq(Record) /\ list' \in Seq(Seq(Nat))
          /\ ReadingInv'
      BY <1>1, <2>2, ReadStep
    <3>2. TypeInv'
      BY <1>2, <2>0, <3>1 DEF writing, TypeInv
    <3> QED BY <2>1, <3>1, <3>2 DEF IInv
  <2>3. CASE ReadPanics
    <3>1. /\ left > 0 /\ ~Empty /\ roffset + 2 > BlockSize
          /\ UNCHANGED <<rbuf, roffset, rlength, left, list, expected>>
      BY <2>3 DEF ReadPanics
    <3>2. ~AllFit(expected)
      <4> SUFFICES ASSUME AllFit(expected) PROVE FALSE
        OBVIOUS
      <4>1. PICK r \in Record : roffset + r.len + 2 <= BlockSize
        BY <3>1, NextRecord
      <4>2. r.len \in Nat /\ BlockSize \in Nat /\ roffset \in Nat
        BY <1>2, RecordFields, Sizes DEF TypeInv
      <4> QED BY <3>1, <4>1, <4>2
    <3>3. ReadingInv'
      BY <3>1, <3>2 DEF IInv, ReadingInv, Entries, ReadInv
    <3>4. TypeInv'
      BY <1>2, <2>0, <3>1 DEF writing, TypeInv
    <3> QED BY <2>1, <3>3, <3>4 DEF IInv
  <2> QED BY <1>6, <2>2, <2>3
<1> QED BY <1>3, <1>4, <1>5, <1>6 DEF Next

(* Of a block that sub is called with, it gets an entry for each record     *)
(* that the block accepted; and while none of these overflows a uint16, the *)
(* record itself, whole and in its order, with no panic of the reader.      *)
THEOREM BlockReadsBack == Spec => []ReadsBack
<1>1. IInv /\ UNCHANGED vars => IInv'
  BY DEF vars, writing, reading, IInv, TypeInv, WritingInv, CountInv, WriteInv,
         ReadingInv, Entries, ReadInv, AllRead
<1>2. IInv /\ [Next]_vars => IInv'
  BY <1>1, NextInv
<1>3. ASSUME IInv PROVE ReadsBack
  <2>1. Len(list) + left = Len(expected) /\ Len(list) \in Nat
    BY <1>3, LenProperties DEF IInv, TypeInv, ReadingInv, Entries
  <2>2. EntryPerRecord
    BY <2>1 DEF EntryPerRecord, SubIsCalled
  <2> QED BY <1>3, <2>2 DEF IInv, ReadingInv, ReadInv, ReadsBack, AllFit
<1> QED BY InitInv, <1>2, <1>3, PTL DEF Spec

-----------------------------------------------------------------------------
(* ServerCache.                                                             *)
(* What a reader could have seen it has found, has missed, or has still to  *)
(* get; who was alive all through the call is alive now.                    *)
ReaderInv(r) ==
  /\ reader[r].at \in {"get", "done"} =>
       /\ seen[r].always \subseteq
            reader[r].found \cup reader[r].missed \cup reader[r].left
       /\ reader[r].found \subseteq seen[r].ever
  /\ reader[r].at = "get" => seen[r].always \subseteq keys
  /\ reader[r].at = "done" => reader[r].left = {}

ReaderType ==
  [at : {"idle", "get", "done"}, left : SUBSET Server, found : SUBSET Server,
   missed : SUBSET Server]
SeenType == [always : SUBSET Server, ever : SUBSET Server]

CacheInv ==
  /\ reader \in [Reader -> ReaderType] /\ seen \in [Reader -> SeenType]
  /\ serverList \subseteq Server /\ keys \subseteq Server
  /\ \A r \in Reader : ReaderInv(r)

(* Before the first command nobody has read anything.                       *)
LEMMA CacheInitInv == CacheInit => CacheInv
<1> SUFFICES ASSUME CacheInit PROVE CacheInv
  OBVIOUS
<1>1. reader \in [Reader -> ReaderType] /\ seen \in [Reader -> SeenType]
  BY DEF CacheInit, ReaderType, SeenType
<1>2. ASSUME NEW r \in Reader PROVE reader[r].at = "idle"
  BY DEF CacheInit
<1>3. \A r \in Reader : ReaderInv(r)
  BY <1>2 DEF ReaderInv
<1> QED BY <1>1, <1>3 DEF CacheInit, CacheInv

(* A step that is not the reader's own leaves its call as it is, and what   *)
(* it could have seen shrinks with the keys and grows with them.            *)
LEMMA OthersStep ==
  ASSUME CacheInv, Observe, UNCHANGED reader, keys' \subseteq Server,
         serverList' \subseteq Server
  PROVE  seen' \in [Reader -> SeenType] /\ \A r \in Reader : ReaderInv(r)'
<1>1. ASSUME NEW r \in Reader
      PROVE  seen'[r] \in SeenType /\ ReaderInv(r)'
  <2>1. reader[r] \in ReaderType /\ seen[r] \in SeenType /\ ReaderInv(r)
    BY DEF CacheInv
  <2>2. CASE reader[r].at # "get"
    <3>1. seen'[r] = seen[r]
      BY <2>2 DEF Observe
    <3> QED BY <2>1, <2>2, <3>1 DEF ReaderInv
  <2>3. CASE reader[r].at = "get"
    <3>1. seen'[r] = [always |-> seen[r].always \cap serverList' \cap keys',
                      ever |-> seen[r].ever \cup keys']
      BY <2>3 DEF Observe
    <3> QED BY <2>1, <2>3, <3>1 DEF ReaderInv, SeenType
  <2> QED BY <2>2, <2>3
<1>2. seen' = [r \in Reader |-> seen'[r]]
  BY DEF Observe
<1> QED BY <1>1, <1>2

(* A step of a reader: others are as they were, and its own call goes on.   *)
LEMMA ReaderStep ==
  ASSUME CacheInv, Observe, NEW q \in Reader, GetServers(q)
  PROVE  CacheInv'
<1>1. UNCHANGED <<serverList, keys>>
  BY DEF GetServers, GetMembers, Get, GetReturn
<1>2. /\ reader' \in [Reader -> ReaderType]
      /\ \A r \in Reader \ {q} : reader'[r] = reader[r]
  <2>1. reader \in [Reader -> ReaderType] /\ reader[q] \in ReaderType
        /\ serverList \subseteq Server
    BY DEF CacheInv
  <2>2. CASE GetMembers(q)
    BY <2>1, <2>2 DEF GetMembers, ReaderType
  <2>3. ASSUME NEW s \in Server, Get(q, s)
        PROVE  /\ reader' \in [Reader -> ReaderType]
               /\ \A r \in Reader \ {q} : reader'[r] = reader[r]
    <3>1. PICK after \in ReaderType : reader' = [reader EXCEPT ![q] = after]
      BY <2>1, <2>3 DEF Get, Skip, ReaderType
    <3> QED BY <2>1, <3>1
  <2>4. CASE GetReturn(q)
    <3>1. PICK after \in ReaderType : reader' = [reader EXCEPT ![q] = after]
      BY <2>1, <2>4 DEF GetReturn, ReaderType
    <3> QED BY <2>1, <3>1
  <2> QED BY <2>2, <2>3, <2>4 DEF GetServers
<1>3. ASSUME NEW r \in Reader PROVE seen'[r] \in SeenType /\ ReaderInv(r)'
  <2>1. /\ reader[r] \in ReaderType /\ seen[r] \in SeenType /\ ReaderInv(r)
        /\ serverList \subseteq Server /\ keys \subseteq Server
    BY DEF CacheInv
  <2>2. seen'[r] = IF reader'[r].at # "get" THEN seen[r]
                   ELSE IF reader[r].at # "get"
                     THEN [always |-> serverList \cap keys, ever |-> keys]
                     ELSE [always |-> seen[r].always \cap serverList \cap keys,
                           ever |-> seen[r].ever \cup keys]
    BY <1>1 DEF Observe
  <2>3. seen'[r] \in SeenType
    BY <2>1, <2>2 DEF SeenType
  <2>4. CASE r # q
    <3>1. reader'[r] = reader[r]
      BY <1>2, <2>4
    <3> QED BY <1>1, <2>1, <2>2, <2>3, <3>1 DEF ReaderInv, SeenType
  <2>5. CASE r = q /\ GetMembers(q)
    <3>1. reader'[r] = [at |-> "get", left |-> serverList, found |-> {}, missed |-> {}]
          /\ reader[r].at # "get"
      BY <2>5 DEF GetMembers, CacheInv
    <3> QED BY <1>1, <2>2, <2>3, <3>1 DEF ReaderInv
  <2>6. ASSUME r = q, NEW s \in Server, Get(q, s) PROVE ReaderInv(r)'
    <3>1. reader[r].at = "get" /\ reader'[r].at = "get"
          /\ reader'[r].left = reader[r].left \ {s}
          /\ \/ /\ s \in keys /\ reader'[r].found = reader[r].found \cup {s}
                /\ reader'[r].missed = reader[r].missed
             \/ /\ s \notin keys /\ reader'[r].found = reader[r].found
                /\ reader'[r].missed = reader[r].missed
             \/ /\ reader'[r].found = reader[r].found
                /\ reader'[r].missed = reader[r].missed \cup {s}
      BY <2>1, <2>6 DEF Get, Skip, CacheInv, ReaderType
    <3> QED BY <1>1, <2>1, <2>2, <3>1 DEF ReaderInv, SeenType
  <2>7. CASE r = q /\ GetReturn(q)
    <3>1. reader[r].at = "get" /\ reader[r].left = {}
          /\ reader'[r] = [reader[r] EXCEPT !.at = "done"]
      BY <2>7 DEF GetReturn, CacheInv
    <3> QED BY <1>1, <2>1, <2>2, <3>1 DEF ReaderInv, ReaderType
  <2> QED BY <2>3, <2>4, <2>5, <2>6, <2>7 DEF GetServers
<1>4. seen' = [r \in Reader |-> seen'[r]]
  BY DEF Observe
<1> QED BY <1>1, <1>2, <1>3, <1>4 DEF CacheInv

(* Every command keeps the invariant.                                       *)
LEMMA CacheNextInv == ASSUME CacheInv, CacheNext PROVE CacheInv'
<1>1. Observe
  BY DEF CacheNext
<1>2. ASSUME NEW s \in Server, Register(s) \/ Stop(s) \/ Expire(s) PROVE CacheInv'
  <2>1. UNCHANGED reader /\ keys' \subseteq Server /\ serverList' \subseteq Server
    BY <1>2 DEF Register, SAdd, Set, SMoveDel, Del, Stop, Expire, CacheInv
  <2> QED BY <1>1, <2>1, OthersStep DEF CacheInv
<1>3. ASSUME NEW c \in Cleaner, Clean(c) PROVE CacheInv'
  <2>1. UNCHANGED <<reader, keys>> /\ serverList' \subseteq Server
    BY <1>3 DEF Clean, CleanMembers, CleanExists, CleanMove, CleanEnd, CacheInv
  <2> QED BY <1>1, <2>1, OthersStep DEF CacheInv
<1>4. ASSUME NEW r \in Reader, GetServers(r) PROVE CacheInv'
  BY <1>1, <1>4, ReaderStep
<1> QED BY <1>2, <1>3, <1>4 DEF CacheNext

(* GetServers returns what was there all through the call, unless its own   *)
(* command failed, and nothing that was not there at any time of it.        *)
THEOREM CacheReads == CacheSpec => []ReadsWhatWasThere
<1>1. CacheInv /\ UNCHANGED cacheVars => CacheInv'
  BY DEF CacheInv, ReaderInv, cacheVars
<1>2. CacheInv /\ [CacheNext]_cacheVars => CacheInv'
  BY <1>1, CacheNextInv
<1>3. CacheInv => ReadsWhatWasThere
  BY DEF CacheInv, ReaderInv, ReadsWhatWasThere
<1> QED BY CacheInitInv, <1>2, <1>3, PTL DEF CacheSpec

-----------------------------------------------------------------------------
(* Codec: the tokens of a message.                                          *)
Kind == {"uint8", "uint64", "string", "addr", "list8", "list16"}
Token == {EncodeHeader(m) : m \in Message}
           \cup [is : {"field", "items"}, n : Nat]

(* Only the last field of a body is a list.                                 *)
IsBody(b) == b \in Seq(Kind) /\ \A i \in 1..Len(b) : IsList(b[i]) => i = Len(b)

(* So it is with no field, with one, and with others before a last one.     *)
LEMMA BodiesOf ==
  /\ IsBody(<<>>) /\ \A k \in Kind : IsBody(<<k>>)
  /\ \A j, k \in Kind : ~IsList(j) => IsBody(<<j, k>>)
  /\ \A i, j, k \in Kind : ~IsList(i) /\ ~IsList(j) => IsBody(<<i, j, k>>)
<1>1. IsBody(<<>>)
  BY EmptySeq DEF IsBody
<1>2. ASSUME NEW k \in Kind PROVE IsBody(<<k>>)
  <2>1. <<k>> \in Seq(Kind) /\ Len(<<k>>) = 1
    OBVIOUS
  <2> QED BY <2>1 DEF IsBody
<1>3. ASSUME NEW j \in Kind, NEW k \in Kind, ~IsList(j) PROVE IsBody(<<j, k>>)
  <2>1. <<j, k>> \in Seq(Kind) /\ Len(<<j, k>>) = 2 /\ <<j, k>>[1] = j
    OBVIOUS
  <2>2. \A n \in 1..2 : n = 1 \/ n = 2
    OBVIOUS
  <2> QED BY <1>3, <2>1, <2>2 DEF IsBody
<1>4. ASSUME NEW i \in Kind, NEW j \in Kind, NEW k \in Kind, ~IsList(i), ~IsList(j)
      PROVE  IsBody(<<i, j, k>>)
  <2>1. /\ <<i, j, k>> \in Seq(Kind) /\ Len(<<i, j, k>>) = 3
        /\ <<i, j, k>>[1] = i /\ <<i, j, k>>[2] = j
    OBVIOUS
  <2>2. \A n \in 1..3 : n = 1 \/ n = 2 \/ n = 3
    OBVIOUS
  <2> QED BY <1>4, <2>1, <2>2 DEF IsBody
<1> QED BY <1>1, <1>2, <1>3, <1>4

(* All bodies are like that.                                                *)
LEMMA Bodies ==
  ASSUME NEW c, NEW b, b = Written(c)
  PROVE  IsBody(b) /\ (Known(c) => BodyOf(c)[1] = b)
<1>1. Known(c) => BodyOf(c)[1] = b
  BY DEF Written
<1>2. b \in {Msgchat, MsgChatResp, MsgGroupInOut, MsgKill, MsgLoginAck, MsgLoc, MsgOffline,
             MsgOfflineNotice, MsgQueryClient, MsgQueryServers, MsgEmpty, <<"string">>}
  BY DEF Written, Known, BodyOf
<1>3. IsBody(b)
  <2>1. IsBody(Msgchat) /\ IsBody(MsgLoc) /\ IsBody(MsgOffline)
    BY BodiesOf DEF Msgchat, MsgLoc, MsgOffline, Kind, IsList
  <2>2. IsBody(MsgChatResp) /\ IsBody(MsgGroupInOut) /\ IsBody(MsgLoginAck)
    BY BodiesOf DEF MsgChatResp, MsgGroupInOut, MsgLoginAck, Kind, IsList
  <2>3. /\ IsBody(MsgKill) /\ IsBody(MsgOfflineNotice) /\ IsBody(MsgQueryClient)
        /\ IsBody(<<"string">>)
    BY BodiesOf DEF MsgKill, MsgOfflineNotice, MsgQueryClient, Kind
  <2>4. IsBody(MsgQueryServers) /\ IsBody(MsgEmpty)
    BY BodiesOf DEF MsgQueryServers, MsgEmpty
  <2> QED BY <1>2, <2>1, <2>2, <2>3, <2>4
<1> QED BY <1>1, <1>3

(* Sequences of one element each, put one behind the other.                 *)
LEMMA OneEach ==
  ASSUME NEW S
  PROVE  \A w \in Seq(Seq(S)) :
           (\A i \in 1..Len(w) : Len(w[i]) = 1) =>
             /\ Len(FlattenSeq(w)) = Len(w)
             /\ \A i \in 1..Len(w) : FlattenSeq(w)[i] = w[i][1]
<1> DEFINE P == {w \in Seq(Seq(S)) :
                   (\A i \in 1..Len(w) : Len(w[i]) = 1) =>
                     /\ Len(FlattenSeq(w)) = Len(w)
                     /\ \A i \in 1..Len(w) : FlattenSeq(w)[i] = w[i][1]}
<1>1. <<>> \in P
  <2>1. <<>> \in Seq(Seq(S)) /\ <<>> \in Seq(S) /\ Len(<<>>) = 0
    BY EmptySeq
  <2>2. FlattenSeq(<<>>) = <<>>
    BY <2>1, FlattenAppend
  <2> QED BY <2>1, <2>2
<1>2. ASSUME NEW w \in Seq(Seq(S)), NEW x \in Seq(S), w \in P PROVE Append(w, x) \in P
  <2> DEFINE t == Append(w, x)
             n == Len(w)
             f == FlattenSeq(w)
             g == FlattenSeq(t)
  <2>1. /\ t \in Seq(Seq(S)) /\ n \in Nat /\ Len(t) = n + 1
        /\ t[n + 1] = x /\ \A i \in 1..n : t[i] = w[i]
    BY AppendProperties, LenProperties
  <2>2. f \in Seq(S) /\ g = f \o x
    BY FlattenAppend
  <2>3. /\ Len(g) = Len(f) + Len(x)
        /\ \A i \in 1..Len(f) + Len(x) : g[i] = IF i <= Len(f) THEN f[i] ELSE x[i - Len(f)]
    BY <2>2, ConcatProperties
  <2>4. (\A i \in 1..n : Len(w[i]) = 1) => Len(f) = n /\ \A i \in 1..n : f[i] = w[i][1]
    BY <1>2
  <2> HIDE DEF P, t, n, f, g
  <2>5. ASSUME \A i \in 1..n + 1 : Len(t[i]) = 1
        PROVE  Len(g) = n + 1 /\ \A i \in 1..n + 1 : g[i] = t[i][1]
    <3>1. /\ \A i \in 1..n : i \in 1..n + 1
          /\ n + 1 \in 1..n + 1 /\ (n + 1) - n = 1 /\ ~(n + 1 <= n)
      BY <2>1
    <3>2. Len(f) = n /\ Len(x) = 1 /\ \A i \in 1..n : f[i] = t[i][1]
      BY <2>1, <2>4, <2>5, <3>1
    <3>3. ASSUME NEW i \in 1..n + 1 PROVE g[i] = t[i][1]
      <4>1. g[i] = IF i <= n THEN f[i] ELSE x[i - n]
        BY <2>3, <3>2
      <4>2. CASE i <= n
        <5>1. i \in 1..n
          BY <2>1, <4>2
        <5> QED BY <3>2, <4>1, <4>2, <5>1
      <4>3. CASE i = n + 1
        BY <2>1, <3>1, <4>1, <4>3
      <4>4. i <= n \/ i = n + 1
        BY <2>1
      <4> QED BY <4>2, <4>3, <4>4
    <3> QED BY <2>3, <3>2, <3>3
  <2>6. t \in P
    BY <2>1, <2>5 DEF P, g
  <2> QED BY <2>6 DEF t
<1> HIDE DEF P
<1>3. \A w \in Seq(Seq(S)) : w \in P
  BY <1>1, <1>2, OneAfterAnother
<1> QED BY <1>3 DEF P

(* What a field is on the wire: its value, or how many a list says it has,  *)
(* and the items themselves behind it.                                      *)
Sent(k, v) == IF IsList(k) THEN CountOf(k, v) ELSE v

(* A count is at most what there is to count.                               *)
LEMMA FieldTokens ==
  ASSUME NEW k \in Kind, NEW v \in Nat, NEW f, f = EncodeField(k, v)
  PROVE  /\ f \in Seq(Token) /\ Sent(k, v) \in Nat /\ Sent(k, v) <= v
         /\ f[1].n = Sent(k, v)
         /\ ~IsList(k) => Len(f) = 1
         /\ IsList(k) => Len(f) = 2 /\ f[2] = [is |-> "items", n |-> v]
<1>1. CountOf(k, v) \in Nat /\ CountOf(k, v) <= v
  <2>1. v % 2^8 \in Nat /\ v % 2^8 <= v
    OBVIOUS
  <2>2. v % 2^16 \in Nat /\ v % 2^16 <= v
    OBVIOUS
  <2> QED BY <2>1, <2>2 DEF CountOf
<1>2. Sent(k, v) \in Nat /\ Sent(k, v) <= v
  BY <1>1 DEF Sent
<1> DEFINE a == [is |-> "field", n |-> Sent(k, v)]
           c == [is |-> "items", n |-> v]
<1>3. a \in Token /\ c \in Token
  BY <1>2 DEF Token
<1>4. f = IF IsList(k) THEN <<a, c>> ELSE <<a>>
  BY DEF EncodeField, Sent
<1>5. a.n = Sent(k, v)
  OBVIOUS
<1> HIDE DEF a
<1>6. CASE IsList(k)
  BY <1>2, <1>3, <1>4, <1>5, <1>6
<1>7. CASE ~IsList(k)
  BY <1>2, <1>3, <1>4, <1>5, <1>7
<1> QED BY <1>6, <1>7

(* What the tokens t of a body b with the values vs are.                    *)
BodyTokens(t, b, vs) ==
  /\ t \in Seq(Token) /\ Len(t) = Len(vs) + (IF HasList(b) THEN 1 ELSE 0)
  /\ \A i \in 1..Len(vs) : t[i].n = Sent(b[i], vs[i])
  /\ HasList(b) => t[Len(vs) + 1] = [is |-> "items", n |-> vs[Len(vs)]]

(* The fields one behind the other are that.                                *)
LEMMA FieldsInOrder ==
  ASSUME NEW b, IsBody(b), NEW vs \in Seq(Nat), Len(vs) = Len(b)
  PROVE  BodyTokens(FlattenSeq([i \in DOMAIN vs |-> EncodeField(b[i], vs[i])]), b, vs)
<1> DEFINE n == Len(vs)
           fs == [i \in DOMAIN vs |-> EncodeField(b[i], vs[i])]
           t == FlattenSeq(fs)
           V == Seq(Token)
<1>1. n \in Nat /\ DOMAIN vs = 1..n /\ Len(b) = n
  BY LenProperties
<1>2. ASSUME NEW i \in 1..n
      PROVE  /\ b[i] \in Kind /\ vs[i] \in Nat /\ (IsList(b[i]) => i = n)
             /\ fs[i] = EncodeField(b[i], vs[i])
  BY <1>1, ElementOfSeq DEF IsBody
<1>3. ASSUME NEW i \in 1..n
      PROVE  /\ fs[i] \in V /\ fs[i][1].n = Sent(b[i], vs[i])
             /\ ~IsList(b[i]) => Len(fs[i]) = 1
             /\ IsList(b[i]) => Len(fs[i]) = 2 /\ fs[i][2] = [is |-> "items", n |-> vs[i]]
  <2> DEFINE f == fs[i]
             k == b[i]
             v == vs[i]
  <2>1. k \in Kind /\ v \in Nat /\ f = EncodeField(k, v)
    BY <1>2
  <2> HIDE DEF f, k, v, fs
  <2>2. /\ f \in V /\ f[1].n = Sent(k, v)
        /\ ~IsList(k) => Len(f) = 1
        /\ IsList(k) => Len(f) = 2 /\ f[2] = [is |-> "items", n |-> v]
    BY <2>1, FieldTokens
  <2> QED BY <2>2 DEF f, k, v
<1>4. fs \in Seq(V) /\ Len(fs) = n
  <2>1. fs = [i \in 1..n |-> fs[i]]
    BY <1>1
  <2>2. \A i \in 1..n : fs[i] \in V
    BY <1>3
  <2> HIDE DEF fs, V, n
  <2> QED BY <1>1, <2>1, <2>2
<1>5. HasList(b) <=> n # 0 /\ IsList(b[n])
  <2>1. b = <<>> <=> n = 0
    BY <1>1, EmptySeq DEF IsBody
  <2> QED BY <1>1, <2>1 DEF HasList, Last
<1> HIDE DEF fs, n
<1>6. ASSUME n = 0 PROVE BodyTokens(t, b, vs)
  <2>1. fs = <<>>
    BY <1>4, <1>6, EmptySeq
  <2>2. <<>> \in Seq(V) /\ <<>> \in Seq(Token) /\ Len(<<>>) = 0
    BY EmptySeq
  <2>3. t = <<>>
    BY <2>1, <2>2, FlattenAppend
  <2> HIDE DEF t
  <2>4. \A i \in 1..n : t[i].n = Sent(b[i], vs[i])
    BY <1>6
  <2> QED BY <1>5, <1>6, <2>2, <2>3, <2>4 DEF BodyTokens, n
<1>7. ASSUME n # 0 PROVE BodyTokens(t, b, vs)
  <2>1. fs # <<>>
    BY <1>1, <1>4, <1>7, EmptySeq
  <2>2. PICK u \in Seq(V), x \in V : fs = Append(u, x) /\ Len(fs) = Len(u) + 1
    BY <1>4, <2>1, LastApart
  <2>3. /\ Len(u) \in Nat /\ n = Len(u) + 1 /\ n \in 1..n
        /\ \A i \in 1..Len(u) : i \in 1..n /\ i # n /\ u[i] = fs[i]
        /\ x = fs[n]
    <3>1. Len(u) \in Nat /\ n = Len(u) + 1
      BY <1>4, <2>2, LenProperties
    <3>2. /\ \A i \in 1..Len(u) : Append(u, x)[i] = u[i]
          /\ Append(u, x)[Len(u) + 1] = x
      BY AppendProperties
    <3> QED BY <2>2, <3>1, <3>2
  <2>4. t = FlattenSeq(u) \o x /\ FlattenSeq(u) \in Seq(Token)
    BY <2>2, FlattenAppend
  <2>5. Len(FlattenSeq(u)) = Len(u) /\ \A i \in 1..Len(u) : FlattenSeq(u)[i] = fs[i][1]
    <3>1. ASSUME NEW i \in 1..Len(u) PROVE Len(u[i]) = 1
      <4>1. i \in 1..n /\ i # n /\ u[i] = fs[i]
        BY <2>3
      <4>2. ~IsList(b[i])
        BY <1>2, <4>1
      <4>3. Len(fs[i]) = 1
        BY <1>3, <4>1, <4>2
      <4> QED BY <4>1, <4>3
    <3>2. \A w \in Seq(V) :
            (\A i \in 1..Len(w) : Len(w[i]) = 1) =>
              /\ Len(FlattenSeq(w)) = Len(w)
              /\ \A i \in 1..Len(w) : FlattenSeq(w)[i] = w[i][1]
      BY OneEach
    <3> HIDE DEF V
    <3>3. Len(FlattenSeq(u)) = Len(u) /\ \A i \in 1..Len(u) : FlattenSeq(u)[i] = u[i][1]
      BY <2>2, <3>1, <3>2
    <3> QED BY <2>3, <3>3
  <2> DEFINE y == FlattenSeq(u)
             k == Len(u)
  <2>6. /\ t \in Seq(Token) /\ Len(t) = k + Len(x)
        /\ \A i \in 1..k + Len(x) : t[i] = IF i <= k THEN y[i] ELSE x[i - k]
    <3>1. x \in Seq(Token) /\ y \in Seq(Token) /\ Len(y) = k /\ t = y \o x
      BY <2>4, <2>5
    <3> HIDE DEF y, t, k
    <3>2. /\ y \o x \in Seq(Token) /\ Len(y \o x) = Len(y) + Len(x)
          /\ \A i \in 1..Len(y) + Len(x) :
               (y \o x)[i] = IF i <= Len(y) THEN y[i] ELSE x[i - Len(y)]
      BY <3>1, ConcatProperties
    <3> QED BY <3>1, <3>2
  <2> HIDE DEF y, t, k
  <2>7. k \in Nat /\ n = k + 1 /\ n - k = 1 /\ n + 1 - k = 2
        /\ ~(n <= k) /\ ~(n + 1 <= k)
    BY <2>3 DEF k
  <2>8. Len(x) = IF HasList(b) THEN 2 ELSE 1
    BY <1>3, <1>5, <1>7, <2>3
  <2>9. Len(t) = n + (IF HasList(b) THEN 1 ELSE 0)
    BY <2>6, <2>7, <2>8
  <2>10. ASSUME NEW i \in 1..n PROVE t[i].n = Sent(b[i], vs[i])
    <3>1. i \in 1..k + Len(x)
      <4>1. Len(x) = 1 \/ Len(x) = 2
        BY <2>8
      <4>2. i \in 1..k + 1 /\ i \in 1..k + 2
        BY <2>7
      <4> QED BY <4>1, <4>2
    <3>2. CASE i <= k
      <4>1. i \in 1..k
        BY <2>7, <3>2
      <4>2. t[i] = fs[i][1]
        BY <2>5, <2>6, <3>1, <3>2, <4>1 DEF y, k
      <4> QED BY <1>3, <4>2
    <3>3. CASE i = n
      <4>1. t[i] = fs[n][1]
        BY <2>3, <2>6, <2>7, <3>1, <3>3
      <4> QED BY <1>3, <3>3, <4>1
    <3> QED BY <2>7, <3>2, <3>3
  <2>11. ASSUME HasList(b) PROVE t[n + 1] = [is |-> "items", n |-> vs[n]]
    <3>1. n + 1 \in 1..k + Len(x)
      <4>1. Len(x) = 2
        BY <2>8, <2>11
      <4>2. n + 1 \in 1..k + 2
        BY <2>7
      <4> QED BY <4>1, <4>2
    <3>2. t[n + 1] = fs[n][2]
      BY <2>3, <2>6, <2>7, <3>1
    <3> QED BY <1>3, <1>5, <2>3, <2>11, <3>2
  <2> QED BY <2>6, <2>9, <2>10, <2>11 DEF BodyTokens, n
<1>8. BodyTokens(t, b, vs)
  BY <1>6, <1>7
<1> QED BY <1>8 DEF t, fs

(* The tokens e of a message m: its header and those of its body.           *)
MessageTokens(e, m) ==
  /\ e \in Seq(Token) /\ e # <<>> /\ e[1] = EncodeHeader(m)
  /\ Len(e) = Len(m.values) + (IF HasList(Written(m.command)) THEN 2 ELSE 1)
  /\ \A i \in 1..Len(m.values) : e[1 + i].n = Sent(Written(m.command)[i], m.values[i])
  /\ HasList(Written(m.command)) =>
       e[Len(m.values) + 2] = [is |-> "items", n |-> m.values[Len(m.values)]]

(* Encode writes them.                                                      *)
LEMMA EncodesMessage ==
  ASSUME NEW m \in Message
  PROVE  MessageTokens(EncodeMessage(m), m)
<1> DEFINE b == Written(m.command)
           vs == m.values
           n == Len(vs)
           h == EncodeHeader(m)
           t == FlattenSeq([i \in DOMAIN vs |-> EncodeField(b[i], vs[i])])
           e == EncodeMessage(m)
           more == IF HasList(b) THEN 1 ELSE 0
<1>1. vs \in Seq(Nat) /\ n \in Nat /\ Len(vs) = Len(b) /\ IsBody(b) /\ h \in Token
  <2>1. vs \in Seq(Nat) /\ Len(vs) = Len(b)
    BY MessageAssumption
  <2>2. IsBody(b)
    BY Bodies
  <2>3. h \in Token
    BY DEF Token
  <2> QED BY <2>1, <2>2, <2>3, LenProperties
<1>2. e = <<h>> \o t
  BY DEF EncodeMessage
<1> HIDE DEF e, h, b, vs
<1>3. BodyTokens(t, b, vs)
  BY <1>1, FieldsInOrder
<1> HIDE DEF t
<1>4. /\ t \in Seq(Token) /\ Len(t) = n + more
      /\ \A i \in 1..n : t[i].n = Sent(b[i], vs[i])
      /\ HasList(b) => t[n + 1] = [is |-> "items", n |-> vs[n]]
  BY <1>3 DEF BodyTokens
<1>5. /\ <<h>> \in Seq(Token) /\ Len(<<h>>) = 1 /\ <<h>>[1] = h
  BY <1>1
<1> HIDE DEF n, more
<1>6. /\ e \in Seq(Token) /\ Len(e) = 1 + Len(t)
      /\ \A i \in 1..1 + Len(t) : e[i] = IF i <= 1 THEN <<h>>[i] ELSE t[i - 1]
  BY <1>2, <1>4, <1>5, ConcatProperties
<1>7. more \in Nat
  BY DEF more
<1>8. e[1] = h /\ e # <<>> /\ Len(e) = n + (IF HasList(b) THEN 2 ELSE 1)
  <2>1. 1 \in 1..1 + Len(t) /\ Len(e) # 0
    BY <1>1, <1>4, <1>6, <1>7
  <2>2. e[1] = h /\ e # <<>>
    BY <1>5, <1>6, <2>1, EmptySeq
  <2> QED BY <1>1, <1>4, <1>6, <2>2 DEF more
<1>9. ASSUME NEW i \in 1..Len(t) PROVE e[1 + i] = t[i]
  <2>1. 1 + i \in 1..1 + Len(t) /\ ~(1 + i <= 1) /\ (1 + i) - 1 = i
    BY <1>1, <1>4, <1>7
  <2> QED BY <1>6, <2>1
<1>10. \A i \in 1..n : e[1 + i].n = Sent(b[i], vs[i])
  <2>1. \A i \in 1..n : i \in 1..Len(t)
    BY <1>1, <1>4, <1>7
  <2> QED BY <1>4, <1>9, <2>1
<1>11. HasList(b) => e[n + 2] = [is |-> "items", n |-> vs[n]]
  <2>1. HasList(b) => n + 1 \in 1..Len(t) /\ 1 + (n + 1) = n + 2
    BY <1>1, <1>4 DEF more
  <2> QED BY <1>4, <1>9, <2>1
<1> QED BY <1>6, <1>8, <1>10, <1>11 DEF MessageTokens, n, b, vs, h, e

(* What stands in front of a sequence, and what is left behind it.          *)
LEMMA Behind ==
  ASSUME NEW S, NEW s \in Seq(S), NEW t \in Seq(S)
  PROVE  /\ SubSeq(s \o t, Len(s) + 1, Len(s \o t)) = t
         /\ \A i \in 1..Len(s) : (s \o t)[i] = s[i]
         /\ s # <<>> => s \o t # <<>>
<1> DEFINE u == s \o t
           k == Len(s) + 1
<1>1. /\ u \in Seq(S) /\ Len(u) = Len(s) + Len(t)
      /\ \A i \in 1..Len(s) + Len(t) : u[i] = IF i <= Len(s) THEN s[i] ELSE t[i - Len(s)]
  BY ConcatProperties
<1> HIDE DEF u
<1>2. /\ Len(s) \in Nat /\ Len(t) \in Nat /\ k \in Int /\ Len(u) \in Int
      /\ Len(u) - k + 1 = Len(t) /\ (~(k <= Len(u)) => Len(t) = 0)
  BY <1>1, LenProperties
<1>3. \A i \in k..Len(u) : u[i] \in S
  <2>1. ASSUME NEW i \in k..Len(u) PROVE i \in 1..Len(u)
    BY <1>2
  <2> QED BY <1>1, <2>1, ElementOfSeq
<1> HIDE DEF k
<1> DEFINE v == SubSeq(u, k, Len(u))
<1>4. /\ v \in Seq(S) /\ Len(v) = Len(t) /\ \A i \in 1..Len(t) : v[i] = u[k + i - 1]
  <2>1. /\ v \in Seq(S) /\ Len(v) = IF k <= Len(u) THEN Len(u) - k + 1 ELSE 0
        /\ \A i \in 1..Len(u) - k + 1 : v[i] = u[k + i - 1]
    BY <1>2, <1>3, SubSeqProperties
  <2> HIDE DEF v
  <2> QED BY <1>2, <2>1
<1> HIDE DEF v
<1>5. ASSUME NEW i \in 1..Len(t) PROVE v[i] = t[i]
  <2>1. /\ k + i - 1 \in 1..Len(s) + Len(t) /\ ~(k + i - 1 <= Len(s))
        /\ (k + i - 1) - Len(s) = i
    BY <1>2 DEF k
  <2> QED BY <1>1, <1>4, <2>1
<1>6. v = t
  BY <1>4, <1>5, SeqEqual
<1>7. ASSUME NEW i \in 1..Len(s) PROVE u[i] = s[i]
  <2>1. i \in 1..Len(s) + Len(t) /\ i <= Len(s)
    BY <1>2
  <2> QED BY <1>1, <2>1
<1>8. s # <<>> => u # <<>>
  BY <1>1, <1>2, EmptySeq
<1> QED BY <1>6, <1>7, <1>8 DEF v, u, k

(* A buffer q that begins with the tokens of a message m, before a rest.    *)
Begins(q, m, rest) ==
  /\ q # <<>> /\ q[1] = EncodeHeader(m)
  /\ \A i \in 1..Len(m.values) : q[1 + i].n = Sent(Written(m.command)[i], m.values[i])
  /\ HasList(Written(m.command)) =>
       q[Len(m.values) + 2] = [is |-> "items", n |-> m.values[Len(m.values)]]
  /\ SubSeq(q, Len(m.values) + (IF HasList(Written(m.command)) THEN 3 ELSE 2), Len(q)) = rest

(* What is written of a message is followed by what was there before.       *)
LEMMA AtFront ==
  ASSUME NEW m \in Message, NEW rest \in Seq(Token), NEW q, q = EncodeMessage(m) \o rest
  PROVE  Begins(q, m, rest)
<1> DEFINE e == EncodeMessage(m)
           b == Written(m.command)
           n == Len(m.values)
           k == n + (IF HasList(b) THEN 3 ELSE 2)
           h == EncodeHeader(m)
           V == Token
           S(i) == Sent(b[i], m.values[i])
           z == [is |-> "items", n |-> m.values[n]]
           L == HasList(b)
<1>1. /\ e \in Seq(V) /\ e # <<>> /\ e[1] = h
      /\ Len(e) = n + (IF L THEN 2 ELSE 1)
      /\ \A i \in 1..n : e[1 + i].n = S(i)
      /\ L => e[n + 2] = z
  BY EncodesMessage DEF MessageTokens
<1>2. n \in Nat
  BY MessageAssumption, LenProperties
<1>3. rest \in Seq(V) /\ q = e \o rest /\ k = n + (IF L THEN 3 ELSE 2)
  OBVIOUS
<1> HIDE DEF h, V, S, z, L, e, b, n, k
<1>4. k = Len(e) + 1 /\ Len(e) \in Nat
  <2>1. \A i \in Nat : i + 3 = (i + 2) + 1 /\ i + 2 = (i + 1) + 1
    OBVIOUS
  <2>2. n + 3 = (n + 2) + 1 /\ n + 2 = (n + 1) + 1
    BY <1>2, <2>1
  <2>3. Len(e) = (IF L THEN n + 2 ELSE n + 1) /\ k = (IF L THEN n + 3 ELSE n + 2)
    BY <1>1, <1>3
  <2>4. k = Len(e) + 1
    BY <2>2, <2>3
  <2> QED BY <1>1, <2>4, LenProperties
<1>5. /\ SubSeq(q, k, Len(q)) = rest /\ q # <<>>
      /\ \A i \in 1..Len(e) : q[i] = e[i]
  <2>1. e \in Seq(V) /\ rest \in Seq(V) /\ e # <<>>
    BY <1>1, <1>3
  <2>2. /\ SubSeq(e \o rest, Len(e) + 1, Len(e \o rest)) = rest
        /\ \A i \in 1..Len(e) : (e \o rest)[i] = e[i]
        /\ e \o rest # <<>>
    BY <2>1, Behind
  <2> QED BY <1>3, <1>4, <2>2
<1>6. /\ 1 \in 1..Len(e) /\ \A i \in 1..n : 1 + i \in 1..Len(e)
      /\ L => n + 2 \in 1..Len(e)
  <2>1. CASE L
    BY <1>1, <1>2, <2>1
  <2>2. CASE ~L
    BY <1>1, <1>2, <2>2
  <2> QED BY <2>1, <2>2
<1>7. /\ q[1] = h /\ (\A i \in 1..n : q[1 + i].n = S(i))
      /\ L => q[n + 2] = z
  BY <1>1, <1>5, <1>6
<1> QED BY <1>2, <1>5, <1>7 DEF h, S, z, L, b, n, k, Begins

-----------------------------------------------------------------------------
(* Codec: what is read of a message.                                        *)
(* The address of the peer has the type that it logged in with.             *)
LEMMA PeerType == Type(PeerAddr) = AddrClient <=> Client
<1> DEFINE b == PeerText[4].bytes
<1>1. Len(PeerText) = 4 /\ b \in 0..26 /\ Client \in BOOLEAN
  BY PeerAssumption DEF IsAddress
<1>2. ~(b > 26)
  BY <1>1
<1>3. PeerAddr.head = IF Client THEN (1 * 32 + b) % 2^8 ELSE (2 * 32 + b) % 2^8
  BY <1>1, <1>2 DEF PeerAddr, ParseClientAddr, ParseServerAddr, ParseAs, NewAddr,
     AddrClient, AddrServer
<1> HIDE DEF b
<1>4. /\ ((1 * 32 + b) % 2^8) \div 2^5 = 1
      /\ ((2 * 32 + b) % 2^8) \div 2^5 = 2
  BY <1>1
<1> QED BY <1>1, <1>3, <1>4 DEF Type, AddrClient

(* Messages that may be handed on.                                          *)
Out == [command : {m.command : m \in Message}, values : Seq(Nat),
        source : {PeerAddr} \cup {ParseAddr(m.source) : m \in Message},
        dest : {ParseAddr(m.dest) : m \in Message}]

(* What one that is handed on has of the one that was written.              *)
Like(h, m) ==
  /\ h.command = m.command /\ h.dest = ParseAddr(m.dest)
  /\ h.source = (IF Client THEN PeerAddr ELSE ParseAddr(m.source))
  /\ DOMAIN h.values = DOMAIN m.values
  /\ \A i \in DOMAIN m.values : h.values[i] <= m.values[i]

(* A header is that of a message exactly if its command is known.           *)
LEMMA Starts ==
  ASSUME NEW m \in Message, NEW rest \in Seq(Token), buffer = EncodeMessage(m) \o rest
  PROVE  buffer # <<>> /\ (StartsMessage <=> Known(m.command))
<1>1. Begins(buffer, m, rest)
  BY AtFront
<1>2. buffer # <<>> /\ buffer[1] = EncodeHeader(m)
  BY <1>1 DEF Begins
<1>3. buffer[1].is = "header" /\ buffer[1].command = m.command
  BY <1>2 DEF EncodeHeader
<1> QED BY <1>2, <1>3 DEF StartsMessage

(* The values that are read are those sent.                                 *)
LEMMA SentValues ==
  ASSUME NEW m \in Message, NEW b, b = Written(m.command)
  PROVE  /\ Len(m.values) \in Nat /\ DOMAIN m.values = 1..Len(m.values)
         /\ Len(b) = Len(m.values) /\ m.values \in Seq(Nat)
         /\ \A i \in 1..Len(m.values) :
              /\ m.values[i] \in Nat /\ Sent(b[i], m.values[i]) \in Nat
              /\ Sent(b[i], m.values[i]) <= m.values[i]
              /\ ~IsList(b[i]) => Sent(b[i], m.values[i]) = m.values[i]
              /\ IsList(b[i]) => i = Len(m.values)
         /\ HasList(b) <=> Len(m.values) # 0 /\ IsList(b[Len(m.values)])
<1> DEFINE vs == m.values
           n == Len(vs)
<1>1. vs \in Seq(Nat) /\ Len(vs) = Len(b) /\ IsBody(b)
  BY MessageAssumption, Bodies
<1> HIDE DEF vs
<1>2. n \in Nat /\ DOMAIN vs = 1..n /\ Len(b) = n /\ b \in Seq(Kind)
  BY <1>1, LenProperties DEF IsBody
<1> HIDE DEF n
<1>3. ASSUME NEW i \in 1..n
      PROVE  /\ vs[i] \in Nat /\ Sent(b[i], vs[i]) \in Nat
             /\ Sent(b[i], vs[i]) <= vs[i]
             /\ ~IsList(b[i]) => Sent(b[i], vs[i]) = vs[i]
             /\ IsList(b[i]) => i = n
  <2> DEFINE k == b[i]
             v == vs[i]
  <2>1. k \in Kind /\ v \in Nat /\ (IsList(k) => i = n)
    BY <1>1, <1>2, ElementOfSeq DEF IsBody, n
  <2> HIDE DEF k, v
  <2>2. Sent(k, v) \in Nat /\ Sent(k, v) <= v
    BY <2>1, FieldTokens
  <2>3. ~IsList(k) => Sent(k, v) = v
    BY DEF Sent
  <2> QED BY <2>1, <2>2, <2>3 DEF k, v
<1>4. HasList(b) <=> n # 0 /\ IsList(b[n])
  <2>1. b = <<>> <=> n = 0
    BY <1>2, EmptySeq
  <2> QED BY <1>2, <2>1 DEF HasList, Last
<1> QED BY <1>1, <1>2, <1>3, <1>4 DEF n, vs

(* A message that fits is read as it was sent, and leaves what is behind    *)
(* it; one that does not leaves what is no header.                          *)
LEMMA Decodes ==
  ASSUME NEW m \in Message, NEW rest \in Seq(Token), buffer = EncodeMessage(m) \o rest,
         Known(m.command)
  PROVE  /\ Decoded \in Out /\ Like(Decoded, m)
         /\ Fits(m) => Decoded = Meant(m) /\ AfterMessage = rest
         /\ ~Fits(m) => AfterMessage # <<>> /\ AfterMessage[1].is = "items"
<1> DEFINE b == Written(m.command)
           vs == m.values
           n == Len(vs)
           u == [i \in 1..n |-> Sent(b[i], vs[i])]
           q == buffer
           k == n + (IF HasList(b) THEN 3 ELSE 2)
           src == IF Client THEN PeerAddr ELSE ParseAddr(m.source)
<1>1. /\ q # <<>> /\ q[1] = EncodeHeader(m)
      /\ \A i \in 1..n : q[1 + i].n = Sent(b[i], vs[i])
      /\ HasList(b) => q[n + 2] = [is |-> "items", n |-> vs[n]]
      /\ SubSeq(q, k, Len(q)) = rest
  <2>1. Begins(q, m, rest)
    BY AtFront
  <2> QED BY <2>1 DEF Begins
<1>2. /\ n \in Nat /\ DOMAIN vs = 1..n /\ Len(b) = n /\ vs \in Seq(Nat)
      /\ \A i \in 1..n :
           /\ vs[i] \in Nat /\ Sent(b[i], vs[i]) \in Nat /\ Sent(b[i], vs[i]) <= vs[i]
           /\ ~IsList(b[i]) => Sent(b[i], vs[i]) = vs[i]
           /\ IsList(b[i]) => i = n
      /\ HasList(b) <=> n # 0 /\ IsList(b[n])
  BY SentValues
<1>3. /\ q[1].command = m.command /\ q[1].source = ParseAddr(m.source)
      /\ q[1].dest = ParseAddr(m.dest)
  BY <1>1 DEF EncodeHeader
<1>4. Body = b /\ Fields = n
  <2>1. BodyOf(m.command)[1] = b
    BY Bodies
  <2> HIDE DEF b, q, n
  <2>2. Body = b
    BY <1>3, <2>1 DEF Body, q
  <2> QED BY <1>2, <2>2 DEF Fields
<1>5. Decoded = [command |-> m.command, values |-> u, source |-> src,
                 dest |-> ParseAddr(m.dest)]
  <2>1. [i \in 1..Fields |-> q[1 + i].n] = u
    <3> HIDE DEF b, vs, n, q
    <3> QED BY <1>1, <1>4
  <2>2. Source = src
    BY <1>3, PeerType DEF Source
  <2> HIDE DEF u, src
  <2> QED BY <1>3, <2>1, <2>2 DEF Decoded
<1> HIDE DEF b, q
<1>6. u \in Seq(Nat) /\ DOMAIN u = 1..n /\ \A i \in 1..n : u[i] = Sent(b[i], vs[i])
  <2>1. \A i \in 1..n : u[i] \in Nat
    BY <1>2
  <2>2. u = [i \in 1..n |-> u[i]]
    OBVIOUS
  <2> HIDE DEF n, vs
  <2>3. DOMAIN u = 1..n /\ \A i \in 1..n : u[i] = Sent(b[i], vs[i])
    OBVIOUS
  <2> HIDE DEF u
  <2>4. n \in Nat
    BY <1>2
  <2>5. u \in [1..n -> Nat]
    BY <2>1, <2>2
  <2>6. u \in Seq(Nat)
    BY <2>4, <2>5, SeqDef
  <2> QED BY <2>3, <2>6
<1> HIDE DEF vs, n, u, k
<1>7. Decoded \in Out /\ Like(Decoded, m)
  <2>1. Client \in BOOLEAN
    BY PeerAssumption
  <2>2. src \in {PeerAddr} \cup {ParseAddr(a.source) : a \in Message}
    BY <2>1
  <2>3. Decoded \in Out
    BY <1>5, <1>6, <2>2 DEF Out
  <2>4. Like(Decoded, m)
    <3>1. \A i \in 1..n : u[i] <= vs[i]
      BY <1>2, <1>6
    <3> QED BY <1>2, <1>5, <1>6, <3>1 DEF Like, vs
  <2> QED BY <2>3, <2>4
<1>8. m.command # "other"
  BY DEF Known, BodyOf
<1>9. Fits(m) <=> (HasList(b) => CountOf(b[n], vs[n]) = vs[n])
  <2>1. Fits(m) <=> \A i \in 1..n : IsList(b[i]) => CountOf(b[i], vs[i]) = vs[i]
    BY <1>2, <1>8 DEF Fits, vs, b
  <2>2. n # 0 => n \in 1..n
    BY <1>2
  <2> QED BY <1>2, <2>1, <2>2
<1> DEFINE sent == Sent(b[n], vs[n])
<1>10. HasList(b) => /\ sent = CountOf(b[n], vs[n]) /\ sent \in Nat /\ vs[n] \in Nat
                     /\ sent <= vs[n] /\ q[n + 1].n = sent /\ q[n + 2].n = vs[n]
  <2> SUFFICES ASSUME HasList(b)
               PROVE  /\ sent = CountOf(b[n], vs[n]) /\ sent \in Nat /\ vs[n] \in Nat
                      /\ sent <= vs[n] /\ q[n + 1].n = sent /\ q[n + 2].n = vs[n]
    OBVIOUS
  <2>1. n # 0 /\ IsList(b[n])
    BY <1>2
  <2>2. n \in 1..n /\ 1 + n = n + 1
    BY <1>2, <2>1
  <2> QED BY <1>1, <1>2, <2>1, <2>2 DEF Sent
<1> HIDE DEF sent
<1> DEFINE it == [is |-> "items", n |-> vs[n] - sent]
           more == HasList(b) /\ sent < vs[n]
<1>11. Uncounted = IF more THEN <<it>> ELSE <<>>
  BY <1>4, <1>10 DEF Uncounted, q
<1>12. AfterMessage = Uncounted \o rest
  BY <1>1, <1>4 DEF AfterMessage, k, q
<1>13. ASSUME Fits(m) PROVE Decoded = Meant(m) /\ AfterMessage = rest
  <2>1. ~more
    BY <1>9, <1>10, <1>13
  <2>2. AfterMessage = rest
    <3>1. Uncounted = <<>>
      BY <1>11, <2>1
    <3> QED BY <1>12, <3>1, ConcatEmptySeq
  <2>3. u = vs
    <3>1. \A i \in 1..n : u[i] = vs[i]
      <4> TAKE i \in 1..n
      <4>1. CASE ~IsList(b[i])
        BY <1>2, <1>6, <4>1
      <4>2. CASE IsList(b[i])
        <5>1. i = n /\ HasList(b)
          BY <1>2, <4>2
        <5> QED BY <1>6, <1>9, <1>10, <1>13, <5>1 DEF sent
      <4> QED BY <4>1, <4>2
    <3>2. Len(u) = n
      BY <1>2, <1>6, LenProperties
    <3> QED BY <1>2, <1>6, <3>1, <3>2, SeqEqual DEF n
  <2>4. Decoded = Meant(m)
    BY <1>5, <2>3 DEF Meant, vs
  <2> QED BY <2>2, <2>4
<1>14. ASSUME ~Fits(m) PROVE AfterMessage # <<>> /\ AfterMessage[1].is = "items"
  <2>1. more
    BY <1>9, <1>10, <1>14
  <2>2. it \in Token
    BY <1>10, <2>1 DEF Token
  <2>3. it.is = "items"
    OBVIOUS
  <2> HIDE DEF it, more
  <2>4. AfterMessage = <<it>> \o rest
    BY <1>11, <1>12, <2>1
  <2>5. <<it>> \in Seq(Token) /\ Len(<<it>>) = 1 /\ <<it>>[1] = it /\ <<it>> # <<>>
    BY <2>2
  <2>6. /\ \A i \in 1..Len(<<it>>) : (<<it>> \o rest)[i] = <<it>>[i]
        /\ <<it>> \o rest # <<>>
    BY <2>5, Behind
  <2>7. (<<it>> \o rest)[1] = it
    BY <2>5, <2>6
  <2> QED BY <2>3, <2>4, <2>6, <2>7
<1> QED BY <1>7, <1>13, <1>14

-----------------------------------------------------------------------------
(* Codec: what is left of a frame.                                          *)
(* The tokens of the messages ms but for the first k.                       *)
Rest(ms, k) == FlattenSeq([i \in 1..Len(ms) - k |-> EncodeMessage(ms[k + i])])

(* That is a message and the rest of the rest.                              *)
LEMMA RestOfFrame ==
  ASSUME NEW ms \in Seq(Message), NEW k \in 0..Len(ms)
  PROVE  /\ Rest(ms, k) \in Seq(Token)
         /\ Rest(ms, 0) = EncodeFrame(ms)
         /\ k = Len(ms) => Rest(ms, k) = <<>>
         /\ k # Len(ms) => /\ ms[k + 1] \in Message /\ k + 1 \in 0..Len(ms)
                           /\ Rest(ms, k + 1) \in Seq(Token)
                           /\ Rest(ms, k) = EncodeMessage(ms[k + 1]) \o Rest(ms, k + 1)
<1> DEFINE n == Len(ms)
           V == Seq(Token)
           W(j) == [i \in 1..n - j |-> EncodeMessage(ms[j + i])]
<1>1. n \in Nat /\ DOMAIN ms = 1..n /\ \A i \in 1..n : ms[i] \in Message
  BY LenProperties, ElementOfSeq
<1>0. k \in 0..n
  OBVIOUS
<1>2. \A m \in Message : EncodeMessage(m) \in V
  BY EncodesMessage DEF MessageTokens
<1>3. ASSUME NEW j \in 0..n
      PROVE  /\ W(j) \in Seq(V) /\ Len(W(j)) = n - j
             /\ \A i \in 1..n - j : W(j)[i] = EncodeMessage(ms[j + i])
  <2>1. ASSUME NEW i \in 1..n - j PROVE EncodeMessage(ms[j + i]) \in V
    <3>1. j + i \in 1..n
      BY <1>1
    <3> QED BY <1>1, <1>2, <3>1
  <2> DEFINE w == W(j)
             l == n - j
  <2>2. l \in Nat
    BY <1>1
  <2>3. w \in [1..l -> V]
    BY <2>1
  <2>4. \A i \in 1..l : w[i] = EncodeMessage(ms[j + i])
    OBVIOUS
  <2> HIDE DEF w, l, V
  <2>5. w \in Seq(V)
    BY <2>2, <2>3, SeqDef
  <2>6. DOMAIN w = 1..l
    BY <2>3
  <2>7. Len(w) = l
    BY <2>2, <2>5, <2>6, LenProperties
  <2> QED BY <2>4, <2>5, <2>7 DEF w, l
<1> HIDE DEF W, V, n
<1>4. ASSUME NEW j \in 0..n PROVE FlattenSeq(W(j)) \in V
  <2>1. W(j) \in Seq(Seq(Token)) /\ <<>> \in Seq(Token)
    BY <1>3, EmptySeq DEF V
  <2> QED BY <2>1, FlattenAppend DEF V
<1>5. Rest(ms, k) \in V
  BY <1>4 DEF Rest, W, n
<1>6. Rest(ms, 0) = EncodeFrame(ms)
  <2>1. [i \in 1..n - 0 |-> EncodeMessage(ms[0 + i])] = [i \in DOMAIN ms |-> EncodeMessage(ms[i])]
    BY <1>1
  <2> QED BY <2>1 DEF Rest, EncodeFrame, n
<1>7. ASSUME k = n PROVE Rest(ms, k) = <<>>
  <2>1. W(k) \in Seq(Seq(Token)) /\ Len(W(k)) = 0
    BY <1>1, <1>3, <1>7 DEF V
  <2>2. W(k) = <<>> /\ <<>> \in Seq(Token)
    BY <2>1, EmptySeq
  <2>3. FlattenSeq(W(k)) = <<>>
    BY <2>1, <2>2, FlattenAppend
  <2> QED BY <2>3 DEF Rest, W, n
<1>8. ASSUME k # n
      PROVE  /\ ms[k + 1] \in Message /\ k + 1 \in 0..n /\ Rest(ms, k + 1) \in V
             /\ Rest(ms, k) = EncodeMessage(ms[k + 1]) \o Rest(ms, k + 1)
  <2>1. k \in 0..n /\ k + 1 \in 0..n /\ k + 1 \in 1..n /\ n - (k + 1) \in Nat
        /\ n - k = 1 + (n - (k + 1))
    BY <1>0, <1>1, <1>8
  <2>2. ms[k + 1] \in Message /\ Rest(ms, k + 1) \in V
    <3>1. Rest(ms, k + 1) = FlattenSeq(W(k + 1))
      BY DEF Rest, W, n
    <3> QED BY <1>1, <1>4, <2>1, <3>1
  <2> DEFINE x == EncodeMessage(ms[k + 1])
             w == W(k + 1)
             v == W(k)
             l == n - (k + 1)
  <2>3. x \in V
    BY <1>2, <2>2
  <2>4. /\ w \in Seq(V) /\ Len(w) = l /\ l \in Nat
        /\ \A i \in 1..l : w[i] = EncodeMessage(ms[(k + 1) + i])
    BY <1>3, <2>1
  <2>5. /\ v \in Seq(V) /\ Len(v) = 1 + l
        /\ \A i \in 1..1 + l : v[i] = EncodeMessage(ms[k + i])
    <3>1. /\ v \in Seq(V) /\ Len(v) = n - k
          /\ \A i \in 1..n - k : v[i] = EncodeMessage(ms[k + i])
      BY <1>0, <1>3 DEF v
    <3> QED BY <2>1, <3>1
  <2> HIDE DEF w, v, l
  <2>6. /\ <<x>> \in Seq(V) /\ Len(<<x>>) = 1 /\ <<x>>[1] = x
    BY <2>3
  <2> DEFINE y == <<x>>
  <2>7. /\ y \o w \in Seq(V) /\ Len(y \o w) = 1 + l
        /\ \A i \in 1..1 + l : (y \o w)[i] = IF i <= 1 THEN y[i] ELSE w[i - 1]
    <3> HIDE DEF y
    <3> QED BY <2>4, <2>6, ConcatProperties DEF y
  <2>8. ASSUME NEW i \in 1..1 + l PROVE v[i] = (y \o w)[i]
    <3>1. CASE i = 1
      <4>1. v[1] = x
        BY <2>4, <2>5
      <4>2. (y \o w)[1] = x
        BY <2>4, <2>6, <2>7
      <4> QED BY <3>1, <4>1, <4>2
    <3>2. CASE i # 1
      <4>1. i - 1 \in 1..l /\ (k + 1) + (i - 1) = k + i /\ ~(i <= 1)
        BY <2>1, <2>4, <3>2
      <4> HIDE DEF y
      <4> QED BY <2>4, <2>5, <2>7, <4>1
    <3> QED BY <3>1, <3>2
  <2>9. v = y \o w
    <3> HIDE DEF y
    <3> QED BY <2>5, <2>7, <2>8, SeqEqual
  <2>10. FlattenSeq(y \o w) = x \o FlattenSeq(w)
    <3>1. x \in Seq(Token) /\ w \in Seq(Seq(Token))
      BY <2>3, <2>4 DEF V
    <3> HIDE DEF x
    <3> QED BY <3>1, FlattenFront
  <2>11. Rest(ms, k) = FlattenSeq(v) /\ Rest(ms, k + 1) = FlattenSeq(w)
    BY DEF Rest, v, w, W, n
  <2> QED BY <2>1, <2>2, <2>9, <2>10, <2>11
<1> QED BY <1>5, <1>6, <1>7, <1>8 DEF n, V

(* There is a first message that does not fit, if not all of them do.       *)
LEMMA FirstThatDoesNotFit ==
  ASSUME NEW ms, Len(ms) \in Nat
  PROVE  /\ Readable(ms) \in 0..Len(ms)
         /\ \A i \in 1..Readable(ms) : Fits(ms[i])
         /\ Readable(ms) < Len(ms) => ~Fits(ms[Readable(ms) + 1])
<1> DEFINE n == Len(ms)
           F == {i \in 1..n : Fits(ms[i])}
           P(r) == (\A i \in 1..r : Fits(ms[i])) /\ (r < n => ~Fits(ms[r + 1]))
           T == {k \in Nat : k <= n => (\A i \in 1..k : i \in F) \/ (\E r \in 0..n : P(r))}
<1>1. \A r \in 0..n : P(r) <=> (\A i \in 1..r : i \in F) /\ (r < n => r + 1 \notin F)
  <2> TAKE r \in 0..n
  <2>1. \A i \in 1..r : i \in 1..n
    OBVIOUS
  <2>2. r < n => r + 1 \in 1..n
    OBVIOUS
  <2>3. \A i \in 1..n : i \in F <=> Fits(ms[i])
    OBVIOUS
  <2> HIDE DEF F
  <2> QED BY <2>1, <2>2, <2>3
<1> HIDE DEF F, P, n
<1>2. n \in Nat
  BY DEF n
<1>3. 0 \in T
  OBVIOUS
<1>4. ASSUME NEW k \in Nat, k \in T PROVE k + 1 \in T
  <2> SUFFICES ASSUME k + 1 <= n, \A r \in 0..n : ~P(r)
               PROVE  \A i \in 1..k + 1 : i \in F
    OBVIOUS
  <2>1. k \in 0..n /\ k < n
    BY <1>2
  <2>2. \A i \in 1..k : i \in F
    BY <1>4, <2>1
  <2>3. k + 1 \in F
    BY <1>1, <2>1, <2>2
  <2> QED BY <2>2, <2>3
<1> HIDE DEF T
<1>5. n \in T
  BY <1>2, <1>3, <1>4, UpFromZero
<1>6. \E r \in 0..n : P(r)
  <2>1. CASE \A i \in 1..n : i \in F
    <3>1. n \in 0..n /\ ~(n < n)
      BY <1>2
    <3> QED BY <1>1, <2>1, <3>1
  <2>2. CASE ~ \A i \in 1..n : i \in F
    BY <1>2, <1>5, <2>2 DEF T
  <2> QED BY <2>1, <2>2
<1>7. Readable(ms) = CHOOSE r \in 0..n : P(r)
  BY DEF Readable, P, n
<1>8. Readable(ms) \in 0..n /\ P(Readable(ms))
  BY <1>6, <1>7
<1> QED BY <1>8 DEF P, n

-----------------------------------------------------------------------------
(* Codec: the frames.                                                       *)
Frame == {[size |-> FrameSize(ms), tokens |-> EncodeFrame(ms)] : ms \in Seq(Message)}

CodecTypes ==
  /\ frames \in Seq(Seq(Message)) /\ wire \in Seq(Frame) /\ link \in {"up", "ended"}
  /\ handed \in Seq(Seq(Out))

(* The frames on their way are the last that were written, and the others   *)
(* were read, but for the one that ended the connection.                    *)
InTransit ==
  /\ Len(wire) <= Len(frames)
  /\ \A j \in 1..Len(wire) :
       wire[j].tokens = EncodeFrame(frames[Len(frames) - Len(wire) + j])
  /\ Len(handed) <= Len(frames) - Len(wire)
  /\ link = "up" => Len(handed) = Len(frames) - Len(wire)
  /\ handed = <<>> => buffer = <<>>

(* What was handed on of the messages ms of a frame.                        *)
ReadOf(ms, hs) ==
  /\ Len(hs) <= Len(ms) /\ Len(hs) <= Readable(ms) + 1
  /\ \A i \in 1..Len(hs) : Like(hs[i], ms[i]) /\ (i <= Readable(ms) => hs[i] = Meant(ms[i]))

(* And what q is left of it: nothing, the messages behind those, or the     *)
(* tokens behind a list whose count was short.                              *)
LeftOf(q, ms, hs) ==
  \/ q = <<>> /\ Len(hs) >= Readable(ms)
  \/ Len(hs) <= Readable(ms) /\ q = Rest(ms, Len(hs))
  \/ Len(hs) = Readable(ms) + 1 /\ q # <<>> /\ q[1].is = "items"

FramesRead ==
  \A f \in 1..Len(handed) :
    /\ ReadOf(frames[f], handed[f])
    /\ f < Len(handed) => Len(handed[f]) >= Readable(frames[f])
    /\ f = Len(handed) => LeftOf(buffer, frames[f], handed[f])

CodecInv == CodecTypes /\ InTransit /\ FramesRead

(* A frame of which nothing is left was read as far as it could be.         *)
LEMMA NothingLeft ==
  ASSUME NEW ms \in Seq(Message), NEW hs \in Seq(Out), ReadOf(ms, hs),
         NEW q, LeftOf(q, ms, hs), q = <<>>
  PROVE  Len(hs) >= Readable(ms)
<1>1. Len(ms) \in Nat /\ Len(hs) \in Nat
  BY LenProperties
<1>2. Readable(ms) \in 0..Len(ms)
  BY <1>1, FirstThatDoesNotFit
<1>3. Len(hs) <= Len(ms)
  BY DEF ReadOf
<1> DEFINE k == Len(hs)
<1>4. ASSUME q = Rest(ms, k) PROVE k = Len(ms)
  <2> SUFFICES ASSUME k # Len(ms) PROVE FALSE
    OBVIOUS
  <2>1. k \in 0..Len(ms)
    BY <1>1, <1>3
  <2> HIDE DEF k
  <2>2. /\ ms[k + 1] \in Message /\ Rest(ms, k + 1) \in Seq(Token)
        /\ q = EncodeMessage(ms[k + 1]) \o Rest(ms, k + 1)
    BY <1>4, <2>1, RestOfFrame
  <2>3. Begins(q, ms[k + 1], Rest(ms, k + 1))
    BY <2>2, AtFront
  <2> QED BY <2>3 DEF Begins
<1>5. k >= Readable(ms) \/ q = Rest(ms, k)
  BY DEF LeftOf
<1> QED BY <1>1, <1>2, <1>4, <1>5

(* What the invariant says of one frame.                                    *)
LEMMA OneFrame ==
  ASSUME CodecInv, NEW f \in 1..Len(handed)
  PROVE  /\ f \in 1..Len(frames) /\ frames[f] \in Seq(Message) /\ handed[f] \in Seq(Out)
         /\ ReadOf(frames[f], handed[f])
         /\ f < Len(handed) => Len(handed[f]) >= Readable(frames[f])
         /\ f = Len(handed) => LeftOf(buffer, frames[f], handed[f])
         /\ Len(frames[f]) \in Nat /\ Len(handed[f]) \in Nat
         /\ Readable(frames[f]) \in 0..Len(frames[f])
<1>1. /\ Len(frames) \in Nat /\ Len(wire) \in Nat /\ Len(handed) \in Nat
      /\ Len(handed) <= Len(frames) - Len(wire)
  BY LenProperties DEF CodecInv, CodecTypes, InTransit
<1>2. f \in 1..Len(frames)
  BY <1>1
<1>3. frames[f] \in Seq(Message) /\ handed[f] \in Seq(Out)
  BY <1>2, ElementOfSeq DEF CodecInv, CodecTypes
<1>4. Len(frames[f]) \in Nat /\ Len(handed[f]) \in Nat
  BY <1>3, LenProperties
<1>5. Readable(frames[f]) \in 0..Len(frames[f])
  BY <1>4, FirstThatDoesNotFit
<1>6. /\ ReadOf(frames[f], handed[f])
      /\ f < Len(handed) => Len(handed[f]) >= Readable(frames[f])
      /\ f = Len(handed) => LeftOf(buffer, frames[f], handed[f])
  BY DEF CodecInv, FramesRead
<1> QED BY <1>2, <1>3, <1>4, <1>5, <1>6

(* Nothing was written, nothing is read.                                    *)
LEMMA CodecStart == CodecInit => CodecInv
<1> SUFFICES ASSUME CodecInit PROVE CodecInv
  OBVIOUS
<1>1. /\ frames = <<>> /\ wire = <<>> /\ link = "up" /\ buffer = <<>> /\ handed = <<>>
      /\ Len(<<>>) = 0
  BY EmptySeq DEF CodecInit
<1>2. <<>> \in Seq(Seq(Message)) /\ <<>> \in Seq(Frame) /\ <<>> \in Seq(Seq(Out))
  BY EmptySeq
<1>3. CodecTypes
  BY <1>1, <1>2 DEF CodecTypes
<1>4. InTransit
  BY <1>1 DEF InTransit
<1>5. FramesRead
  BY <1>1 DEF FramesRead
<1> QED BY <1>3, <1>4, <1>5 DEF CodecInv

(* A frame more that is written is the last on its way.                     *)
LEMMA WriteFrameStep ==
  ASSUME CodecInv, NEW ms \in Packed, WriteFrame(ms)
  PROVE  CodecInv'
<1> DEFINE M == Seq(Message)
           n == Len(frames)
           w == Len(wire)
           x == [size |-> FrameSize(ms), tokens |-> EncodeFrame(ms)]
<1>1. ms \in M
  <2>1. PICK k \in 1..MaxPacked : ms \in [1..k -> Message]
    BY DEF Packed
  <2>2. k \in Nat
    BY FrameAssumption
  <2> QED BY <2>1, <2>2, SeqDef
<1>2. x \in Frame /\ x.tokens = EncodeFrame(ms)
  BY <1>1 DEF Frame
<1>3. /\ frames \in Seq(M) /\ wire \in Seq(Frame) /\ handed \in Seq(Seq(Out))
      /\ n \in Nat /\ w \in Nat /\ Len(handed) \in Nat /\ link \in {"up", "ended"}
      /\ w <= n /\ Len(handed) <= n - w
      /\ \A j \in 1..w : wire[j].tokens = EncodeFrame(frames[n - w + j])
      /\ (link = "up" => Len(handed) = n - w) /\ (handed = <<>> => buffer = <<>>)
  BY LenProperties DEF CodecInv, CodecTypes, InTransit
<1>4. frames' = Append(frames, ms) /\ wire' = Append(wire, x)
      /\ link' = link /\ buffer' = buffer /\ handed' = handed
  BY DEF WriteFrame
<1> HIDE DEF M, x
<1>5. /\ frames' \in Seq(M) /\ Len(frames') = n + 1
      /\ frames'[n + 1] = ms /\ \A i \in 1..n : frames'[i] = frames[i]
  BY <1>1, <1>3, <1>4, AppendProperties
<1>6. /\ wire' \in Seq(Frame) /\ Len(wire') = w + 1
      /\ wire'[w + 1] = x /\ \A i \in 1..w : wire'[i] = wire[i]
  BY <1>2, <1>3, <1>4, AppendProperties
<1> HIDE DEF n, w
<1>7. CodecTypes'
  BY <1>3, <1>4, <1>5, <1>6 DEF CodecTypes, M
<1>8. InTransit'
  <2>1. ASSUME NEW j \in 1..w + 1
        PROVE  wire'[j].tokens = EncodeFrame(frames'[(n + 1) - (w + 1) + j])
    <3>1. CASE j <= w
      <4>1. j \in 1..w /\ (n + 1) - (w + 1) + j = n - w + j /\ n - w + j \in 1..n
        BY <1>3, <3>1
      <4> QED BY <1>3, <1>5, <1>6, <4>1
    <3>2. CASE j = w + 1
      <4>1. (n + 1) - (w + 1) + j = n + 1
        BY <1>3, <3>2
      <4> QED BY <1>2, <1>5, <1>6, <3>2, <4>1
    <3>3. j <= w \/ j = w + 1
      <4>1. \A l \in Nat : \A i \in 1..l + 1 : i <= l \/ i = l + 1
        OBVIOUS
      <4> QED BY <1>3, <4>1
    <3> QED BY <3>1, <3>2, <3>3
  <2>2. (n + 1) - (w + 1) = n - w /\ w + 1 <= n + 1
    BY <1>3
  <2>3. Len(handed') = Len(handed)
    BY <1>4
  <2>4. /\ Len(wire') <= Len(frames')
        /\ \A j \in 1..Len(wire') :
             wire'[j].tokens = EncodeFrame(frames'[Len(frames') - Len(wire') + j])
    BY <1>5, <1>6, <2>1, <2>2
  <2>5. /\ Len(handed') <= Len(frames') - Len(wire')
        /\ link' = "up" => Len(handed') = Len(frames') - Len(wire')
    BY <1>3, <1>4, <1>5, <1>6, <2>2, <2>3
  <2> QED BY <1>3, <1>4, <2>4, <2>5 DEF InTransit
<1>9. FramesRead'
  <2>1. ASSUME NEW f \in 1..Len(handed) PROVE frames'[f] = frames[f]
    <3>1. f \in 1..n
      BY OneFrame DEF n
    <3> QED BY <1>5, <3>1
  <2>2. FramesRead
    BY DEF CodecInv
  <2> QED BY <1>4, <2>1, <2>2 DEF FramesRead
<1> QED BY <1>7, <1>8, <1>9 DEF CodecInv

(* A frame that is read is one more of which nothing is handed on so far;   *)
(* one that is too long ends the connection.                                *)
LEMMA ReadFrameStep ==
  ASSUME CodecInv, ReadFrame
  PROVE  CodecInv'
<1> DEFINE M == Seq(Message)
           n == Len(frames)
           w == Len(wire)
           h == Len(handed)
           H == Seq(Out)
<1>1. /\ frames \in Seq(M) /\ wire \in Seq(Frame) /\ handed \in Seq(H)
      /\ n \in Nat /\ w \in Nat /\ h \in Nat
      /\ w <= n /\ h <= n - w
      /\ \A j \in 1..w : wire[j].tokens = EncodeFrame(frames[n - w + j])
      /\ (link = "up" => h = n - w)
  BY LenProperties DEF CodecInv, CodecTypes, InTransit
<1>2. /\ link = "up" /\ buffer = <<>> /\ wire # <<>> /\ wire' = Tail(wire)
      /\ frames' = frames
      /\ \/ link' = "ended" /\ buffer' = buffer /\ handed' = handed
         \/ /\ buffer' = Head(wire).tokens /\ handed' = Append(handed, <<>>)
            /\ link' = link
  BY DEF ReadFrame
<1> HIDE DEF M, H
<1>3. /\ wire' \in Seq(Frame) /\ Len(wire') = w - 1 /\ w # 0 /\ Head(wire) = wire[1]
      /\ \A j \in 1..w - 1 : wire'[j] = wire[j + 1]
  <2>1. w # 0
    BY <1>1, <1>2, EmptySeq
  <2>2. Tail(wire) \in Seq(Frame) /\ Len(Tail(wire)) = w - 1 /\ Head(wire) = wire[1]
    BY <1>1, <1>2, HeadTailProperties
  <2>3. \A j \in 1..w - 1 : Tail(wire)[j] = wire[j + 1]
    BY <1>1, <1>2, <2>2, HeadTailProperties
  <2> QED BY <1>2, <2>1, <2>2, <2>3
<1> HIDE DEF n, w, h
<1>4. ASSUME NEW j \in 1..w - 1 PROVE wire'[j].tokens = EncodeFrame(frames[n - (w - 1) + j])
  <2>1. j + 1 \in 1..w /\ n - (w - 1) + j = n - w + (j + 1)
    BY <1>1, <1>3
  <2> QED BY <1>1, <1>3, <2>1
<1>5. w - 1 <= n /\ h <= n - (w - 1) /\ h = n - w /\ h + 1 = n - (w - 1) /\ 1 \in 1..w
      /\ n - w + 1 = h + 1 /\ h + 1 \in 1..n
  BY <1>1, <1>2, <1>3
<1>6. ASSUME NEW f \in 1..h
      PROVE  ReadOf(frames[f], handed[f]) /\ Len(handed[f]) >= Readable(frames[f])
  <2>1. /\ frames[f] \in Seq(Message) /\ handed[f] \in Seq(Out)
        /\ ReadOf(frames[f], handed[f])
        /\ f < h => Len(handed[f]) >= Readable(frames[f])
        /\ f = h => LeftOf(buffer, frames[f], handed[f])
    BY OneFrame DEF h
  <2>2. f = h => Len(handed[f]) >= Readable(frames[f])
    BY <1>2, <2>1, NothingLeft
  <2> QED BY <1>1, <2>1, <2>2
<1>7. CASE link' = "ended" /\ buffer' = buffer /\ handed' = handed
  <2>1. CodecTypes'
    BY <1>1, <1>2, <1>3, <1>7 DEF CodecTypes, M, H
  <2>2. InTransit'
    <3>1. /\ Len(wire') <= Len(frames') /\ Len(handed') <= Len(frames') - Len(wire')
          /\ \A j \in 1..Len(wire') :
               wire'[j].tokens = EncodeFrame(frames'[Len(frames') - Len(wire') + j])
      BY <1>2, <1>3, <1>4, <1>5, <1>7 DEF n, h
    <3> QED BY <1>2, <1>7, <3>1 DEF InTransit
  <2>3. FramesRead'
    <3>1. FramesRead
      BY DEF CodecInv
    <3> QED BY <1>2, <1>7, <3>1 DEF FramesRead
  <2> QED BY <2>1, <2>2, <2>3 DEF CodecInv
<1>8. CASE /\ buffer' = Head(wire).tokens /\ handed' = Append(handed, <<>>)
           /\ link' = link
  <2>1. <<>> \in H /\ Len(<<>>) = 0
    BY EmptySeq DEF H
  <2>2. /\ handed' \in Seq(H) /\ Len(handed') = h + 1 /\ handed'[h + 1] = <<>>
        /\ \A f \in 1..h : handed'[f] = handed[f]
    BY <1>1, <1>8, <2>1, AppendProperties DEF h
  <2>3. CodecTypes'
    BY <1>1, <1>2, <1>3, <1>8, <2>2 DEF CodecTypes, M, H
  <2>4. InTransit'
    <3>1. /\ Len(wire') <= Len(frames') /\ Len(handed') = Len(frames') - Len(wire')
          /\ \A j \in 1..Len(wire') :
               wire'[j].tokens = EncodeFrame(frames'[Len(frames') - Len(wire') + j])
      BY <1>2, <1>3, <1>4, <1>5, <2>2 DEF n
    <3>2. handed' # <<>> /\ Len(handed') <= Len(frames') - Len(wire')
      <4>1. Len(handed') # 0 /\ h + 1 <= h + 1
        BY <1>1, <2>2
      <4> QED BY <2>1, <2>2, <3>1, <4>1
    <3> QED BY <3>1, <3>2 DEF InTransit
  <2>5. FramesRead'
    <3> DEFINE ms == frames[h + 1]
    <3>1. ms \in Seq(Message)
      BY <1>1, <1>5, ElementOfSeq DEF M, n
    <3>2. Len(ms) \in Nat /\ 0 \in 0..Len(ms)
      BY <3>1, LenProperties
    <3>3. Readable(ms) \in 0..Len(ms)
      BY <3>2, FirstThatDoesNotFit
    <3>4. buffer' = Rest(ms, 0)
      <4>1. wire[1].tokens = EncodeFrame(ms)
        BY <1>1, <1>5
      <4>2. Rest(ms, 0) = EncodeFrame(ms)
        BY <3>1, <3>2, RestOfFrame
      <4> QED BY <1>3, <1>8, <4>1, <4>2
    <3> HIDE DEF ms
    <3>5. 0 <= Len(ms) /\ 0 <= Readable(ms) + 1 /\ 0 <= Readable(ms)
      BY <3>2, <3>3
    <3>6. ReadOf(ms, <<>>) /\ LeftOf(buffer', ms, <<>>)
      BY <2>1, <3>4, <3>5 DEF ReadOf, LeftOf
    <3>7. ASSUME NEW f \in 1..h + 1
          PROVE  /\ ReadOf(frames'[f], handed'[f])
                 /\ f < h + 1 => Len(handed'[f]) >= Readable(frames'[f])
                 /\ f = h + 1 => LeftOf(buffer', frames'[f], handed'[f])
      <4>1. CASE f = h + 1
        <5>1. ~(f < h + 1)
          BY <1>1, <4>1
        <5> QED BY <1>2, <2>2, <3>6, <4>1, <5>1 DEF ms
      <4>2. CASE f # h + 1
        <5>1. f \in 1..h
          BY <1>1, <4>2
        <5> QED BY <1>2, <1>6, <2>2, <4>2, <5>1
      <4> QED BY <4>1, <4>2
    <3> QED BY <2>2, <3>7 DEF FramesRead
  <2> QED BY <2>3, <2>4, <2>5 DEF CodecInv
<1> QED BY <1>2, <1>7, <1>8

(* Of a frame of which something is left, it is either what a list had too  *)
(* much, or the messages behind those that were handed on.                  *)
LEMMA SomethingLeft ==
  ASSUME CodecInv, buffer # <<>>, NEW f, f = Len(handed),
         NEW ms, ms = frames[f], NEW hs, hs = handed[f], NEW k, k = Len(hs)
  PROVE  /\ f \in 1..Len(handed) /\ ms \in Seq(Message) /\ hs \in Seq(Out)
         /\ Len(ms) \in Nat /\ k \in Nat /\ Readable(ms) \in 0..Len(ms) /\ ReadOf(ms, hs)
         /\ \/ k = Readable(ms) + 1 /\ buffer[1].is = "items"
            \/ /\ k <= Readable(ms) /\ k < Len(ms) /\ k + 1 \in 1..Len(ms)
               /\ ms[k + 1] \in Message /\ Rest(ms, k + 1) \in Seq(Token)
               /\ buffer = EncodeMessage(ms[k + 1]) \o Rest(ms, k + 1)
               /\ (k < Readable(ms) => Fits(ms[k + 1]))
               /\ (k = Readable(ms) => ~Fits(ms[k + 1]))
<1>1. f \in 1..Len(handed)
  <2>1. handed # <<>>
    BY DEF CodecInv, InTransit
  <2>2. Len(handed) \in Nat /\ Len(handed) # 0
    BY <2>1, LenProperties, EmptySeq DEF CodecInv, CodecTypes
  <2> QED BY <2>2
<1>2. /\ ms \in Seq(Message) /\ hs \in Seq(Out) /\ ReadOf(ms, hs) /\ LeftOf(buffer, ms, hs)
      /\ Len(ms) \in Nat /\ k \in Nat /\ Readable(ms) \in 0..Len(ms)
  BY <1>1, OneFrame
<1>3. k <= Len(ms)
  BY <1>2 DEF ReadOf
<1>4. ASSUME k <= Readable(ms), buffer = Rest(ms, k)
      PROVE  /\ k < Len(ms) /\ k + 1 \in 1..Len(ms)
             /\ ms[k + 1] \in Message /\ Rest(ms, k + 1) \in Seq(Token)
             /\ buffer = EncodeMessage(ms[k + 1]) \o Rest(ms, k + 1)
             /\ (k < Readable(ms) => Fits(ms[k + 1]))
             /\ (k = Readable(ms) => ~Fits(ms[k + 1]))
  <2>1. k \in 0..Len(ms)
    BY <1>2, <1>3
  <2>2. k # Len(ms)
    BY <1>2, <1>4, <2>1, RestOfFrame
  <2>3. /\ ms[k + 1] \in Message /\ Rest(ms, k + 1) \in Seq(Token)
        /\ buffer = EncodeMessage(ms[k + 1]) \o Rest(ms, k + 1)
    BY <1>2, <1>4, <2>1, <2>2, RestOfFrame
  <2>4. k < Len(ms) /\ k + 1 \in 1..Len(ms) /\ (k < Readable(ms) => k + 1 \in 1..Readable(ms))
    BY <1>2, <1>3, <2>2
  <2>5. /\ k < Readable(ms) => Fits(ms[k + 1])
        /\ k = Readable(ms) => ~Fits(ms[k + 1])
    BY <1>2, <2>4, FirstThatDoesNotFit
  <2> QED BY <2>3, <2>4, <2>5
<1>5. \/ k = Readable(ms) + 1 /\ buffer[1].is = "items"
      \/ k <= Readable(ms) /\ buffer = Rest(ms, k)
  BY <1>2 DEF LeftOf
<1> QED BY <1>1, <1>2, <1>4, <1>5

(* A message more is handed on of the frame that is being read.             *)
LEMMA DecodeMessageStep ==
  ASSUME CodecInv, DecodeMessage
  PROVE  CodecInv'
<1>1. /\ link = "up" /\ buffer # <<>> /\ StartsMessage
      /\ handed' = [handed EXCEPT ![Len(handed)] = Append(@, Decoded)]
      /\ buffer' = AfterMessage
      /\ frames' = frames /\ wire' = wire /\ link' = link
  BY DEF DecodeMessage
<1> DEFINE f == Len(handed)
           ms == frames[f]
           hs == handed[f]
           k == Len(hs)
           m == ms[k + 1]
           d == Decoded
           r == Readable(ms)
           H == Seq(Out)
<1>2. buffer[1].is # "items"
  BY <1>1 DEF StartsMessage
<1>3. /\ f \in 1..Len(handed) /\ ms \in Seq(Message) /\ hs \in H
      /\ Len(ms) \in Nat /\ k \in Nat /\ r \in 0..Len(ms) /\ ReadOf(ms, hs)
      /\ k <= r /\ k < Len(ms) /\ k + 1 \in 1..Len(ms)
      /\ m \in Message /\ Rest(ms, k + 1) \in Seq(Token)
      /\ buffer = EncodeMessage(m) \o Rest(ms, k + 1)
      /\ (k < r => Fits(m)) /\ (k = r => ~Fits(m))
  <2>1. f = Len(handed) /\ ms = frames[f] /\ hs = handed[f] /\ k = Len(hs)
    OBVIOUS
  <2> HIDE DEF f, ms, hs, k
  <2> QED BY <1>1, <1>2, <2>1, SomethingLeft
<1> HIDE DEF m, d
<1>4. /\ d \in Out /\ Like(d, m)
      /\ Fits(m) => d = Meant(m) /\ buffer' = Rest(ms, k + 1)
      /\ ~Fits(m) => buffer' # <<>> /\ buffer'[1].is = "items"
  <2> DEFINE rest == Rest(ms, k + 1)
  <2>1. rest \in Seq(Token) /\ buffer = EncodeMessage(m) \o rest /\ m \in Message
    BY <1>3
  <2> HIDE DEF rest, ms, k
  <2>2. Known(m.command)
    BY <1>1, <2>1, Starts
  <2>3. /\ Decoded \in Out /\ Like(Decoded, m)
        /\ Fits(m) => Decoded = Meant(m) /\ AfterMessage = rest
        /\ ~Fits(m) => AfterMessage # <<>> /\ AfterMessage[1].is = "items"
    BY <2>1, <2>2, Decodes
  <2> QED BY <1>1, <2>3 DEF d, rest
<1> DEFINE gs == Append(hs, d)
<1>5. /\ handed \in Seq(H) /\ DOMAIN handed = 1..f /\ f \in Nat
      /\ \A g \in 1..f : handed[g] \in H
  BY LenProperties, ElementOfSeq DEF CodecInv, CodecTypes
<1> HIDE DEF ms, hs, f, k, r, H
<1>6. handed' = [handed EXCEPT ![f] = gs]
  BY <1>1 DEF f, hs, d
<1>7. /\ gs \in H /\ Len(gs) = k + 1 /\ gs[k + 1] = d
      /\ \A i \in 1..k : gs[i] = hs[i]
  <2>1. hs \in Seq(Out) /\ d \in Out /\ k = Len(hs)
    BY <1>3, <1>4 DEF H, k
  <2>2. /\ gs \in Seq(Out) /\ Len(gs) = Len(hs) + 1 /\ gs[Len(hs) + 1] = d
        /\ \A i \in 1..Len(hs) : gs[i] = hs[i]
    BY <2>1, AppendProperties
  <2> QED BY <2>1, <2>2 DEF H
<1> HIDE DEF gs
<1>8. f \in 1..f
  BY <1>3, <1>5 DEF f
<1>9. /\ handed' \in Seq(H) /\ Len(handed') = f /\ handed'[f] = gs
      /\ \A g \in 1..f : g # f => handed'[g] = handed[g]
  <2>1. handed' \in [1..f -> H]
    BY <1>5, <1>6, <1>7, <1>8
  <2>2. handed' \in Seq(H)
    BY <1>5, <2>1, SeqDef
  <2>3. DOMAIN handed' = 1..f
    BY <2>1
  <2>4. Len(handed') = f
    BY <1>5, <2>2, <2>3, LenProperties
  <2> QED BY <1>5, <1>6, <1>8, <2>2, <2>4
<1>10. CodecTypes'
  BY <1>1, <1>9 DEF CodecInv, CodecTypes, H
<1>11. InTransit'
  <2>1. /\ Len(wire) <= Len(frames)
        /\ \A j \in 1..Len(wire) :
             wire[j].tokens = EncodeFrame(frames[Len(frames) - Len(wire) + j])
        /\ f <= Len(frames) - Len(wire)
        /\ link = "up" => f = Len(frames) - Len(wire)
    BY DEF CodecInv, InTransit, f
  <2>2. handed' # <<>>
    <3>1. f # 0
      BY <1>5, <1>8
    <3> QED BY <1>9, <3>1, EmptySeq
  <2> QED BY <1>1, <1>9, <2>1, <2>2 DEF InTransit
<1>12. ReadOf(ms, gs)
  <2>1. \A i \in 1..k : Like(hs[i], ms[i]) /\ (i <= r => hs[i] = Meant(ms[i]))
    BY <1>3 DEF ReadOf, k, r
  <2>2. ASSUME NEW i \in 1..k + 1
        PROVE  Like(gs[i], ms[i]) /\ (i <= r => gs[i] = Meant(ms[i]))
    <3>1. CASE i = k + 1
      <4>1. i <= r => k < r
        BY <1>3, <3>1
      <4> QED BY <1>3, <1>4, <1>7, <3>1, <4>1 DEF m
    <3>2. CASE i # k + 1
      <4>1. i \in 1..k
        BY <1>3, <3>2
      <4> QED BY <1>7, <2>1, <4>1
    <3> QED BY <3>1, <3>2
  <2>3. k + 1 <= Len(ms) /\ k + 1 <= r + 1
    BY <1>3
  <2> QED BY <1>7, <2>2, <2>3 DEF ReadOf, r
<1>13. LeftOf(buffer', ms, gs)
  <2>1. CASE k < r
    <3>1. k + 1 <= r
      BY <1>3, <2>1
    <3> QED BY <1>3, <1>4, <1>7, <2>1, <3>1 DEF LeftOf, r
  <2>2. CASE k = r
    BY <1>3, <1>4, <1>7, <2>2 DEF LeftOf, r
  <2> QED BY <1>3, <2>1, <2>2
<1>14. FramesRead'
  <2>1. ASSUME NEW g \in 1..f
        PROVE  /\ ReadOf(frames'[g], handed'[g])
               /\ g < f => Len(handed'[g]) >= Readable(frames'[g])
               /\ g = f => LeftOf(buffer', frames'[g], handed'[g])
    <3>1. CASE g = f
      <4>1. ~(g < f)
        BY <1>5, <3>1
      <4> QED BY <1>1, <1>9, <1>12, <1>13, <3>1, <4>1 DEF ms
    <3>2. CASE g # f
      <4>1. ReadOf(frames[g], handed[g]) /\ (g < f => Len(handed[g]) >= Readable(frames[g]))
        BY DEF CodecInv, FramesRead, f
      <4> QED BY <1>1, <1>9, <3>2, <4>1
    <3> QED BY <3>1, <3>2
  <2> QED BY <1>9, <2>1 DEF FramesRead
<1> QED BY <1>10, <1>11, <1>14 DEF CodecInv

(* What is dropped of a frame is behind what could be read.                 *)
LEMMA DropRestStep ==
  ASSUME CodecInv, DropRest
  PROVE  CodecInv'
<1>1. /\ buffer # <<>> /\ ~StartsMessage /\ buffer' = <<>>
      /\ frames' = frames /\ wire' = wire /\ link' = link /\ handed' = handed
  BY DEF DropRest
<1> DEFINE f == Len(handed)
           ms == frames[f]
           hs == handed[f]
           k == Len(hs)
           m == ms[k + 1]
<1>2. k >= Readable(ms)
  <2>1. f = Len(handed) /\ ms = frames[f] /\ hs = handed[f] /\ k = Len(hs)
    OBVIOUS
  <2> HIDE DEF f, ms, hs, k
  <2>2. /\ k \in Nat /\ Len(ms) \in Nat /\ Readable(ms) \in 0..Len(ms)
        /\ \/ k = Readable(ms) + 1
           \/ /\ k <= Readable(ms) /\ m \in Message /\ Rest(ms, k + 1) \in Seq(Token)
              /\ buffer = EncodeMessage(m) \o Rest(ms, k + 1)
              /\ (k < Readable(ms) => Fits(m))
    BY <1>1, <2>1, SomethingLeft
  <2>3. CASE k = Readable(ms) + 1
    BY <2>2, <2>3
  <2>4. CASE /\ k <= Readable(ms) /\ m \in Message /\ Rest(ms, k + 1) \in Seq(Token)
             /\ buffer = EncodeMessage(m) \o Rest(ms, k + 1)
             /\ (k < Readable(ms) => Fits(m))
    <3> HIDE DEF m
    <3>1. ~Known(m.command)
      BY <1>1, <2>4, Starts
    <3>2. ~Fits(m)
      BY <2>4, <3>1, MessageAssumption DEF Fits
    <3> QED BY <2>2, <2>4, <3>2
  <2> QED BY <2>2, <2>3, <2>4
<1>3. CodecTypes' /\ InTransit'
  BY <1>1 DEF CodecInv, CodecTypes, InTransit
<1>4. FramesRead'
  <2>1. LeftOf(buffer', ms, hs)
    BY <1>1, <1>2 DEF LeftOf
  <2>2. FramesRead
    BY DEF CodecInv
  <2> QED BY <1>1, <2>1, <2>2 DEF FramesRead
<1> QED BY <1>3, <1>4 DEF CodecInv

(* All of this always holds.                                                *)
LEMMA CodecAlways == CodecSpec => []CodecInv
<1>1. CodecInv /\ [CodecNext]_codecVars => CodecInv'
  <2> SUFFICES ASSUME CodecInv, [CodecNext]_codecVars PROVE CodecInv'
    OBVIOUS
  <2>1. CASE \E ms \in Packed : WriteFrame(ms)
    BY <2>1, WriteFrameStep
  <2>2. CASE ReadFrame
    BY <2>2, ReadFrameStep
  <2>3. CASE DecodeMessage
    BY <2>3, DecodeMessageStep
  <2>4. CASE DropRest
    BY <2>4, DropRestStep
  <2>5. CASE UNCHANGED codecVars
    BY <2>5 DEF codecVars, CodecInv, CodecTypes, InTransit, FramesRead
  <2> QED BY <2>1, <2>2, <2>3, <2>4, <2>5 DEF CodecNext
<1> QED BY <1>1, CodecStart, PTL DEF CodecSpec

(* wire/message.go, peer.go inMessageHandler: whatever a frame holds, what  *)
(* is handed on of it are its own messages, unchanged up to the first that  *)
(* cannot be read, and the next frame is not touched.                       *)
THEOREM CodecFramesStandAlone == CodecSpec => []FramesStandAlone
<1>1. CodecInv => FramesStandAlone
  <2> SUFFICES ASSUME CodecInv PROVE FramesStandAlone
    OBVIOUS
  <2>1. /\ Len(frames) \in Nat /\ Len(wire) \in Nat /\ Len(handed) \in Nat
        /\ DOMAIN handed = 1..Len(handed) /\ Len(handed) <= Len(frames) - Len(wire)
    BY LenProperties DEF CodecInv, CodecTypes, InTransit
  <2>2. Len(handed) <= Len(frames)
    BY <2>1
  <2>3. ASSUME NEW f \in 1..Len(handed), NEW ms, ms = frames[f], NEW hs, hs = handed[f]
        PROVE  /\ \A i \in 1..Min({Len(hs), Readable(ms)}) : hs[i] = Meant(ms[i])
               /\ f < Len(handed) \/ buffer = <<>> => Len(hs) >= Readable(ms)
               /\ Len(hs) <= Readable(ms) + 1
    <3>1. /\ ms \in Seq(Message) /\ hs \in Seq(Out) /\ ReadOf(ms, hs)
          /\ f < Len(handed) => Len(hs) >= Readable(ms)
          /\ f = Len(handed) => LeftOf(buffer, ms, hs)
          /\ Len(ms) \in Nat /\ Len(hs) \in Nat /\ Readable(ms) \in 0..Len(ms)
      BY <2>3, OneFrame
    <3> DEFINE k == Len(hs)
               r == Readable(ms)
               l == Min({k, r})
    <3>2. k \in Nat /\ r \in Nat
      BY <3>1
    <3>3. /\ k <= r + 1
          /\ \A i \in 1..k : i <= r => hs[i] = Meant(ms[i])
      BY <3>1 DEF ReadOf
    <3>4. f = Len(handed) /\ buffer = <<>> => k >= r
      BY <3>1, NothingLeft
    <3> HIDE DEF k, r
    <3>5. l \in {k, r} /\ l <= k /\ l <= r
      <4>1. \E x \in {k, r} : \A y \in {k, r} : x <= y
        BY <3>2
      <4>2. l \in {k, r} /\ \A y \in {k, r} : l <= y
        BY <4>1 DEF Min
      <4> QED BY <4>2
    <3> HIDE DEF l
    <3>6. \A i \in 1..l : i \in 1..k /\ i <= r
      BY <3>2, <3>5
    <3>7. f < Len(handed) \/ f = Len(handed)
      <4>1. \A j \in Nat : \A i \in 1..j : i < j \/ i = j
        OBVIOUS
      <4> QED BY <2>1, <4>1
    <3> QED BY <3>1, <3>3, <3>4, <3>6, <3>7 DEF k, r, l
  <2> QED BY <2>1, <2>2, <2>3 DEF FramesStandAlone
<1> QED BY <1>1, CodecAlways, PTL

(* What is handed on is like what was written, and a client's messages are  *)
(* its own, whatever they say (peer.go inMessageHandler).                   *)
THEOREM CodecNothingMadeUp == CodecSpec => []NothingMadeUp
<1>1. CodecInv => NothingMadeUp
  <2> SUFFICES ASSUME CodecInv PROVE NothingMadeUp
    OBVIOUS
  <2>1. DOMAIN handed = 1..Len(handed)
    BY LenProperties DEF CodecInv, CodecTypes
  <2>2. ASSUME NEW f \in 1..Len(handed)
        PROVE  \A i \in DOMAIN handed[f] :
                 /\ handed[f][i].command = frames[f][i].command
                 /\ \A j \in DOMAIN handed[f][i].values :
                      handed[f][i].values[j] <= frames[f][i].values[j]
                 /\ Client => handed[f][i].source = PeerAddr
    <3>1. handed[f] \in Seq(Out) /\ ReadOf(frames[f], handed[f])
      BY OneFrame
    <3>2. DOMAIN handed[f] = 1..Len(handed[f])
      BY <3>1, LenProperties
    <3>3. \A i \in 1..Len(handed[f]) : Like(handed[f][i], frames[f][i])
      BY <3>1 DEF ReadOf
    <3> QED BY <3>2, <3>3 DEF Like
  <2> QED BY <2>1, <2>2 DEF NothingMadeUp
<1> QED BY <1>1, CodecAlways, PTL

(* An address read from a text has the type of its letter, and gives back   *)
(* domain and name unless it is the broadcast address.                      *)
LEMMA ParsedAddress ==
  ASSUME NEW T \in 0..4, NEW text, IsAddress(text), NEW a, a = ParseAs(T, text)
  PROVE  /\ Type(a) = T /\ a.domain = text[2]
         /\ T # AddrBroadcast => Address(a) = text[4]
<1> DEFINE b == text[4].bytes
<1>1. Len(text) = 4 /\ b \in 0..26 /\ ~(b > 26)
  BY DEF IsAddress
<1>2. a.head = (T * 32 + b) % 2^8 /\ a.domain = text[2] /\ a.name = text[4]
  BY <1>1 DEF ParseAs, NewAddr
<1> HIDE DEF b
<1>3. T = 0 \/ T = 1 \/ T = 2 \/ T = 3 \/ T = 4
  OBVIOUS
<1>4. a.head = T * 32 + b
  BY <1>1, <1>2, <1>3
<1>5. a.head \div 2^5 = T /\ a.head % 2^5 = b /\ (T # 4 => a.head \div 2^7 = 0)
  BY <1>1, <1>3, <1>4
<1>6. Type(a) = T
  BY <1>5 DEF Type
<1>7. ASSUME T # AddrBroadcast PROVE Address(a) = text[4]
  <2>1. a.head \div 2^7 = 0
    BY <1>5, <1>7 DEF AddrBroadcast
  <2>2. AddrLen(a) = b + 0 * 2^7
    BY <1>5, <2>1 DEF AddrLen
  <2>3. ~(AddrLen(a) + 6 > 32)
    BY <1>1, <2>2
  <2> QED BY <1>2, <2>3 DEF Address
<1> QED BY <1>2, <1>6, <1>7

(* So has one whose type is that of its first letter.                       *)
LEMMA ParsedText ==
  ASSUME NEW text, IsAddress(text), NEW a, a = ParseAddr(text)
  PROVE  /\ Type(a) \in {AddrClient, AddrGroup} <=> text[1] \in {"c", "g"}
         /\ a.domain = text[2]
         /\ text[1] # "b" => Address(a) = text[4]
<1> DEFINE T == AddrReMap(text[1])
<1>1. /\ T \in 0..4 /\ (text[1] # "b" => T # AddrBroadcast)
      /\ T \in {AddrClient, AddrGroup} <=> text[1] \in {"c", "g"}
  BY DEF AddrReMap, AddrVirtual, AddrClient, AddrServer, AddrGroup, AddrBroadcast
<1>2. text # <<>>
  <2>1. Len(<<>>) = 0 /\ Len(text) = 4
    BY EmptySeq DEF IsAddress
  <2> QED BY <2>1
<1>3. a = ParseAs(T, text)
  BY <1>2 DEF ParseAddr
<1> HIDE DEF T
<1>4. /\ Type(a) = T /\ a.domain = text[2]
      /\ T # AddrBroadcast => Address(a) = text[4]
  BY <1>1, <1>3, ParsedAddress
<1> QED BY <1>1, <1>4

(* hub.go saveMessagesToDb: rows name who sent a message and who was meant, *)
(* if chats go to addresses and no server passes on one whose source is a   *)
(* broadcast address or none.                                               *)
THEOREM CodecRowsNamePeers ==
  ASSUME \A m \in Message : m.command = "chat" =>
           /\ IsAddress(m.dest)
           /\ Client \/ (IsAddress(m.source) /\ m.source[1] # "b")
  PROVE  CodecSpec => []RowsNamePeers
<1>1. CodecInv => RowsNamePeers
  <2> SUFFICES ASSUME CodecInv PROVE RowsNamePeers
    OBVIOUS
  <2>1. DOMAIN handed = 1..Len(handed)
    BY LenProperties DEF CodecInv, CodecTypes
  <2>2. ASSUME NEW m \in Message, NEW h, Like(h, m)
        PROVE  /\ Saved(h) <=> m.command = "chat" /\ m.dest[1] \in {"c", "g"}
               /\ Saved(h) => Row(h) = [FromDomain |-> SourceText(m)[2],
                                        ToDomain |-> m.dest[2],
                                        From |-> SourceText(m)[4], To |-> m.dest[4]]
    <3>1. /\ h.command = m.command /\ h.dest = ParseAddr(m.dest)
          /\ h.source = IF Client THEN PeerAddr ELSE ParseAddr(m.source)
      BY <2>2 DEF Like
    <3>2. CASE m.command # "chat"
      BY <3>1, <3>2 DEF Saved
    <3>3. CASE m.command = "chat"
      <4>1. /\ IsAddress(m.dest)
            /\ Client \/ (IsAddress(m.source) /\ m.source[1] # "b")
        BY <3>3
      <4>2. /\ Type(h.dest) \in {AddrClient, AddrGroup} <=> m.dest[1] \in {"c", "g"}
            /\ h.dest.domain = m.dest[2]
            /\ m.dest[1] # "b" => Address(h.dest) = m.dest[4]
        BY <3>1, <4>1, ParsedText
      <4>3. h.source.domain = SourceText(m)[2] /\ Address(h.source) = SourceText(m)[4]
        <5>1. CASE Client
          <6>1. SourceText(m) = PeerText /\ h.source = ParseClientAddr(PeerText)
            BY <3>1, <5>1 DEF SourceText, PeerAddr
          <6>2. AddrClient \in 0..4 /\ AddrClient # AddrBroadcast
            BY DEF AddrClient, AddrBroadcast
          <6>3. IsAddress(PeerText)
            BY PeerAssumption
          <6> QED BY <6>1, <6>2, <6>3, ParsedAddress DEF ParseClientAddr
        <5>2. CASE ~Client
          <6>1. SourceText(m) = m.source /\ h.source = ParseAddr(m.source)
            BY <3>1, <5>2 DEF SourceText
          <6> QED BY <4>1, <5>2, <6>1, ParsedText
        <5> QED BY <5>1, <5>2
      <4>4. Saved(h) <=> m.dest[1] \in {"c", "g"}
        BY <3>1, <3>3, <4>2 DEF Saved
      <4>5. m.dest[1] \in {"c", "g"} => m.dest[1] # "b"
        OBVIOUS
      <4>6. m.dest[1] \in {"c", "g"} =>
              Row(h) = [FromDomain |-> SourceText(m)[2], ToDomain |-> m.dest[2],
                        From |-> SourceText(m)[4], To |-> m.dest[4]]
        BY <4>2, <4>3, <4>5 DEF Row
      <4> QED BY <3>3, <4>4, <4>6
    <3> QED BY <3>2, <3>3
  <2>3. ASSUME NEW f \in 1..Len(handed), NEW i \in DOMAIN handed[f]
        PROVE  frames[f][i] \in Message /\ Like(handed[f][i], frames[f][i])
    <3>1. /\ handed[f] \in Seq(Out) /\ ReadOf(frames[f], handed[f])
          /\ frames[f] \in Seq(Message)
          /\ Len(frames[f]) \in Nat /\ Len(handed[f]) \in Nat
      BY OneFrame
    <3>2. i \in 1..Len(handed[f])
      BY <3>1, LenProperties
    <3>3. Like(handed[f][i], frames[f][i]) /\ Len(handed[f]) <= Len(frames[f])
      BY <3>1, <3>2 DEF ReadOf
    <3>4. i \in 1..Len(frames[f])
      BY <3>1, <3>2, <3>3
    <3> QED BY <3>1, <3>3, <3>4, ElementOfSeq
  <2> QED BY <2>1, <2>2, <2>3 DEF RowsNamePeers
<1> QED BY <1>1, CodecAlways, PTL
=============================================================================
