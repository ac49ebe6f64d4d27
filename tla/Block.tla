------------------------------- MODULE Block -------------------------------
(***************************************************************************)
(* filelog/filelog.go, type Block: records packed into a block of bytes by  *)
(* writeloop and unpacked by readloop, with uint16 arithmetic throughout.   *)
(*                                                                          *)
(* A byte has Base values and a uint16 Base * Base, so that a small Base    *)
(* wraps where 256 does.  A record is a length and the byte it is made of.  *)
(* The block goes from one loop to the other through the file (FileLog),    *)
(* which does not change its bytes: here it is handed over in one step.     *)
(***************************************************************************)
EXTENDS Naturals, Sequences

CONSTANTS Base,       \* how many values a byte has
          BlockSize,  \* bytes of a block
          Lengths,    \* the lengths of records
          Tags,       \* what they are made of
          MaxRecords  \* bound: records in a block

ASSUME SizeAssumption ==
  /\ Base \in Nat \ {0, 1} /\ BlockSize \in 4..(Base * Base - 3)
  /\ Lengths \subseteq Nat \ {0} /\ Tags \subseteq 1..(Base - 1)
  /\ MaxRecords \in 1..(Base * Base - 1)

VARIABLES
  buf, offset, length,     \* the block that writeloop fills
  packed,                  \* history: the records its writes accepted
  rbuf, roffset, rlength,  \* the block that readloop reads
  left, list,              \* its loop: records still to read, those read
  panicked,                \* the loop whose slice went out of range, or "none"
  expected                 \* history: the records accepted in that block

writing == <<buf, offset, length, packed>>
reading == <<rbuf, roffset, rlength, left, list, panicked, expected>>
vars == <<writing, reading>>

Uint16(v) == v % (Base * Base)
Zeros == [i \in 1..BlockSize |-> 0]
Record == [len : Lengths, tag : Tags]
Bytes(r) == [i \in 1..r.len |-> r.tag]

(* copy(buf[at:], bytes): what does not fit is left out.                    *)
Copied(b, at, bytes) ==
  [i \in 1..BlockSize |->
     IF i > at /\ i - at <= Len(bytes) THEN bytes[i - at] ELSE b[i]]

BytesOf(v) == <<v % Base, (v \div Base) % Base>>
WriteUint16(b, v, at) == Copied(b, at, BytesOf(v))
ReadUint16(b, at) == b[at + 1] + Base * b[at + 2]

Init ==
  /\ buf = Zeros /\ offset = 2 /\ length = 0 /\ packed = <<>>
  /\ rbuf = Zeros /\ roffset = 2 /\ rlength = 0
  /\ left = 0 /\ list = <<>> /\ panicked = "none" /\ expected = <<>>

-----------------------------------------------------------------------------
HasSpace(o, space) == BlockSize - o >= Uint16(space)

Advanced1(o, n) == Uint16(o + n + 1)  \* slip: the length field has two bytes
Advanced(o, n) == Uint16(o + n + 2)

(* block.write into the block b that has n records and ends at o.  A length *)
(* that wraps passes for one that fits; the bytes must begin inside b still.*)
LackOfSpace(o, r) == BlockSize - o < Uint16(Uint16(r.len) + 2)
BytesInside(o) == o + 2 <= BlockSize

BlockWrite(b, o, n, accepted, r) ==
  \/ /\ ~LackOfSpace(o, r) /\ BytesInside(o)
     /\ buf' = WriteUint16(Copied(WriteUint16(b, Uint16(r.len), o), o + 2, Bytes(r)),
                           n + 1, 0)
     /\ offset' = Advanced(o, r.len) /\ length' = n + 1
     /\ packed' = Append(accepted, r)
  \/ /\ LackOfSpace(o, r)
     /\ buf' = b /\ offset' = o /\ length' = n /\ packed' = accepted

(* newBlock on the bytes read from the file.                                *)
Hand ==
  /\ rbuf' = buf /\ roffset' = 2
  /\ rlength' = ReadUint16(buf, 0) /\ left' = ReadUint16(buf, 0)
  /\ list' = <<>> /\ expected' = packed /\ UNCHANGED panicked

ResetBytes == WriteUint16(buf, 0, 0)

(* writeloop on a request: a block without space is handed over and reset.  *)
Write(r) ==
  \/ /\ HasSpace(offset, r.len + 2) /\ length < MaxRecords
     /\ BlockWrite(buf, offset, length, packed, r)
     /\ UNCHANGED reading
  \/ /\ ~HasSpace(offset, r.len + 2) /\ left = 0
     /\ Hand
     /\ BlockWrite(ResetBytes, 2, 0, <<>>, r)

(* A record whose length wraps is let into a block that is full: the slice  *)
(* of its bytes begins behind the block, and the process ends there with    *)
(* all that the block holds.                                                *)
WritePanics(r) ==
  /\ HasSpace(offset, r.len + 2) /\ length < MaxRecords
  /\ ~LackOfSpace(offset, r) /\ ~BytesInside(offset)
  /\ panicked' = "writeloop"
  /\ UNCHANGED <<writing, rbuf, roffset, rlength, left, list, expected>>

(* writeloop on its ticker.                                                 *)
Tick ==
  /\ length > 0 /\ left = 0
  /\ Hand
  /\ buf' = ResetBytes /\ offset' = 2 /\ length' = 0 /\ packed' = <<>>

-----------------------------------------------------------------------------
(* block.read, once for every record that the block counts; what it cannot  *)
(* read stays nil in the list.  A length field at the block's last byte is  *)
(* out of the range of the slice.                                           *)
Nil == <<>>
ReadBytes(n) == [i \in 1..n |-> IF roffset + 2 + i <= BlockSize
                                THEN rbuf[roffset + 2 + i] ELSE 0]
Empty == roffset >= BlockSize \/ rlength = 0

Read ==
  /\ left > 0 /\ left' = left - 1
  /\ \/ /\ Empty
        /\ list' = Append(list, Nil) /\ UNCHANGED <<rbuf, roffset, rlength>>
     \/ /\ ~Empty /\ roffset + 2 <= BlockSize
        /\ LET n == ReadUint16(rbuf, roffset)
           IN \/ /\ n = 0
                 /\ list' = Append(list, Nil) /\ roffset' = roffset + 2
                 /\ UNCHANGED <<rbuf, rlength>>
              \/ /\ n # 0
                 /\ list' = Append(list, ReadBytes(n))
                 /\ roffset' = Advanced(roffset, n)
                 /\ rlength' = rlength - 1
                 /\ rbuf' = WriteUint16(rbuf, rlength - 1, 0)
  /\ UNCHANGED <<writing, panicked, expected>>

ReadPanics ==
  /\ left > 0 /\ ~Empty /\ roffset + 2 > BlockSize
  /\ panicked' = "readloop"
  /\ UNCHANGED <<writing, rbuf, roffset, rlength, left, list, expected>>

Next == /\ panicked = "none"
        /\ \/ \E r \in Record : Write(r) \/ WritePanics(r)
           \/ Tick \/ Read \/ ReadPanics

Spec == Init /\ [][Next]_vars

-----------------------------------------------------------------------------
(* When sub is called with a block, and it is not once a loop has panicked, *)
(* it gets one entry for every record that the block accepted.  And when    *)
(* the lengths of these fit a uint16 with room for their own field, the     *)
(* reader does not panic in the block, and each entry is its record, whole  *)
(* and in its order, whatever an earlier use of the memory left behind.     *)
SubIsCalled == left = 0 /\ panicked = "none"
EntryPerRecord == SubIsCalled => Len(list) = Len(expected)
AllRead == /\ panicked # "readloop"
           /\ \A i \in DOMAIN list : list[i] = Bytes(expected[i])
LengthFits(r) == r.len + 2 < Base * Base
ReadsBack ==
  /\ EntryPerRecord
  /\ (\A i \in DOMAIN expected : LengthFits(expected[i])) => AllRead

-----------------------------------------------------------------------------
(* filelog.go:175: Write writes a record to the file, so that what it has   *)
(* accepted is read from there, whatever its length.                        *)
WrittenIsRead == AllRead
=============================================================================
