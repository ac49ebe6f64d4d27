------------------------------ MODULE FileLog ------------------------------
(***************************************************************************)
(* filelog/filelog.go: the queue on disk between the hub and its database,  *)
(* and saveMessagesToDb of hub/hub.go, which is its sub.                    *)
(*                                                                          *)
(*  callers --> writeloop --> block in memory --> file --> readloop --> sub *)
(*                                                                          *)
(* The file is a header of two block numbers (what was read, what was       *)
(* written) and blocks of records.  Both loops move the numbers under one   *)
(* mutex, and each write to the file is a step, so that the process can     *)
(* stop between any two.  The disk may be full: appending a block fails,    *)
(* writing in place does not.  Reading and saving may fail too.             *)
(***************************************************************************)
EXTENDS Naturals, Sequences, SequencesExt

CONSTANTS Record,     \* what callers write
          Size,       \* the space each takes in a block, its length included
          BlockSize,  \* the space of a block
          Kind,       \* "chat" to a client, "group" chat, or "other" message
          CanClose,   \* is Close called?  The hub never does.
          MaxTrouble  \* bound: how often the process stops or something fails

ASSUME SizeAssumption == Size \in [Record -> Nat \ {0}]
ASSUME KindAssumption == Kind \in [Record -> {"chat", "group", "other"}]
ASSUME BoundAssumption == BlockSize \in Nat /\ MaxTrouble \in Nat /\ CanClose \in BOOLEAN

VARIABLES
  blocks, readOff, writeOff,           \* the file: blocks and header
  readblock, writeblock, mutex,        \* FileLog: the numbers and their lock
  writer, wlog, buffer,                \* writeloop: request, block being filled
  reader, loaded,                      \* readloop: the block it read
  file,                                \* "open" or "closed"
  call,                                \* each caller of Write
  logged,                              \* records whose Write succeeded, in order
  handed,                              \* records passed to sub, in order
  saved,                               \* records in the database, in order
  dropped, unsaved,                    \* those a failing append or save lost
  crashes, faults

disk == <<blocks, readOff, writeOff>>
numbers == <<readblock, writeblock>>
writing == <<writer, wlog, buffer>>
reading == <<reader, loaded>>
outcome == <<call, logged, handed>>
saving == <<saved, unsaved>>
failing == <<dropped, faults>>
vars == <<disk, numbers, mutex, writing, reading, file, outcome, saving, failing,
          crashes>>

Init ==
  /\ blocks = <<>> /\ readOff = 0 /\ writeOff = 0
  /\ readblock = 0 /\ writeblock = 0 /\ mutex = "free"
  /\ writer = "select" /\ wlog = <<>> /\ buffer = <<>>
  /\ reader = "poll" /\ loaded = <<>> /\ file = "open"
  /\ call = [r \in Record |-> "idle"] /\ logged = <<>> /\ handed = <<>>
  /\ saved = <<>> /\ dropped = {} /\ unsaved = {} /\ crashes = 0 /\ faults = 0

(* Something fails, as often as the bound allows.                           *)
Fault == crashes + faults < MaxTrouble /\ faults' = faults + 1
Used(block) ==
  LET sum[i \in 0..Len(block)] ==
        IF i = 0 THEN 0 ELSE sum[i - 1] + Size[block[i]]
  IN sum[Len(block)]
HasSpaceLeft(r) == BlockSize > Used(buffer)  \* slip: the record's size is forgotten
HasSpace(r) == BlockSize - Used(buffer) >= Size[r]

(* The records of a sequence that are in S, in their order.                  *)
Only(seq, S) ==
  LET some[i \in 0..Len(seq)] ==
        IF i = 0 THEN <<>>
        ELSE IF seq[i] \in S THEN Append(some[i - 1], seq[i]) ELSE some[i - 1]
  IN some[Len(seq)]
OfKind(kind) == {r \in Record : Kind[r] = kind}

-----------------------------------------------------------------------------
(* writeloop.  A record that does not fit sends the block to the file       *)
(* first, even an empty one.                                                *)
Write(r) ==
  /\ writer = "select" /\ call[r] = "idle"
  /\ call' = [call EXCEPT ![r] = "wait"] /\ wlog' = <<r>>
  /\ writer' = IF HasSpace(r) THEN "store" ELSE "append"
  /\ UNCHANGED <<disk, numbers, mutex, buffer, reading, file, logged, handed,
                 saving, failing, crashes>>

TickFull ==  \* slip: only a full block is sent
  /\ writer = "select" /\ Used(buffer) = BlockSize
  /\ writer' = "append"
  /\ UNCHANGED <<disk, numbers, mutex, wlog, buffer, reading, file, outcome,
                 saving, failing, crashes>>

Tick ==
  /\ writer = "select" /\ buffer # <<>>
  /\ writer' = "append"
  /\ UNCHANGED <<disk, numbers, mutex, wlog, buffer, reading, file, outcome,
                 saving, failing, crashes>>

(* appendBlock: the block, then the header.                                 *)
AppendBlock ==
  /\ writer = "append" /\ mutex = "free"
  /\ mutex' = "writer" /\ writer' = "header"
  /\ blocks' = IF writeblock < Len(blocks)
               THEN [blocks EXCEPT ![writeblock + 1] = buffer]
               ELSE Append(blocks, buffer)
  /\ UNCHANGED <<readOff, writeOff, numbers, wlog, buffer, reading, file, outcome,
                 saving, failing, crashes>>

KeptBuffer == UNCHANGED buffer  \* slip: block.reset is left out
Reset == buffer' = <<>>

AfterAppendDone == "select"  \* slip: the request that found no space is dropped
AfterAppend == IF wlog = <<>> THEN "select" ELSE "store"

(* A full disk: the block is given up, and the loop goes on.                *)
AppendFails ==
  /\ writer = "append" /\ mutex = "free" /\ Fault
  /\ dropped' = dropped \cup ToSet(buffer)
  /\ Reset /\ writer' = AfterAppend
  /\ UNCHANGED <<disk, numbers, mutex, wlog, reading, file, outcome, saving,
                 crashes>>

AppendHeader ==
  /\ writer = "header"
  /\ writeblock' = writeblock + 1 /\ writeOff' = writeblock + 1
  /\ mutex' = "free" /\ Reset
  /\ writer' = AfterAppend
  /\ UNCHANGED <<blocks, readOff, readblock, wlog, reading, file, outcome,
                 saving, failing, crashes>>

(* block.write and the answer to the caller: errBlockLackOfSpace is all     *)
(* that can go wrong.                                                       *)
Store ==
  /\ writer = "store" /\ writer' = "select" /\ wlog' = <<>>
  /\ LET r == Head(wlog)
     IN \/ /\ HasSpace(r)
           /\ buffer' = Append(buffer, r) /\ logged' = Append(logged, r)
           /\ call' = [call EXCEPT ![r] = "logged"]
        \/ /\ ~HasSpace(r)
           /\ call' = [call EXCEPT ![r] = "refused"]
           /\ UNCHANGED <<buffer, logged>>
  /\ UNCHANGED <<disk, numbers, mutex, reading, file, handed, saving, failing,
                 crashes>>

(* Close ends writeloop and closes the file, whatever the block holds.      *)
Close ==
  /\ CanClose /\ writer = "select"
  /\ writer' = "exited" /\ file' = "closed"
  /\ UNCHANGED <<disk, numbers, mutex, wlog, buffer, reading, outcome, saving,
                 failing, crashes>>

-----------------------------------------------------------------------------
(* readloop: nextBlock and getBlock.  A read that fails returns with the    *)
(* mutex locked, and so does one of a block that the file does not have.    *)
GetBlock ==
  /\ reader = "poll" /\ mutex = "free" /\ readblock # writeblock
  /\ readblock < Len(blocks) /\ file = "open" /\ mutex' = "reader"
  /\ loaded' = blocks[readblock + 1]
  /\ IF readblock + 1 = writeblock
     THEN readblock' = 0 /\ writeblock' = 0 /\ reader' = "zero"
     ELSE readblock' = readblock + 1 /\ reader' = "advance" /\ UNCHANGED writeblock
  /\ UNCHANGED <<disk, writing, file, outcome, saving, failing, crashes>>

ReadFails ==
  /\ reader = "poll" /\ mutex = "free" /\ readblock # writeblock
  /\ mutex' = "reader"
  /\ \/ (readblock >= Len(blocks) \/ file = "closed") /\ UNCHANGED faults
     \/ readblock < Len(blocks) /\ file = "open" /\ Fault
  /\ UNCHANGED <<disk, numbers, writing, reading, file, outcome, saving, dropped,
                 crashes>>

Stuck == mutex = "reader" /\ reader = "poll"

(* The last block was read: header 0 for what was written, file cut to its  *)
(* header, header 0 for what was read.                                      *)
ZeroWriteOff ==
  /\ reader = "zero" /\ reader' = "truncate"
  /\ writeOff' = IF file = "open" THEN 0 ELSE writeOff
  /\ UNCHANGED <<blocks, readOff, numbers, mutex, writing, loaded, file, outcome,
                 saving, failing, crashes>>

Truncate ==
  /\ reader = "truncate" /\ reader' = "advance"
  /\ blocks' = IF file = "open" THEN <<>> ELSE blocks
  /\ UNCHANGED <<readOff, writeOff, numbers, mutex, writing, loaded, file, outcome,
                 saving, failing, crashes>>

NewReadOffStale == readOff  \* slip: the header is not written
NewReadOff == IF file = "open" THEN readblock ELSE readOff

Advance ==
  /\ reader = "advance" /\ reader' = "sub" /\ mutex' = "free"
  /\ readOff' = NewReadOff
  /\ UNCHANGED <<blocks, writeOff, numbers, writing, loaded, file, outcome,
                 saving, failing, crashes>>

(* sub is saveMessagesToDb: the chat messages of the block, then those to   *)
(* groups.  What cannot be saved is not read again, and when it is the chat *)
(* messages the others are not tried.                                       *)
Loaded(kind) == Only(loaded, OfKind(kind))
Lost(kinds) == {r \in ToSet(loaded) : Kind[r] \in kinds}

SaveChats ==
  /\ reader = "sub" /\ reader' = "groups"
  /\ handed' = handed \o loaded /\ saved' = saved \o Loaded("chat")
  /\ UNCHANGED <<disk, numbers, mutex, writing, loaded, file, call, logged, unsaved,
                 failing, crashes>>

PollAgain == reader' = "sub" /\ UNCHANGED loaded  \* slip: the block is tried again
Poll == reader' = "poll" /\ loaded' = <<>>

SaveChatsFails ==
  /\ reader = "sub" /\ Loaded("chat") # <<>> /\ Fault
  /\ handed' = handed \o loaded /\ unsaved' = unsaved \cup Lost({"chat", "group"})
  /\ Poll
  /\ UNCHANGED <<disk, numbers, mutex, writing, file, call, logged, saved, dropped,
                 crashes>>

SaveGroups ==
  /\ reader = "groups" /\ Poll /\ saved' = saved \o Loaded("group")
  /\ UNCHANGED <<disk, numbers, mutex, writing, file, outcome, unsaved, failing,
                 crashes>>

SaveGroupsFails ==
  /\ reader = "groups" /\ Loaded("group") # <<>> /\ Fault
  /\ unsaved' = unsaved \cup Lost({"group"}) /\ Poll
  /\ UNCHANGED <<disk, numbers, mutex, writing, file, outcome, saved, dropped,
                 crashes>>

-----------------------------------------------------------------------------
(* The process stops and NewFileLog opens the file again.                   *)
ReopenedEmpty == readblock' = 0 /\ writeblock' = 0  \* slip: the header is not read
Reopened == readblock' = readOff /\ writeblock' = writeOff
Crash ==
  /\ crashes + faults < MaxTrouble /\ file = "open" /\ crashes' = crashes + 1
  /\ Reopened /\ mutex' = "free" /\ file' = "open"
  /\ writer' = "select" /\ wlog' = <<>> /\ buffer' = <<>>
  /\ reader' = "poll" /\ loaded' = <<>>
  /\ call' = [r \in Record |-> IF call[r] = "wait" THEN "gone" ELSE call[r]]
  /\ UNCHANGED <<disk, logged, handed, saving, failing>>

Writer == Tick \/ AppendBlock \/ AppendFails \/ AppendHeader \/ Store
Reader == \/ GetBlock \/ ReadFails \/ ZeroWriteOff \/ Truncate \/ Advance
          \/ SaveChats \/ SaveChatsFails \/ SaveGroups \/ SaveGroupsFails
Next == (\E r \in Record : Write(r)) \/ Writer \/ Close \/ Reader \/ Crash

(* Both loops go on and the ticker ticks; nobody need call Write or Close.  *)
Fairness == WF_vars(Writer) /\ WF_vars(Reader)

Spec == Init /\ [][Next]_vars
FairSpec == Spec /\ Fairness

-----------------------------------------------------------------------------
(* Type invariant of the file, the numbers and the two loops.               *)
TypeOK ==
  /\ blocks \in Seq(Seq(Record)) /\ readOff \in Nat /\ writeOff \in Nat
  /\ readblock \in Nat /\ writeblock \in Nat
  /\ mutex \in {"free", "writer", "reader"}
  /\ mutex = "writer" <=> writer = "header"
  /\ writer \in {"select", "append", "header", "store", "exited"}
  /\ wlog \in Seq(Record) /\ buffer \in Seq(Record) /\ Used(buffer) <= BlockSize
  /\ reader \in {"poll", "zero", "truncate", "advance", "sub", "groups"}
  /\ reader \in {"zero", "truncate", "advance"} => mutex = "reader"
  /\ loaded \in Seq(Record) /\ file \in {"open", "closed"}
  /\ call \in [Record -> {"idle", "wait", "logged", "refused", "gone"}]
  /\ logged \in Seq(Record) /\ handed \in Seq(Record) /\ saved \in Seq(Record)
  /\ dropped \subseteq Record /\ unsaved \subseteq Record
  /\ crashes \in Nat /\ faults \in Nat /\ crashes + faults <= MaxTrouble

(* Before a crash nothing is lost, doubled or swapped on its way through    *)
(* the file, but for the blocks that could not be appended: what was logged *)
(* is what sub got, then what readloop holds for it, what is in unread      *)
(* blocks, and what is in memory.                                           *)
Unread ==
  FlattenSeq([i \in 1..(writeblock - readblock) |-> blocks[readblock + i]])
Held == IF reader \in {"zero", "truncate", "advance", "sub"} THEN loaded ELSE <<>>
NothingLost ==
  crashes = 0 /\ file = "open"
    => Only(logged, Record \ dropped) = handed \o Held \o Unread \o buffer

(* sub gets no record twice, and neither do the tables of chat and of group  *)
(* messages, wherever the process stopped, however often, and whatever       *)
(* failed.  They get none out of order either until the process has stopped  *)
(* three times, when a block left in the file by one stop can be read after  *)
(* one that was written over the blocks before it.                           *)
Place(r) == CHOOSE i \in DOMAIN logged : logged[i] = r
AsLogged(seq) ==
  \A i, j \in DOMAIN seq :
    i < j => /\ seq[i] # seq[j]
             /\ crashes <= 2 => Place(seq[i]) < Place(seq[j])
Table(kind) == Only(saved, OfKind(kind))
AtMostOnceInOrder ==
  AsLogged(handed) /\ AsLogged(Table("chat")) /\ AsLogged(Table("group"))

(* The order without that limit, which the third stop refutes.              *)
HandedInOrder ==
  \A i, j \in DOMAIN handed : i < j => Place(handed[i]) < Place(handed[j])

(* While the process runs, the header on disk agrees with the numbers in    *)
(* memory whenever nobody holds the mutex, and the file has every block.    *)
HeaderInStep ==
  mutex = "free" /\ file = "open" =>
    /\ readOff = readblock /\ writeOff = writeblock
    /\ writeblock <= Len(blocks) /\ (crashes = 0 => readblock <= writeblock)

(* A caller of Write is answered unless the process stops or a read failed; *)
(* an append that fails answers it too.                                     *)
Answered ==
  \A r \in Record :
    (call[r] = "wait") ~> (call[r] # "wait" \/ crashes > 0 \/ Stuck)

(* A chat message that was logged reaches the database, unless its own      *)
(* block was lost by an append or a save that failed, the process stops,    *)
(* the log is closed or a read failed: what failed once does not hold up    *)
(* what comes later.                                                        *)
LoggedSaved ==
  \A r \in {q \in Record : Kind[q] # "other"} :
    (call[r] = "logged")
      ~> (\/ r \in ToSet(saved) \cup unsaved \cup dropped
          \/ crashes > 0 \/ file = "closed" \/ Stuck)

-----------------------------------------------------------------------------
(* filelog.go:262: a block is not read again, so that reading does not get  *)
(* stuck in a block.                                                        *)
NeverStuck == file = "open" => ~Stuck
=============================================================================
