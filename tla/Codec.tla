------------------------------- MODULE Codec -------------------------------
(***************************************************************************)
(* wire/message.go, the bodies in wire/msg_*.go, and the decode loop of     *)
(* peer/peer.go inMessageHandler: how messages become frames of one         *)
(* connection, messages again, and rows of the database.                    *)
(*                                                                          *)
(* A frame is a sequence of tokens: a header, then the fields of a body.  A *)
(* list is sent as a count, as wide as its message type has it, and that    *)
(* many addresses, which are one token.  A frame may hold several messages. *)
(* The reading end refuses a frame above its read limit by ending the       *)
(* connection, and drops the rest of a frame at the first thing that is no  *)
(* message.  Names of addresses are printable ASCII.                        *)
(***************************************************************************)
EXTENDS Addr, Integers, SequencesExt, FiniteSetsExt

CONSTANTS Message,    \* messages written: [command, values, source, dest]
          MaxPacked,  \* bound: messages in a frame
          MaxFrames,  \* bound: frames written
          ReadLimit,  \* Config.MaxMessageSize of the reading end
          Client,     \* the peer logged in as a client, not as a server
          PeerText    \* with this address

VARIABLES
  frames,  \* frames written, as the messages each was made of
  wire,    \* encoded frames on their way
  link,    \* "up" | "ended"
  buffer,  \* what is left of the frame being decoded
  handed   \* messages OnMessage was called with, by frame

codecVars == <<frames, wire, link, buffer, handed>>

-----------------------------------------------------------------------------
(* The fields of each body, in the order in which both Encode and Decode go *)
(* through them; a list is the last of its body.                            *)
Msgchat == <<"uint8", "string", "string">>
MsgChatResp == <<"uint8", "string">>
MsgGroupInOut == <<"uint8", "list8">>
MsgKill == <<"uint64">>
MsgLoginAck == <<"string", "uint64">>
MsgLoc == <<"addr", "addr", "addr">>
MsgOffline == <<"addr", "uint8", "list16">>
MsgOfflineNotice == <<"addr">>
MsgQueryClient == <<"addr">>
MsgQueryServers == <<>>
MsgEmpty == <<>>

(* MakeEmptyBody: none for a command that is not known.                     *)
BodyOf(command) ==
  CASE command = "chat"          -> <<Msgchat>>
    [] command = "chatResp"      -> <<MsgChatResp>>
    [] command = "groupInOut"    -> <<MsgGroupInOut>>
    [] command = "kill"          -> <<MsgKill>>
    [] command = "loginAck"      -> <<MsgLoginAck>>
    [] command = "loc"           -> <<MsgLoc>>
    [] command = "offline"       -> <<MsgOffline>>
    [] command = "offlineNotice" -> <<MsgOfflineNotice>>
    [] command = "queryClient"   -> <<MsgQueryClient>>
    [] command = "queryServers"  -> <<MsgQueryServers>>
    [] command = "empty"         -> <<MsgEmpty>>
    [] OTHER                     -> <<>>
Known(command) == BodyOf(command) # <<>>

(* A command that is not in wire has a body of one text.                    *)
Written(command) == IF Known(command) THEN BodyOf(command)[1] ELSE <<"string">>

ASSUME FrameAssumption == MaxPacked \in Nat /\ MaxFrames \in Nat

(* A message has a number for each field of its body: the value of an       *)
(* integer, how long a text is, how many a list has.  "other" stands for    *)
(* all commands that wire does not know.                                    *)
ASSUME MessageAssumption ==
  \A m \in Message :
    /\ Known(m.command) \/ m.command = "other"
    /\ m.values \in Seq(Nat) /\ Len(m.values) = Len(Written(m.command))

(* A peer whose address is none gets no connection (http_handler.go:71 and  *)
(* :127).                                                                   *)
IsAddress(text) == Len(text) = 4 /\ text[4].bytes \in 0..26
ASSUME PeerAssumption == Client \in BOOLEAN /\ IsAddress(PeerText)

-----------------------------------------------------------------------------
IsList(kind) == kind \in {"list8", "list16"}
HasList(body) == body # <<>> /\ IsList(Last(body))
CountOf(kind, n) == n % (IF kind = "list8" THEN 2^8 ELSE 2^16)

EncodeField(kind, v) ==
  IF IsList(kind)
  THEN <<[is |-> "field", n |-> CountOf(kind, v)], [is |-> "items", n |-> v]>>
  ELSE <<[is |-> "field", n |-> v]>>

EncodeHeader(m) == [is |-> "header", command |-> m.command,
                    source |-> ParseAddr(m.source), dest |-> ParseAddr(m.dest)]

EncodeMessage(m) ==
  <<EncodeHeader(m)>> \o
  FlattenSeq([i \in DOMAIN m.values |-> EncodeField(Written(m.command)[i], m.values[i])])

EncodeFrame(ms) == FlattenSeq([i \in DOMAIN ms |-> EncodeMessage(ms[i])])

(* Bytes of a field; a header has 74.  The length of a text is a uint32     *)
(* that nothing here reaches.                                               *)
SizeOf(kind, v) == CASE kind = "uint8" -> 1 [] kind = "uint64" -> 8
                     [] kind = "addr" -> 32 [] kind = "string" -> 4 + v
                     [] kind = "list8" -> 1 + 32 * v [] kind = "list16" -> 2 + 32 * v
MessageSize(m) ==
  FoldFunction(+, 74, [i \in DOMAIN m.values |-> SizeOf(Written(m.command)[i], m.values[i])])
FrameSize(ms) == FoldSeq(LAMBDA m, size : size + MessageSize(m), 0, ms)

CodecInit ==
  /\ frames = <<>> /\ wire = <<>> /\ link = "up" /\ buffer = <<>> /\ handed = <<>>

(* The other end writes a frame: packetHandler one message, another         *)
(* program as many as it likes.                                             *)
WriteFrame(ms) ==
  /\ Len(frames) < MaxFrames
  /\ frames' = Append(frames, ms)
  /\ wire' = Append(wire, [size |-> FrameSize(ms), tokens |-> EncodeFrame(ms)])
  /\ UNCHANGED <<link, buffer, handed>>

TooLong(frame) == frame.size > ReadLimit

ReadFrame ==
  /\ link = "up" /\ buffer = <<>> /\ wire # <<>>
  /\ wire' = Tail(wire)
  /\ IF TooLong(Head(wire))
     THEN link' = "ended" /\ UNCHANGED <<buffer, handed>>
     ELSE /\ buffer' = Head(wire).tokens /\ handed' = Append(handed, <<>>)
          /\ UNCHANGED link
  /\ UNCHANGED frames

-----------------------------------------------------------------------------
(* A header is read whatever the bytes are; addresses read as one have a    *)
(* byte of a name for a command, which is none that MakeEmptyBody knows.    *)
StartsMessage == buffer[1].is = "header" /\ Known(buffer[1].command)

Body == BodyOf(buffer[1].command)[1]
Fields == Len(Body)

PeerAddr == IF Client THEN ParseClientAddr(PeerText) ELSE ParseServerAddr(PeerText)
SourceBelieved == buffer[1].source  \* slip: what a client says it is
Source == IF Type(PeerAddr) = AddrClient THEN PeerAddr ELSE buffer[1].source

Decoded == [command |-> buffer[1].command,
            values |-> [i \in 1..Fields |-> buffer[1 + i].n],
            source |-> Source, dest |-> buffer[1].dest]

(* What of a list its count did not say.                                    *)
Uncounted == IF HasList(Body) /\ buffer[Fields + 1].n < buffer[Fields + 2].n
             THEN <<[is |-> "items", n |-> buffer[Fields + 2].n - buffer[Fields + 1].n]>>
             ELSE <<>>
AfterMessageSkipped == SubSeq(buffer, Fields + (IF HasList(Body) THEN 3 ELSE 2), Len(buffer))  \* slip: the rest of a list is skipped
AfterMessage ==
  Uncounted \o SubSeq(buffer, Fields + (IF HasList(Body) THEN 3 ELSE 2), Len(buffer))

DecodeMessage ==
  /\ link = "up" /\ buffer # <<>> /\ StartsMessage
  /\ handed' = [handed EXCEPT ![Len(handed)] = Append(@, Decoded)]
  /\ buffer' = AfterMessage
  /\ UNCHANGED <<frames, wire, link>>

DropRest == /\ link = "up" /\ buffer # <<>> /\ ~StartsMessage /\ buffer' = <<>>
            /\ UNCHANGED <<frames, wire, link, handed>>

(* saveMessagesToDb: whether a message becomes a row, and the row.          *)
Saved(m) == m.command = "chat" /\ Type(m.dest) \in {AddrClient, AddrGroup}
Row(m) == [FromDomain |-> m.source.domain, ToDomain |-> m.dest.domain,
           From |-> Address(m.source), To |-> Address(m.dest)]

Packed == UNION {[1..k -> Message] : k \in 1..MaxPacked}

CodecNext == (\E ms \in Packed : WriteFrame(ms)) \/ ReadFrame \/ DecodeMessage \/ DropRest

CodecSpec == CodecInit /\ [][CodecNext]_codecVars

-----------------------------------------------------------------------------
(* A message that can be read: its count fits and its command is known.     *)
Fits(m) ==
  /\ m.command # "other"
  /\ \A i \in DOMAIN m.values :
       LET kind == Written(m.command)[i]
       IN IsList(kind) => CountOf(kind, m.values[i]) = m.values[i]

(* How many messages of a frame come before the first that loses the rest.  *)
Readable(ms) ==
  CHOOSE k \in 0..Len(ms) :
    /\ \A i \in 1..k : Fits(ms[i])
    /\ k < Len(ms) => ~Fits(ms[k + 1])

SourceText(m) == IF Client THEN PeerText ELSE m.source
Meant(m) == [command |-> m.command, values |-> m.values,
             source |-> IF Client THEN PeerAddr ELSE ParseAddr(m.source),
             dest |-> ParseAddr(m.dest)]

(* Frames are read one for one, whole and in order: what is handed on of a  *)
(* frame are its own messages, unchanged, at least up to the first that     *)
(* does not fit, and whatever was lost of a frame, the next is not touched. *)
FramesStandAlone ==
  /\ Len(handed) <= Len(frames)
  /\ \A f \in DOMAIN handed :
       LET ms == frames[f]
           hs == handed[f]
       IN /\ \A i \in 1..Min({Len(hs), Readable(ms)}) : hs[i] = Meant(ms[i])
          /\ f < Len(handed) \/ buffer = <<>> => Len(hs) >= Readable(ms)
          /\ Len(hs) <= Readable(ms) + 1

(* Nothing is made up: a message handed on is of the kind that was sent in  *)
(* its place, has no more in any list, and its source when it is a client's *)
(* is the client itself, whatever the message says.                         *)
NothingMadeUp ==
  \A f \in DOMAIN handed : \A i \in DOMAIN handed[f] :
    /\ handed[f][i].command = frames[f][i].command
    /\ \A j \in DOMAIN handed[f][i].values :
         handed[f][i].values[j] <= frames[f][i].values[j]
    /\ Client => handed[f][i].source = PeerAddr

(* hub.go:569-603: the row of a message names those who sent it and were    *)
(* meant by it, by the names and domains of their address texts, whatever   *)
(* was packed into the byte of type and length; and a message is a row      *)
(* exactly when it is a chat to a client or a group.                        *)
RowsNamePeers ==
  \A f \in DOMAIN handed : \A i \in DOMAIN handed[f] :
    LET m == frames[f][i]
        h == handed[f][i]
    IN /\ Saved(h) <=> m.command = "chat" /\ m.dest[1] \in {"c", "g"}
       /\ Saved(h) => Row(h) = [FromDomain |-> SourceText(m)[2], ToDomain |-> m.dest[2],
                                From |-> SourceText(m)[4], To |-> m.dest[4]]

-----------------------------------------------------------------------------
(* hub/server_peer.go:126, MaxMessageSize: 1024 * 10, //1M.  A server reads *)
(* frames of its peer up to 1M; only a longer one ends the connection.      *)
ReadsUpTo1M ==
  link = "ended" => FrameSize(frames[Len(handed) + 1]) > 1024 * 1024
=============================================================================
