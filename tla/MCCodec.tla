------------------------------ MODULE MCCodec ------------------------------
(* Codec with a read limit of 10240 and lists at and around what it and     *)
(* their counts allow: 255, 256 and 257 groups, a frame as long as the      *)
(* limit, an offline message one target above it; names of no, some and the *)
(* 26 bytes that an address has room for, of every type.                    *)
EXTENDS Codec

Name(n, k) == [is |-> n, bytes |-> k]
Alice == <<"c", 1, 1, Name("alice", 5)>>
Bob == <<"c", 2, 3, Name("bob with his longest name..", 26)>>
Team == <<"g", 1, 0, Name("team", 4)>>
All == <<"b", 1, 0, Name("x", 1)>>
Host == <<"s", 0, 0, Name("192.168.0.1:8380", 16)>>
None == <<"c", 1, 0, Name("", 0)>>
Nowhere == <<>>

M(c, v, s, d) == [command |-> c, values |-> v, source |-> s, dest |-> d]

ClientMessages ==
  {M("groupInOut", <<1, 0>>, Alice, Nowhere), M("groupInOut", <<0, 255>>, Bob, Nowhere),
   M("groupInOut", <<1, 256>>, Alice, Nowhere), M("groupInOut", <<1, 257>>, Bob, Nowhere),
   M("offline", <<1, 1, 317>>, Alice, Host), M("chat", <<1, 5, 0>>, Team, Bob),
   M("chat", <<1, 10100, 57>>, Alice, Team), M("chat", <<2, 3, 3>>, Bob, All),
   M("chat", <<2, 0, 0>>, None, None), M("loginAck", <<14, 9>>, Host, Alice),
   M("empty", <<>>, Host, Bob), M("other", <<3>>, Alice, Bob),
   M("loc", <<1, 2, 3>>, Host, Host), M("kill", <<7>>, Host, Bob),
   M("offlineNotice", <<1>>, Host, Bob), M("queryClient", <<1>>, Host, Host),
   M("queryServers", <<>>, Host, Host), M("chatResp", <<1, 4>>, Bob, Alice)}

ServerMessages ==
  {M("offline", <<1, 1, 0>>, Host, Host), M("offline", <<1, 1, 316>>, Host, Host),
   M("offline", <<1, 0, 317>>, Host, Host), M("chat", <<1, 1000, 0>>, Bob, Alice)}
BroadcastSource == {M("chat", <<1, 5, 0>>, All, Bob)}
=============================================================================
