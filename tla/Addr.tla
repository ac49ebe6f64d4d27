------------------------------- MODULE Addr --------------------------------
(***************************************************************************)
(* wire/common.go: addresses.  A text is the sequence of what stands        *)
(* between the slashes of "/c/domain/device/name"; an address is 32 bytes,  *)
(* of which the first holds the type in 3 bits and the length of the name   *)
(* in 5.  A name is a record of what it is and how many bytes it has.       *)
(* Domains are below 2^32.                                                  *)
(***************************************************************************)
EXTENDS Naturals, Sequences

AddrVirtual == 0
AddrClient == 1
AddrServer == 2
AddrGroup == 3
AddrBroadcast == 4

NoAddr == [head |-> 0, domain |-> 0, device |-> 0, name |-> [is |-> "", bytes |-> 0]]
Panics == [is |-> "slice bounds out of range", bytes |-> 0]

AddrReMap(letter) == CASE letter = "c" -> AddrClient [] letter = "s" -> AddrServer
                       [] letter = "g" -> AddrGroup [] letter = "b" -> AddrBroadcast
                       [] OTHER -> AddrVirtual

(* ErrAddrOverflow is NoAddr here, and so is ErrInvaildAddress below.       *)
NewAddr(Typ, domain, device, name) ==
  IF name.bytes > 26 THEN NoAddr
  ELSE [head |-> (Typ * 32 + name.bytes) % 2^8, domain |-> domain,
        device |-> device % 2^8, name |-> name]

ParseAs(Typ, text) ==
  IF Len(text) # 4 THEN NoAddr ELSE NewAddr(Typ, text[2], text[3], text[4])
ParseAddr(text) == ParseAs(IF text = <<>> THEN AddrVirtual ELSE AddrReMap(text[1]), text)
ParseClientAddr(text) == ParseAs(AddrClient, text)
ParseServerAddr(text) == ParseAs(AddrServer, text)

Type(addr) == addr.head \div 2^5

(* The mask 3<<5 leaves the highest bit of the type in the length.          *)
AddrLenWhole(addr) == addr.head  \* slip: the type is not masked at all
AddrLen(addr) == (addr.head % 2^5) + (addr.head \div 2^7) * 2^7

(* addr[6 : Len+6] of 32 bytes.                                             *)
Address(addr) == IF AddrLen(addr) + 6 > 32 THEN Panics ELSE addr.name
=============================================================================
