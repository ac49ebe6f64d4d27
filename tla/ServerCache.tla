---------------------------- MODULE ServerCache ----------------------------
(***************************************************************************)
(* database/redis_cache.go, RedisServerCache: the list of servers in redis. *)
(*                                                                          *)
(* A server is a member of a redis set, and a key of its own that expires   *)
(* when it is not set again.  Each method sends several commands; redis     *)
(* runs one command at a time, from any caller.  A command may fail, and a  *)
(* caller may stop between two.  Nothing in the repository calls these      *)
(* methods: who calls them is left open, but for what Fairness names.       *)
(***************************************************************************)
EXTENDS Naturals

CONSTANTS Server,   \* each calls SetServer and DelServer for itself
          Cleaner,  \* those that call Clean
          Reader,   \* those that call GetServers
          None,
          MaxFault  \* bound: how many commands fail

ASSUME CacheAssumption == None \notin Server /\ MaxFault \in Nat

VARIABLES
  serverList, \* Server_List; Server_Down_List is never read
  keys,       \* the servers whose key has not expired
  server,     \* each server's next command: "idle", "set", "del" or "gone"
  cleaner,    \* Clean: members still to test, and the one found expired
  reader,     \* GetServers: members still to get, what was found, whose GET failed
  seen,       \* servers listed and alive all through a call of GetServers, and
              \* those that were alive at some time of it
  faults

cacheVars == <<serverList, keys, server, cleaner, reader, seen, faults>>

CacheInit ==
  /\ serverList = {} /\ keys = {} /\ server = [s \in Server |-> "idle"]
  /\ cleaner = [c \in Cleaner |-> [at |-> "idle", left |-> {}, cur |-> None]]
  /\ reader = [r \in Reader |-> [at |-> "idle", left |-> {}, found |-> {}, missed |-> {}]]
  /\ seen = [r \in Reader |-> [always |-> {}, ever |-> {}]]
  /\ faults = 0

Fault == faults < MaxFault /\ faults' = faults + 1
Goto(s, at) == server' = [server EXCEPT ![s] = at]

-----------------------------------------------------------------------------
(* SetServer: SADD, then SET with its time to live; an error ends it.       *)
SAdd(s) ==
  /\ server[s] = "idle" /\ Goto(s, "set") /\ serverList' = serverList \cup {s}
  /\ UNCHANGED <<keys, cleaner, reader, faults>>

Set(s) ==
  /\ server[s] = "set" /\ Goto(s, "idle")
  /\ \/ keys' = keys \cup {s} /\ UNCHANGED faults
     \/ Fault /\ UNCHANGED keys
  /\ UNCHANGED <<serverList, cleaner, reader>>

(* DelServer: SMOVE, whose error nobody looks at, then DEL.                 *)
SMoveDel(s) ==
  /\ server[s] = "idle" /\ Goto(s, "del")
  /\ \/ serverList' = serverList \ {s} /\ UNCHANGED faults
     \/ Fault /\ UNCHANGED serverList
  /\ UNCHANGED <<keys, cleaner, reader>>

Del(s) ==
  /\ server[s] = "del" /\ Goto(s, "idle")
  /\ \/ keys' = keys \ {s} /\ UNCHANGED faults
     \/ Fault /\ UNCHANGED keys
  /\ UNCHANGED <<serverList, cleaner, reader>>

(* The server stops, perhaps between two commands; redis drops a key whose  *)
(* time has come.                                                           *)
Stop(s) ==
  /\ server[s] # "gone" /\ Goto(s, "gone")
  /\ UNCHANGED <<serverList, keys, cleaner, reader, faults>>

Expire(s) ==
  /\ s \in keys /\ keys' = keys \ {s}
  /\ UNCHANGED <<serverList, server, cleaner, reader, faults>>

-----------------------------------------------------------------------------
(* Clean: SMEMBERS; for each member EXISTS, whose error counts as no, and   *)
(* SMOVE of those that do not; DEL of the set they were moved to.           *)
CleanMembers(c) ==
  /\ cleaner[c].at = "idle"
  /\ cleaner' = [cleaner EXCEPT ![c].at = "exists", ![c].left = serverList]
  /\ UNCHANGED <<serverList, keys, server, reader, faults>>

ExpiredOrNot(s) == TRUE  \* slip: what EXISTS answers is not looked at
NeverExpired(s) == FALSE  \* slip: the test is the other way round
Expired(s) == s \notin keys
CleanExists(c, s) ==
  /\ cleaner[c].at = "exists" /\ s \in cleaner[c].left
  /\ \/ /\ Expired(s) /\ UNCHANGED faults
        /\ cleaner' = [cleaner EXCEPT ![c].at = "move", ![c].cur = s]
     \/ /\ ~Expired(s) /\ UNCHANGED faults
        /\ cleaner' = [cleaner EXCEPT ![c].left = @ \ {s}]
     \/ /\ Fault /\ cleaner' = [cleaner EXCEPT ![c].at = "move", ![c].cur = s]
  /\ UNCHANGED <<serverList, keys, server, reader>>

CleanMove(c) ==
  /\ cleaner[c].at = "move"
  /\ \/ serverList' = serverList \ {cleaner[c].cur} /\ UNCHANGED faults
     \/ Fault /\ UNCHANGED serverList
  /\ cleaner' = [cleaner EXCEPT ![c].at = "exists", ![c].cur = None,
                                ![c].left = @ \ {cleaner[c].cur}]
  /\ UNCHANGED <<keys, server, reader>>

CleanEnd(c) ==
  /\ cleaner[c].at = "exists" /\ cleaner[c].left = {}
  /\ cleaner' = [cleaner EXCEPT ![c].at = "idle"]
  /\ UNCHANGED <<serverList, keys, server, reader, faults>>

-----------------------------------------------------------------------------
(* GetServers: SMEMBERS, then GET of each; one that cannot be had is left   *)
(* out.                                                                     *)
GetMembers(r) ==
  /\ reader[r].at # "get"
  /\ reader' = [reader EXCEPT ![r] = [at |-> "get", left |-> serverList, found |-> {},
                                        missed |-> {}]]
  /\ UNCHANGED <<serverList, keys, server, cleaner, faults>>

SkipAll(r, s) == {}  \* slip: the first error ends the loop
Skip(r, s) == reader[r].left \ {s}
Get(r, s) ==
  /\ reader[r].at = "get" /\ s \in reader[r].left
  /\ \/ /\ s \in keys /\ UNCHANGED faults
        /\ reader' = [reader EXCEPT ![r].left = @ \ {s}, ![r].found = @ \cup {s}]
     \/ /\ s \notin keys /\ UNCHANGED faults
        /\ reader' = [reader EXCEPT ![r].left = Skip(r, s)]
     \/ /\ Fault
        /\ reader' = [reader EXCEPT ![r].left = Skip(r, s), ![r].missed = @ \cup {s}]
  /\ UNCHANGED <<serverList, keys, server, cleaner>>

GetReturn(r) ==
  /\ reader[r].at = "get" /\ reader[r].left = {}
  /\ reader' = [reader EXCEPT ![r].at = "done"]
  /\ UNCHANGED <<serverList, keys, server, cleaner, faults>>

-----------------------------------------------------------------------------
Register(s) == SAdd(s) \/ Set(s) \/ SMoveDel(s) \/ Del(s)
Clean(c) == \/ CleanMembers(c) \/ CleanMove(c) \/ CleanEnd(c)
            \/ \E s \in Server : CleanExists(c, s)
GetServers(r) == GetMembers(r) \/ GetReturn(r) \/ \E s \in Server : Get(r, s)

(* What a call of GetServers could have seen.                               *)
Observe ==
  seen' = [r \in Reader |->
    IF reader'[r].at # "get" THEN seen[r]
    ELSE IF reader[r].at # "get" THEN [always |-> serverList \cap keys, ever |-> keys]
    ELSE [always |-> seen[r].always \cap serverList' \cap keys',
          ever |-> seen[r].ever \cup keys']]

CacheNext ==
  /\ \/ \E s \in Server : Register(s) \/ Stop(s) \/ Expire(s)
     \/ \E c \in Cleaner : Clean(c)
     \/ \E r \in Reader : GetServers(r)
  /\ Observe

(* A call of a server that goes on runs to its end, the key of one that     *)
(* stopped expires, and somebody calls Clean again and again.               *)
CacheFairness ==
  /\ \A s \in Server : WF_cacheVars((Set(s) \/ Del(s)) /\ Observe)
  /\ \A s \in Server : WF_cacheVars(server[s] = "gone" /\ Expire(s) /\ Observe)
  /\ \A c \in Cleaner : WF_cacheVars(Clean(c) /\ Observe)

CacheSpec == CacheInit /\ [][CacheNext]_cacheVars
FairCacheSpec == CacheSpec /\ CacheFairness

-----------------------------------------------------------------------------
(* GetServers, whose commands interleave with all others, returns every     *)
(* server that was listed and alive all through the call, but for those     *)
(* whose own GET failed, and none that was not alive at any time of it.     *)
ReadsWhatWasThere ==
  \A r \in Reader : reader[r].at = "done" =>
    /\ seen[r].always \subseteq reader[r].found \cup reader[r].missed
    /\ reader[r].found \subseteq seen[r].ever

(* A server whose key is set again in time, so that it does not expire any  *)
(* more, is in the list for good, although Clean may remove it by a test    *)
(* that is out of date.                                                     *)
AliveListed ==
  \A s \in Server :
    (<>[](s \in keys) /\ []<>(server[s] = "set")) => <>[](s \in serverList)

(* A server that stopped, wherever it stopped, leaves the list for good.    *)
GoneForgotten == \A s \in Server : (<>[](server[s] = "gone")) => <>[](s \notin serverList)

-----------------------------------------------------------------------------
(* redis_cache.go:141: "clean expired server": what Clean removes from the  *)
(* list has expired.                                                        *)
OnlyExpiredCleaned ==
  [][\A c \in Cleaner : CleanMove(c) =>
       \A s \in serverList \ serverList' : s \notin keys]_cacheVars
=============================================================================
