---------------------------- MODULE Tools_proofs ----------------------------
(***************************************************************************)
(* The parts that MCTools checks, for all values of their constants.       *)
(*                                                                         *)
(* TestRun: the requests of a file of createTest succeed and checkoutput   *)
(* judges the responses rightly, for any clients, keys and lengths of      *)
(* files and servers that are right or wrong in their values.              *)
(*                                                                         *)
(* SortedSet implements ScoreMap, for all names and scores.                *)
(*                                                                         *)
(* FdeSelect implements FdeInterest, for any finite set of descriptors.    *)
(***************************************************************************)
EXTENDS TestRun, SortedSet, FdeSelect, FiniteSetTheorems, SequenceTheorems, NatInduction

-----------------------------------------------------------------------------
(* TestRun: the types of what the clients and the server keep. *)
RunTypes ==
  /\ file \in [Clients -> Seq(Line)]
  /\ keymap \in [Clients -> SUBSET Keys]
  /\ intended \in [Clients -> BOOLEAN]
  /\ linecount \in [Clients -> Nat]
  /\ msgs_sent \in [Clients -> Nat]
  /\ at \in [Clients -> {"parse", "sending", "recv", "done"}]
  /\ request \in [Clients -> {NoMsg} \cup SendMessage]
  /\ pending \in [Clients -> BOOLEAN]
  /\ reply \in [Clients -> {NoMsg} \cup ResponseMessage]
  /\ table \in Table

(* In the first pass the lines are counted and kept; later ones find the   *)
(* line they read among those.                                             *)
InvLines ==
  \A c \in Clients :
    /\ msgs_sent[c] <= TestCount[c] =>
         /\ linecount[c] = msgs_sent[c]
         /\ msgs_sent[c] <= Len(file[c]) \/ MsgsPerConnection - TestCount[c] <= Len(file[c])
    /\ msgs_sent[c] >= TestCount[c] =>
         /\ linecount[c] <= TestCount[c]
         /\ msgs_sent[c] > TestCount[c] => linecount[c] <= msgs_sent[c] - TestCount[c]
         /\ TestCount[c] <= Len(file[c]) \/ MsgsPerConnection - TestCount[c] <= Len(file[c])

(* A client uses no key but its own. *)
InvOwn ==
  \A c \in Clients :
    /\ keymap[c] \subseteq KeysOf[c]
    /\ \A i \in 1..Len(file[c]) : file[c][i].key \in KeysOf[c]
    /\ pending[c] =>
         /\ request[c] \in SendMessage
         /\ request[c].operation \in Operation /\ request[c].key \in KeysOf[c]

(* A client waits for the response to its request before it goes on. *)
InvAt ==
  \A c \in Clients : pending[c] => at[c] \in {"sending", "recv"} /\ reply[c] = NoMsg

(* The keymap is what the table has of the client's keys, once the request *)
(* under way is served; and that will succeed.                             *)
Agrees(tbl, c) == \A k \in KeysOf[c] : contains(tbl, k) <=> k \in keymap[c]

InvKeymap ==
  \A c \in Clients :
    Plain(c) =>
      IF pending[c]
      THEN Result(table, request[c]) /\ Agrees(TableAfter(table, request[c]), c)
      ELSE Agrees(table, c)

InvRun == RunTypes /\ InvLines /\ InvOwn /\ InvAt /\ InvKeymap /\ InvSucceeds

-----------------------------------------------------------------------------
(* What a generated line is: it follows from the keymap, unless it is      *)
(* meant to fail.                                                          *)
IsRequest(r, keys, own) ==
  /\ r.operation \in Operation /\ r.key \in own /\ r.keymap \subseteq own
  /\ r.fails \in BOOLEAN
  /\ ~r.fails =>
       \/ r.operation = "PUT" /\ r.key \notin keys /\ r.keymap = keys \cup {r.key}
       \/ r.operation \in {"GET", "UPDATE"} /\ r.key \in keys /\ r.keymap = keys
       \/ r.operation = "DELETE" /\ r.key \in keys /\ r.keymap = keys \ {r.key}

LEMMA WritesAreRequests ==
  ASSUME NEW own, NEW keys, keys \subseteq own, NEW key \in own,
         NEW r \in WriteRequests(keys, key)
  PROVE  IsRequest(r, keys, own)
  <1> USE DEF Generated, Failing, IsRequest, Operation
  <1>1. CASE key \in keys
    <2>1. r = Generated("UPDATE", key, keys)
      BY <1>1 DEF WriteRequests
    <2> QED
      BY <1>1, <2>1
  <1>2. CASE key \notin keys
    <2>1. CASE r = Generated("PUT", key, keys \cup {key})
      BY <1>2, <2>1
    <2>2. CASE \E k \in keys : r = Generated("UPDATE", k, keys)
      BY <2>2
    <2>3. CASE \E k \in keys : r = Failing("PUT", k, keys)
      BY <2>3
    <2>4. CASE r = Failing("UPDATE", key, keys)
      BY <2>4
    <2> HIDE DEF Generated, Failing, IsRequest
    <2> QED
      BY <1>2, <2>1, <2>2, <2>3, <2>4 DEF WriteRequests
  <1> QED
    BY <1>1, <1>2

LEMMA RequestsAreRequests ==
  ASSUME NEW own, NEW keys, keys \subseteq own, NEW key \in own,
         NEW r \in Requests(keys, key)
  PROVE  IsRequest(r, keys, own)
  <1>1. CASE r \in WriteRequests(keys, key)
    BY <1>1, WritesAreRequests
  <1>2. CASE r \in DeleteRequests(keys, key)
    <2>1. CASE r \in WriteRequests(keys, key)
      BY <2>1, WritesAreRequests
    <2>2. CASE r \notin WriteRequests(keys, key)
      <3>1. \E k \in keys : r = Generated("DELETE", k, keys \ {k})
        BY <1>2, <2>2 DEF DeleteRequests
      <3> QED
        BY <3>1 DEF Generated, IsRequest, Operation
    <2> QED
      BY <2>1, <2>2
  <1>3. CASE r \in ReadRequests(keys, key)
    <2>1. CASE r \in WriteRequests(keys, key)
      BY <2>1, WritesAreRequests
    <2>2. CASE r \notin WriteRequests(keys, key)
      <3>1. \/ \E k \in keys : r = Generated("GET", k, keys)
            \/ r = Failing("GET", key, keys)
        BY <1>3, <2>2 DEF ReadRequests
      <3>2. CASE \E k \in keys : r = Generated("GET", k, keys)
        BY <3>2 DEF Generated, IsRequest, Operation
      <3>3. CASE r = Failing("GET", key, keys)
        BY <3>3 DEF Failing, IsRequest, Operation
      <3> QED
        BY <3>1, <3>2, <3>3
    <2> QED
      BY <2>1, <2>2
  <1> QED
    BY <1>1, <1>2, <1>3 DEF Requests

LEMMA LinesAreRequests ==
  ASSUME InvRun, NEW c \in Clients, NEW new \in NewLines(c)
  PROVE  new \in Line /\ IsRequest(new, keymap[c], KeysOf[c])
  <1>1. PICK key \in KeysOf[c] : \E r \in Requests(keymap[c], key) :
          \E v \in (IF r.operation \in {"PUT", "UPDATE"} THEN TestValues ELSE Leftover) :
             new = [operation |-> r.operation, key |-> r.key, value |-> v,
                    keymap |-> r.keymap, fails |-> r.fails]
    BY DEF NewLines
  <1>2. PICK r \in Requests(keymap[c], key) :
          \E v \in (IF r.operation \in {"PUT", "UPDATE"} THEN TestValues ELSE Leftover) :
             new = [operation |-> r.operation, key |-> r.key, value |-> v,
                    keymap |-> r.keymap, fails |-> r.fails]
    BY <1>1
  <1>3. PICK v \in (IF r.operation \in {"PUT", "UPDATE"} THEN TestValues ELSE Leftover) :
          new = [operation |-> r.operation, key |-> r.key, value |-> v,
                 keymap |-> r.keymap, fails |-> r.fails]
    BY <1>2
  <1>4. keymap[c] \subseteq KeysOf[c] /\ KeysOf[c] \subseteq Keys
    BY RunAssumption DEF InvRun, InvOwn
  <1>5. IsRequest(r, keymap[c], KeysOf[c])
    BY <1>4, RequestsAreRequests
  <1>6. IsRequest(new, keymap[c], KeysOf[c])
    BY <1>3, <1>5 DEF IsRequest
  <1>7. v \in Values
    BY RunAssumption
  <1>8. new \in Line
    BY <1>3, <1>4, <1>5, <1>7 DEF Line, IsRequest
  <1> QED
    BY <1>6, <1>8

-----------------------------------------------------------------------------
(* The library on a request that is as the keymap has it. *)
LEMMA RequestSucceeds ==
  ASSUME NEW tbl \in Table, NEW pkt \in SendMessage, NEW own, own \subseteq Keys,
         NEW keys, \A k \in own : contains(tbl, k) <=> k \in keys,
         NEW r, IsRequest(r, keys, own), ~r.fails,
         pkt.operation = r.operation, pkt.key = r.key
  PROVE  /\ Result(tbl, pkt)
         /\ \A k \in own : contains(TableAfter(tbl, pkt), k) <=> k \in r.keymap
  <1>1. pkt.key \in Keys /\ pkt.value \in Values /\ pkt.value # Absent
    BY AbsentAssumption DEF SendMessage
  <1>2. CASE pkt.operation = "PUT"
    BY <1>1, <1>2 DEF IsRequest, Result, TableAfter, insert, contains, Table
  <1>3. CASE pkt.operation = "GET"
    BY <1>1, <1>3 DEF IsRequest, Result, TableAfter
  <1>4. CASE pkt.operation = "UPDATE"
    BY <1>1, <1>4 DEF IsRequest, Result, TableAfter, update, contains, Table
  <1>5. CASE pkt.operation = "DELETE"
    BY <1>1, <1>5 DEF IsRequest, Result, TableAfter, erase, contains, Table
  <1> QED
    BY <1>2, <1>3, <1>4, <1>5 DEF IsRequest

(* A request changes the table at its key only. *)
LEMMA OthersAreKept ==
  ASSUME NEW tbl \in Table, NEW pkt \in SendMessage, pkt.operation \in Operation
  PROVE  /\ TableAfter(tbl, pkt) \in Table
         /\ \A k \in Keys \ {pkt.key} : TableAfter(tbl, pkt)[k] = tbl[k]
  BY DEF TableAfter, insert, erase, update, contains, Table, SendMessage, Operation

(* What a request does at its own keys depends on those only. *)
LEMMA OwnKeysDecide ==
  ASSUME NEW t1 \in Table, NEW t2 \in Table, NEW pkt \in SendMessage,
         pkt.operation \in Operation, NEW own, own \subseteq Keys, pkt.key \in own,
         \A k \in own : t1[k] = t2[k]
  PROVE  /\ Result(t1, pkt) <=> Result(t2, pkt)
         /\ \A k \in own : TableAfter(t1, pkt)[k] = TableAfter(t2, pkt)[k]
  BY DEF Result, TableAfter, insert, erase, update, contains, Table, SendMessage, Operation

-----------------------------------------------------------------------------
LEMMA CountFacts ==
  /\ TestCount \in [Clients -> Nat \ {0}] /\ MsgsPerConnection \in Nat
  /\ \A c \in Clients : KeysOf[c] \subseteq Keys
  /\ \A c, d \in Clients : c # d => KeysOf[c] \cap KeysOf[d] = {}
  BY RunAssumption

LEMMA RunInitInv == RunInit => InvRun
  <1> SUFFICES ASSUME RunInit PROVE InvRun
    OBVIOUS
  <1> USE CountFacts DEF RunInit
  <1>1. RunTypes
    BY DEF RunTypes, Table, EmptyTable
  <1>2. InvLines
    BY DEF InvLines
  <1>3. InvOwn /\ InvAt
    BY DEF InvOwn, InvAt
  <1>4. InvKeymap /\ InvSucceeds
    BY DEF InvKeymap, Agrees, contains, EmptyTable, InvSucceeds
  <1> QED
    BY <1>1, <1>2, <1>3, <1>4 DEF InvRun

(* The steps that move a client on and leave its request alone. *)
LEMMA MovesKeep ==
  ASSUME InvRun, NEW c \in Clients, Done(c) \/ Sent(c) \/ Received(c)
  PROVE  InvRun'
  <1>1. UNCHANGED <<file, keymap, intended, linecount, msgs_sent, request, table, pending, reply>>
    BY DEF Done, Sent, Received, Begins, clientVars, serverVars
  <1>2. at' \in [Clients -> {"parse", "sending", "recv", "done"}]
    BY DEF InvRun, RunTypes, Done, Sent, Received, Goto
  <1>3. InvAt'
    <2>1. CASE Done(c)
      BY <1>1, <2>1 DEF InvRun, InvAt, RunTypes, Done, Goto
    <2>2. CASE Sent(c)
      BY <1>1, <2>2 DEF InvRun, InvAt, RunTypes, Sent, Goto
    <2>3. CASE Received(c)
      BY <1>1, <2>3 DEF InvRun, InvAt, RunTypes, Received, Goto
    <2> QED
      BY <2>1, <2>2, <2>3
  <1>4. RunTypes' /\ InvLines' /\ InvOwn'
    BY <1>1, <1>2 DEF InvRun, RunTypes, InvLines, InvOwn
  <1>5. InvKeymap' /\ InvSucceeds'
    BY <1>1 DEF InvRun, InvKeymap, Agrees, InvSucceeds, Plain
  <1> QED
    BY <1>3, <1>4, <1>5 DEF InvRun

(* A request is served: the other clients' keys stay as they are. *)
LEMMA ServeKeeps ==
  ASSUME InvRun, NEW c \in Clients, Serve(c)
  PROVE  InvRun'
  <1> USE CountFacts
  <1>1. /\ pending[c]
        /\ pending' = [pending EXCEPT ![c] = FALSE]
        /\ table' = TableAfter(table, request[c])
        /\ UNCHANGED <<file, keymap, intended, linecount, msgs_sent, request, at>>
    BY DEF Serve, clientVars
  <1>2. PICK v : /\ v \in Values
                 /\ reply' = [reply EXCEPT ![c] = [ReplyTo(table, request[c]) EXCEPT !.value = v]]
    <2>1. request[c] \in SendMessage /\ request[c].key \in Keys
      BY <1>1 DEF InvRun, InvOwn
    <2>2. ReplyTo(table, request[c]).value \in Values
      BY <2>1 DEF InvRun, RunTypes, ReplyTo, contains, Table, SendMessage
    <2> QED
      BY <2>2 DEF Serve
  <1>3. /\ request[c] \in SendMessage
        /\ request[c].operation \in Operation /\ request[c].key \in KeysOf[c]
    BY <1>1 DEF InvRun, InvOwn
  <1>4. /\ table \in Table /\ table' \in Table
        /\ \A k \in Keys \ {request[c].key} : table'[k] = table[k]
    BY <1>1, <1>3, OthersAreKept DEF InvRun, RunTypes
  <1>5. /\ reply'[c] \in ResponseMessage
        /\ reply'[c].status_code = IF Result(table, request[c]) THEN "OK" ELSE "ERROR"
    BY <1>2, <1>3 DEF InvRun, RunTypes, ReplyTo, ResponseMessage, StatusCode, SendMessage
  <1>6. RunTypes'
    <2>1. reply' \in [Clients -> {NoMsg} \cup ResponseMessage]
      BY <1>2, <1>5 DEF InvRun, RunTypes
    <2>2. pending' \in [Clients -> BOOLEAN]
      BY <1>1 DEF InvRun, RunTypes
    <2> QED
      BY <1>1, <1>4, <2>1, <2>2 DEF InvRun, RunTypes
  <1>7. InvLines' /\ InvOwn'
    BY <1>1 DEF InvRun, RunTypes, InvLines, InvOwn
  <1>8. InvAt'
    BY <1>1, <1>2 DEF InvRun, RunTypes, InvAt
  <1>9. InvKeymap'
    <2> SUFFICES ASSUME NEW d \in Clients, Plain(d)'
                 PROVE  IF pending'[d]
                          THEN Result(table', request[d]) /\ Agrees(TableAfter(table', request[d]), d)
                          ELSE Agrees(table', d)
      BY <1>1 DEF InvKeymap, Agrees
    <2>1. Plain(d)
      BY <1>1 DEF Plain
    <2>2. CASE d = c
      BY <1>1, <2>1, <2>2 DEF InvRun, RunTypes, InvKeymap
    <2>3. CASE d # c
      <3>1. pending'[d] = pending[d]
        BY <1>1, <2>3 DEF InvRun, RunTypes
      <3>2. \A k \in KeysOf[d] : table'[k] = table[k]
        BY <1>3, <1>4, <2>3
      <3>3. CASE ~pending[d]
        BY <2>1, <3>1, <3>2, <3>3 DEF InvRun, InvKeymap, Agrees, contains
      <3>4. CASE pending[d]
        <4>1. /\ request[d] \in SendMessage
              /\ request[d].operation \in Operation /\ request[d].key \in KeysOf[d]
          BY <3>4 DEF InvRun, InvOwn
        <4>2. /\ Result(table', request[d]) <=> Result(table, request[d])
              /\ \A k \in KeysOf[d] :
                   TableAfter(table', request[d])[k] = TableAfter(table, request[d])[k]
          BY <1>4, <3>2, <4>1, OwnKeysDecide
        <4>3. Result(table, request[d]) /\ Agrees(TableAfter(table, request[d]), d)
          BY <2>1, <3>4 DEF InvRun, InvKeymap
        <4> QED
          BY <3>1, <3>4, <4>2, <4>3 DEF Agrees, contains
      <3> QED
        BY <3>3, <3>4 DEF InvRun, RunTypes
    <2> QED
      BY <2>2, <2>3
  <1>10. InvSucceeds'
    <2> SUFFICES ASSUME NEW d \in Clients, Plain(d)', reply'[d] # NoMsg
                 PROVE  reply'[d].status_code = "OK"
      BY DEF InvSucceeds
    <2>1. Plain(d)
      BY <1>1 DEF Plain
    <2>2. CASE d = c
      BY <1>1, <1>5, <2>1, <2>2 DEF InvRun, InvKeymap
    <2>3. CASE d # c
      BY <1>2, <2>1, <2>3 DEF InvRun, RunTypes, InvSucceeds
    <2> QED
      BY <2>2, <2>3
  <1> QED
    BY <1>6, <1>7, <1>8, <1>9, <1>10 DEF InvRun

(* A line of the first pass: it is new, and the keymap follows it. *)
LEMMA FirstPassKeeps ==
  ASSUME InvRun, NEW c \in Clients, Send(c), msgs_sent[c] < TestCount[c]
  PROVE  InvRun'
  <1> USE CountFacts
  <1>1. /\ msgs_sent[c] < MsgsPerConnection /\ at[c] = "parse"
        /\ at' = [at EXCEPT ![c] = "sending"]
        /\ msgs_sent' = [msgs_sent EXCEPT ![c] = @ + 1]
        /\ pending' = [pending EXCEPT ![c] = TRUE]
        /\ reply' = [reply EXCEPT ![c] = NoMsg]
        /\ linecount' = [linecount EXCEPT ![c] = LineToRead(c)]
        /\ table' = table
    BY DEF Send, Goto, ParseLine
  <1>2. ~pending[c] /\ msgs_sent[c] \in Nat /\ TestCount[c] \in Nat
    BY <1>1 DEF InvRun, RunTypes, InvAt
  <1>3. PICK new \in NewLines(c) :
          /\ keymap' = [keymap EXCEPT ![c] = new.keymap]
          /\ intended' = [intended EXCEPT ![c] = @ \/ new.fails]
          /\ file' = IF Len(file[c]) < MsgsPerConnection - TestCount[c]
                       THEN [file EXCEPT ![c] = Append(@, new)] ELSE file
          /\ request' = [request EXCEPT ![c] = Parsed(c, new)]
    BY <1>2 DEF Send, ParseLine
  <1>4. new \in Line /\ IsRequest(new, keymap[c], KeysOf[c])
    BY LinesAreRequests
  <1>5. /\ Parsed(c, new) \in SendMessage
        /\ Parsed(c, new).operation = new.operation /\ Parsed(c, new).key = new.key
    BY <1>4 DEF Parsed, SendMessage, Line
  <1>6. /\ linecount[c] = msgs_sent[c] /\ LineToRead(c) = msgs_sent[c] + 1
        /\ file[c] \in Seq(Line)
        /\ msgs_sent[c] <= Len(file[c]) \/ MsgsPerConnection - TestCount[c] <= Len(file[c])
    BY <1>2 DEF InvRun, RunTypes, InvLines, LineToRead
  <1>7. /\ file'[c] \in Seq(Line)
        /\ file' \in [Clients -> Seq(Line)]
        /\ \A d \in Clients \ {c} : file'[d] = file[d]
        /\ msgs_sent[c] + 1 <= Len(file'[c]) \/ MsgsPerConnection - TestCount[c] <= Len(file'[c])
        /\ \A i \in 1..Len(file'[c]) :
             \/ i \in 1..Len(file[c]) /\ file'[c][i] = file[c][i]
             \/ file'[c][i] = new
    <2>1. file \in [Clients -> Seq(Line)]
      BY DEF InvRun, RunTypes
    <2>2. CASE Len(file[c]) < MsgsPerConnection - TestCount[c]
      <3>1. file'[c] = Append(file[c], new) /\ file' = [file EXCEPT ![c] = Append(@, new)]
        BY <1>3, <2>1, <2>2
      <3>2. /\ Append(file[c], new) \in Seq(Line)
            /\ Len(Append(file[c], new)) = Len(file[c]) + 1
            /\ \A i \in 1..Len(file[c]) + 1 :
                 Append(file[c], new)[i] = IF i = Len(file[c]) + 1 THEN new ELSE file[c][i]
        BY <1>4, <1>6
      <3>3. Len(file[c]) \in Nat
        BY <1>6
      <3> QED
        BY <1>2, <1>6, <2>1, <2>2, <3>1, <3>2, <3>3
    <2>3. CASE ~(Len(file[c]) < MsgsPerConnection - TestCount[c])
      <3>1. file' = file
        BY <1>3, <2>3
      <3>2. Len(file[c]) \in Nat /\ MsgsPerConnection - TestCount[c] \in Int
        BY <1>2, <1>6
      <3> QED
        BY <1>6, <2>1, <2>3, <3>1, <3>2
    <2> QED
      BY <2>2, <2>3
  <1>8. RunTypes'
    <2>1. keymap' \in [Clients -> SUBSET Keys] /\ intended' \in [Clients -> BOOLEAN]
      BY <1>3, <1>4 DEF InvRun, RunTypes, Line
    <2>2. linecount' \in [Clients -> Nat] /\ msgs_sent' \in [Clients -> Nat]
      BY <1>1, <1>2, <1>6 DEF InvRun, RunTypes
    <2>3. at' \in [Clients -> {"parse", "sending", "recv", "done"}]
      BY <1>1 DEF InvRun, RunTypes
    <2>4. /\ request' \in [Clients -> {NoMsg} \cup SendMessage]
          /\ pending' \in [Clients -> BOOLEAN]
          /\ reply' \in [Clients -> {NoMsg} \cup ResponseMessage]
      BY <1>1, <1>3, <1>5 DEF InvRun, RunTypes
    <2>5. table' \in Table
      BY <1>1 DEF InvRun, RunTypes
    <2> QED
      BY <1>7, <2>1, <2>2, <2>3, <2>4, <2>5 DEF RunTypes
  <1>9. InvLines'
    <2> SUFFICES ASSUME NEW d \in Clients
                 PROVE  /\ msgs_sent'[d] <= TestCount[d] =>
                             /\ linecount'[d] = msgs_sent'[d]
                             /\ msgs_sent'[d] <= Len(file'[d]) \/ MsgsPerConnection - TestCount[d] <= Len(file'[d])
                        /\ msgs_sent'[d] >= TestCount[d] =>
                             /\ linecount'[d] <= TestCount[d]
                             /\ msgs_sent'[d] > TestCount[d] => linecount'[d] <= msgs_sent'[d] - TestCount[d]
                             /\ TestCount[d] <= Len(file'[d]) \/ MsgsPerConnection - TestCount[d] <= Len(file'[d])
      BY DEF InvLines
    <2>1. CASE d = c
      <3>1. msgs_sent'[c] = msgs_sent[c] + 1 /\ linecount'[c] = msgs_sent[c] + 1
        BY <1>1, <1>6 DEF InvRun, RunTypes
      <3>2. Len(file'[c]) \in Nat
        BY <1>7
      <3> QED
        BY <1>2, <1>7, <2>1, <3>1, <3>2
    <2>2. CASE d # c
      <3>1. msgs_sent'[d] = msgs_sent[d] /\ linecount'[d] = linecount[d] /\ file'[d] = file[d]
        BY <1>1, <1>7, <2>2 DEF InvRun, RunTypes
      <3> QED
        BY <3>1 DEF InvRun, InvLines
    <2> QED
      BY <2>1, <2>2
  <1>10. InvOwn' /\ InvAt'
    <2>1. \A d \in Clients \ {c} :
            /\ keymap'[d] = keymap[d] /\ file'[d] = file[d] /\ pending'[d] = pending[d]
            /\ request'[d] = request[d] /\ at'[d] = at[d] /\ reply'[d] = reply[d]
      BY <1>1, <1>3, <1>7 DEF InvRun, RunTypes
    <2>2. /\ keymap'[c] = new.keymap /\ request'[c] = Parsed(c, new)
          /\ at'[c] = "sending" /\ reply'[c] = NoMsg
      BY <1>1, <1>3 DEF InvRun, RunTypes
    <2>3. InvAt'
      BY <2>1, <2>2 DEF InvRun, InvAt
    <2>4. \A i \in 1..Len(file'[c]) : file'[c][i].key \in KeysOf[c]
      BY <1>4, <1>7 DEF InvRun, InvOwn, IsRequest
    <2>5. InvOwn'
      BY <1>4, <1>5, <2>1, <2>2, <2>4 DEF InvRun, InvOwn, IsRequest
    <2> QED
      BY <2>3, <2>5
  <1>11. InvKeymap'
    <2> SUFFICES ASSUME NEW d \in Clients, Plain(d)'
                 PROVE  IF pending'[d]
                          THEN /\ Result(table, request'[d])
                               /\ \A k \in KeysOf[d] :
                                    contains(TableAfter(table, request'[d]), k) <=> k \in keymap'[d]
                          ELSE \A k \in KeysOf[d] : contains(table, k) <=> k \in keymap'[d]
      BY <1>1 DEF InvKeymap, Agrees
    <2>1. CASE d = c
      <3>1. /\ pending'[c] /\ request'[c] = Parsed(c, new) /\ keymap'[c] = new.keymap
            /\ ~intended'[c] /\ (intended'[c] <=> intended[c] \/ new.fails)
        BY <1>1, <1>3, <2>1 DEF InvRun, RunTypes, Plain
      <3>2. Plain(c) /\ ~new.fails
        BY <1>2, <3>1 DEF Plain
      <3>3. table \in Table /\ \A k \in KeysOf[c] : contains(table, k) <=> k \in keymap[c]
        BY <1>2, <3>2 DEF InvRun, RunTypes, InvKeymap, Agrees
      <3> QED
        BY <1>4, <1>5, <2>1, <3>1, <3>2, <3>3, RequestSucceeds
    <2>2. CASE d # c
      <3>1. /\ pending'[d] = pending[d] /\ request'[d] = request[d] /\ keymap'[d] = keymap[d]
            /\ intended'[d] = intended[d] /\ msgs_sent'[d] = msgs_sent[d]
        BY <1>1, <1>3, <2>2 DEF InvRun, RunTypes
      <3>2. Plain(d)
        BY <3>1 DEF Plain
      <3> QED
        BY <3>1, <3>2 DEF InvRun, InvKeymap, Agrees
    <2> QED
      BY <2>1, <2>2
  <1>12. InvSucceeds'
    <2> SUFFICES ASSUME NEW d \in Clients, Plain(d)', reply'[d] # NoMsg
                 PROVE  reply'[d].status_code = "OK"
      BY DEF InvSucceeds
    <2>1. d # c
      BY <1>1 DEF InvRun, RunTypes
    <2>2. reply'[d] = reply[d] /\ intended'[d] = intended[d] /\ msgs_sent'[d] = msgs_sent[d]
      BY <1>1, <1>3, <2>1 DEF InvRun, RunTypes
    <2> QED
      BY <2>2 DEF InvRun, InvSucceeds, Plain
  <1> QED
    BY <1>8, <1>9, <1>10, <1>11, <1>12 DEF InvRun

(* A line of a later pass is one that was kept; success is not claimed. *)
LEMMA LaterPassKeeps ==
  ASSUME InvRun, NEW c \in Clients, Send(c), msgs_sent[c] >= TestCount[c]
  PROVE  InvRun'
  <1> USE CountFacts
  <1> DEFINE n == LineToRead(c)
             line == file[c][n]
  <1>1. /\ msgs_sent[c] < MsgsPerConnection /\ at[c] = "parse"
        /\ at' = [at EXCEPT ![c] = "sending"]
        /\ msgs_sent' = [msgs_sent EXCEPT ![c] = @ + 1]
        /\ pending' = [pending EXCEPT ![c] = TRUE]
        /\ reply' = [reply EXCEPT ![c] = NoMsg]
        /\ linecount' = [linecount EXCEPT ![c] = n]
        /\ table' = table
    BY DEF Send, Goto, ParseLine
  <1>2. /\ msgs_sent[c] \in Nat /\ TestCount[c] \in Nat \ {0} /\ linecount[c] \in Nat
        /\ file[c] \in Seq(Line) /\ Len(file[c]) \in Nat
    BY DEF InvRun, RunTypes
  <1>3. /\ request' = [request EXCEPT ![c] = Parsed(c, line)]
        /\ file' = file /\ keymap' = keymap /\ intended' = intended
    BY <1>2 DEF Send, ParseLine
  <1>4. /\ linecount[c] <= TestCount[c]
        /\ msgs_sent[c] = TestCount[c] => linecount[c] = TestCount[c]
        /\ msgs_sent[c] > TestCount[c] => linecount[c] <= msgs_sent[c] - TestCount[c]
        /\ TestCount[c] <= Len(file[c]) \/ MsgsPerConnection - TestCount[c] <= Len(file[c])
    BY <1>2 DEF InvRun, InvLines
  <1>5. /\ n \in Nat \ {0} /\ n <= TestCount[c]
        /\ n <= msgs_sent[c] + 1 - TestCount[c]
    <2>1. CASE linecount[c] >= TestCount[c]
      BY <1>2, <2>1 DEF LineToRead
    <2>2. CASE linecount[c] < TestCount[c]
      BY <1>2, <1>4, <2>2 DEF LineToRead
    <2> QED
      BY <1>2, <2>1, <2>2
  <1>6. n \in 1..Len(file[c])
    <2> HIDE DEF n
    <2> QED
      BY <1>1, <1>2, <1>4, <1>5
  <1>7. line \in Line /\ line.key \in KeysOf[c]
    <2> HIDE DEF n
    <2> QED
      BY <1>2, <1>6 DEF InvRun, InvOwn
  <1>8. /\ Parsed(c, line) \in SendMessage
        /\ Parsed(c, line).operation \in Operation /\ Parsed(c, line).key \in KeysOf[c]
    <2> HIDE DEF line
    <2> QED
      BY <1>7 DEF Parsed, SendMessage, Line
  <1> HIDE DEF n, line
  <1>9. RunTypes'
    BY <1>1, <1>2, <1>3, <1>5, <1>8 DEF InvRun, RunTypes
  <1>10. InvLines'
    <2> SUFFICES ASSUME NEW d \in Clients
                 PROVE  /\ msgs_sent'[d] <= TestCount[d] =>
                             /\ linecount'[d] = msgs_sent'[d]
                             /\ msgs_sent'[d] <= Len(file[d]) \/ MsgsPerConnection - TestCount[d] <= Len(file[d])
                        /\ msgs_sent'[d] >= TestCount[d] =>
                             /\ linecount'[d] <= TestCount[d]
                             /\ msgs_sent'[d] > TestCount[d] => linecount'[d] <= msgs_sent'[d] - TestCount[d]
                             /\ TestCount[d] <= Len(file[d]) \/ MsgsPerConnection - TestCount[d] <= Len(file[d])
      BY <1>3 DEF InvLines
    <2>1. CASE d = c
      <3>1. msgs_sent'[c] = msgs_sent[c] + 1 /\ linecount'[c] = n
        BY <1>1 DEF InvRun, RunTypes
      <3> QED
        BY <1>2, <1>4, <1>5, <2>1, <3>1
    <2>2. CASE d # c
      <3>1. msgs_sent'[d] = msgs_sent[d] /\ linecount'[d] = linecount[d]
        BY <1>1, <2>2 DEF InvRun, RunTypes
      <3> QED
        BY <3>1 DEF InvRun, InvLines
    <2> QED
      BY <2>1, <2>2
  <1>11. InvOwn' /\ InvAt'
    <2>1. \A d \in Clients \ {c} :
            /\ pending'[d] = pending[d] /\ request'[d] = request[d]
            /\ at'[d] = at[d] /\ reply'[d] = reply[d]
      BY <1>1, <1>3 DEF InvRun, RunTypes
    <2>2. /\ request'[c] = Parsed(c, line) /\ at'[c] = "sending" /\ reply'[c] = NoMsg
      BY <1>1, <1>3 DEF InvRun, RunTypes
    <2>3. InvAt'
      BY <2>1, <2>2 DEF InvRun, InvAt
    <2>4. InvOwn'
      BY <1>3, <1>8, <2>1, <2>2 DEF InvRun, InvOwn
    <2> QED
      BY <2>3, <2>4
  <1>12. \A d \in Clients : Plain(d)' =>
           /\ d # c /\ Plain(d)
           /\ pending'[d] = pending[d] /\ request'[d] = request[d] /\ reply'[d] = reply[d]
    <2> SUFFICES ASSUME NEW d \in Clients, Plain(d)'
                 PROVE  /\ d # c /\ Plain(d)
                        /\ pending'[d] = pending[d] /\ request'[d] = request[d] /\ reply'[d] = reply[d]
      OBVIOUS
    <2>1. ~intended[d] /\ msgs_sent'[d] <= TestCount[d]
      BY <1>3 DEF Plain
    <2>2. msgs_sent'[c] = msgs_sent[c] + 1
      BY <1>1 DEF InvRun, RunTypes
    <2>3. d # c
      BY <1>2, <2>1, <2>2
    <2> QED
      BY <1>1, <1>3, <2>1, <2>3 DEF InvRun, RunTypes, Plain
  <1>13. InvKeymap'
    BY <1>1, <1>3, <1>12 DEF InvRun, InvKeymap, Agrees
  <1>14. InvSucceeds'
    BY <1>12 DEF InvRun, InvSucceeds
  <1> QED
    BY <1>9, <1>10, <1>11, <1>13, <1>14 DEF InvRun

-----------------------------------------------------------------------------
LEMMA RunNextInv == InvRun /\ [RunNext]_runVars => InvRun'
  <1> SUFFICES ASSUME InvRun, [RunNext]_runVars
               PROVE  InvRun'
    OBVIOUS
  <1>1. ASSUME NEW c \in Clients, Send(c)
        PROVE  InvRun'
    <2>1. msgs_sent[c] < TestCount[c] \/ msgs_sent[c] >= TestCount[c]
      BY CountFacts DEF InvRun, RunTypes
    <2> QED
      BY <1>1, <2>1, FirstPassKeeps, LaterPassKeeps
  <1>2. ASSUME NEW c \in Clients, Done(c) \/ Sent(c) \/ Received(c)
        PROVE  InvRun'
    BY <1>2, MovesKeep
  <1>3. ASSUME NEW c \in Clients, Serve(c)
        PROVE  InvRun'
    BY <1>3, ServeKeeps
  <1>4. CASE UNCHANGED runVars
    <2>1. UNCHANGED <<file, keymap, intended, linecount, msgs_sent, at, request,
                      table, pending, reply>>
      BY <1>4 DEF runVars, clientVars, serverVars
    <2> QED
      BY <2>1 DEF InvRun, RunTypes, InvLines, InvOwn, InvAt, InvKeymap, Agrees,
                  InvSucceeds, Plain
  <1> QED
    BY <1>1, <1>2, <1>3, <1>4 DEF RunNext

(* createTest.c writes files whose requests all succeed unless it was told *)
(* to let some fail: for any number of clients that share no key, in       *)
(* whatever order the server takes their requests, until a client that has *)
(* come to the end of its file begins it again.                            *)
THEOREM SucceedsCorrect == RunSpec => []InvSucceeds
  <1>1. InvRun => InvSucceeds
    BY DEF InvRun
  <1> QED
    BY <1>1, RunInitInv, RunNextInv, PTL DEF RunSpec

-----------------------------------------------------------------------------
(* The types of what the tools keep. *)
ToolTypes ==
  /\ hashmap \in Table
  /\ unfinished \in [Clients -> BOOLEAN]
  /\ verdict \in [Clients -> {"none", "correct", "incorrect"}]
  /\ truth = [c \in Clients |-> truth[c]]
  /\ redo = [c \in Clients |-> redo[c]]
  /\ checkmap = [c \in Clients |-> checkmap[c]]

(* A request that is under way is for one of the client's own keys. *)
InvAsked ==
  \A c \in Clients :
    at[c] \in {"sending", "recv"} =>
      /\ request[c] \in SendMessage
      /\ request[c].operation \in Operation /\ request[c].key \in KeysOf[c]
      /\ ~pending[c] => reply[c] # NoMsg

(* redooutput has the beginning of the call a client is in, if strace has  *)
(* printed that, and nothing of an earlier one.                            *)
InvPieces ==
  \A c \in Clients :
    redo[c] = IF at[c] = "sending" /\ unfinished[c] THEN <<"send", request[c]>>
              ELSE IF at[c] = "recv" /\ unfinished[c] THEN <<"recv">>
              ELSE <<>>

(* checkoutput's map has what the table has of a client's keys; it may     *)
(* have more, since it does not erase.                                     *)
Has(map, tbl, c) == \A k \in KeysOf[c] : contains(tbl, k) => map[k] = tbl[k]

(* The table and the map when the request under way is done: it comes to   *)
(* the two in any order.                                                   *)
TableThen(c) == IF pending[c] THEN TableAfter(table, request[c]) ELSE table

MapThen(c) ==
  IF at[c] = "sending" THEN Replayed(hashmap, parseSend(request[c])) ELSE hashmap

(* The value of the library's response, and as much of it as checkoutput   *)
(* compares.                                                               *)
Answer(c) ==
  IF request[c].operation = "GET" THEN hashmap[request[c].key] ELSE request[c].value

Seen(c, value) == IF request[c].operation = "GET" THEN FirstHalf(value) ELSE value

Checked(c) ==
  /\ Has(MapThen(c), TableThen(c), c)
  /\ at[c] \in {"sending", "recv"} /\ request[c].operation = "GET" =>
       contains(table, request[c].key)
  /\ at[c] \in {"sending", "recv"} /\ ~pending[c] =>
       truth[c] = Answer(c) /\ reply[c].key = request[c].key
  /\ at[c] = "recv" =>
       checkmap[c] = [key |-> request[c].key, value |-> Seen(c, Answer(c))]
  /\ at[c] \in {"parse", "done"} /\ reply[c] # NoMsg =>
       verdict[c] = IF reply[c].value = Seen(c, truth[c]) THEN "correct" ELSE "incorrect"

InvChecked == \A c \in Clients : Plain(c) => Checked(c)

InvTools == ToolTypes /\ InvAsked /\ InvPieces /\ InvChecked

-----------------------------------------------------------------------------
(* Joining the pieces of a line. *)
LEMMA Joining ==
  ASSUME NEW a, NEW b
  PROVE  /\ <<>> \o <<>> = <<>> /\ <<>> \o << a >> = << a >> /\ <<>> \o <<a, b>> = <<a, b>>
         /\ <<a, b>> \o <<>> = <<a, b>> /\ << a >> \o << b >> = <<a, b>>
  <1>1. <<>> \o <<>> = <<>> /\ <<>> \o << a >> = << a >>
    OBVIOUS
  <1>2. <<>> \o <<a, b>> = <<a, b>>
    OBVIOUS
  <1>3. <<a, b>> \o <<>> = <<a, b>>
    OBVIOUS
  <1>4. << a >> \o << b >> = <<a, b>>
    <2> DEFINE S == {a, b}
               s == << a >>
               t == << b >>
    <2>1. s \in Seq(S) /\ t \in Seq(S) /\ <<a, b>> \in Seq(S)
      OBVIOUS
    <2>2. Len(s) = 1 /\ Len(t) = 1 /\ s[1] = a /\ t[1] = b
      OBVIOUS
    <2> HIDE DEF S, s, t
    <2>3. /\ s \o t \in Seq(S) /\ Len(s \o t) = 1 + 1
          /\ \A i \in 1..(1 + 1) : (s \o t)[i] = IF i <= 1 THEN s[i] ELSE t[i - 1]
      BY <2>1, <2>2, ConcatProperties
    <2>4. /\ Len(<<a, b>>) = 2
          /\ \A i \in 1..2 : <<a, b>>[i] = IF i <= 1 THEN a ELSE b
      OBVIOUS
    <2>5. Len(s \o t) = 2 /\ \A i \in 1..2 : (s \o t)[i] = IF i <= 1 THEN a ELSE b
      BY <2>2, <2>3
    <2>6. /\ Len(s \o t) = Len(<<a, b>>)
          /\ \A i \in 1..Len(s \o t) : (s \o t)[i] = <<a, b>>[i]
      <3> DEFINE u == s \o t
                 v == <<a, b>>
      <3>1. /\ Len(u) = 2 /\ Len(v) = 2
            /\ \A i \in 1..2 : u[i] = IF i <= 1 THEN a ELSE b
            /\ \A i \in 1..2 : v[i] = IF i <= 1 THEN a ELSE b
        BY <2>4, <2>5
      <3> HIDE DEF u, v
      <3>2. Len(u) = Len(v) /\ \A i \in 1..Len(u) : u[i] = v[i]
        BY <3>1
      <3> QED
        BY <3>2 DEF u, v
    <2>7. s \o t = <<a, b>>
      BY <2>1, <2>3, <2>6, SeqEqual, Zenon
    <2> QED
      BY <2>7 DEF s, t
  <1> QED
    BY <1>1, <1>2, <1>3, <1>4

LEMMA NoMsgIsNone == NoMsg \notin ResponseMessage
  <1> SUFFICES ASSUME NoMsg \in ResponseMessage PROVE FALSE
    OBVIOUS
  <1>1. DOMAIN NoMsg = {"operation"}
    BY DEF NoMsg
  <1>2. DOMAIN NoMsg = {"status_code", "keepalive", "key", "value"}
    BY DEF ResponseMessage
  <1> QED
    BY <1>1, <1>2

(* checkoutput reads the request that was sent. *)
LEMMA ParsedSend ==
  ASSUME NEW pkt \in SendMessage
  PROVE  /\ parseSend(pkt).operation = pkt.operation
         /\ parseSend(pkt).key = pkt.key /\ parseSend(pkt).value = pkt.value
  BY DEF parseSend, SendMessage

(* A request changes checkoutput's map at its key only, and what it does   *)
(* there depends on that key only.                                         *)
LEMMA ReplayIsLocal ==
  ASSUME NEW map \in Table, NEW pkt \in SendMessage
  PROVE  /\ Replayed(map, parseSend(pkt)) \in Table
         /\ \A k \in Keys \ {pkt.key} : Replayed(map, parseSend(pkt))[k] = map[k]
  <1>1. pkt.key \in Keys /\ pkt.value \in Values
    BY DEF SendMessage
  <1> QED
    BY <1>1, ParsedSend DEF Replayed, erase, Table

LEMMA OwnKeysReplay ==
  ASSUME NEW m1 \in Table, NEW m2 \in Table, NEW pkt \in SendMessage,
         NEW own, own \subseteq Keys, pkt.key \in own, \A k \in own : m1[k] = m2[k]
  PROVE  \A k \in own :
           Replayed(m1, parseSend(pkt))[k] = Replayed(m2, parseSend(pkt))[k]
  BY ParsedSend DEF Replayed, erase, Table

(* Where the library succeeds, the map follows the table. *)
LEMMA ReplayFollows ==
  ASSUME NEW map \in Table, NEW tbl \in Table, NEW pkt \in SendMessage,
         pkt.operation \in Operation, Result(tbl, pkt),
         NEW c \in Clients, pkt.key \in KeysOf[c], Has(map, tbl, c)
  PROVE  Has(Replayed(map, parseSend(pkt)), TableAfter(tbl, pkt), c)
  <1>1. /\ KeysOf[c] \subseteq Keys /\ pkt.key \in Keys /\ pkt.value \in Values
        /\ pkt.value # Absent
    BY CountFacts, AbsentAssumption DEF SendMessage
  <1> SUFFICES ASSUME NEW k \in KeysOf[c], TableAfter(tbl, pkt)[k] # Absent
               PROVE  Replayed(map, parseSend(pkt))[k] = TableAfter(tbl, pkt)[k]
    BY DEF Has, contains
  <1>2. tbl[k] # Absent => map[k] = tbl[k]
    BY DEF Has, contains
  <1>3. CASE pkt.operation = "GET"
    BY <1>1, <1>2, <1>3, ParsedSend DEF Replayed, TableAfter
  <1>4. CASE pkt.operation = "PUT"
    BY <1>1, <1>2, <1>4, ParsedSend DEF Replayed, TableAfter, insert, Result, contains, Table
  <1>5. CASE pkt.operation = "UPDATE"
    BY <1>1, <1>2, <1>5, ParsedSend DEF Replayed, TableAfter, update, Result, contains, Table
  <1>6. CASE pkt.operation = "DELETE"
    <2>1. tbl[pkt.key] # Absent /\ map[pkt.key] # Absent
      BY <1>6 DEF Result, contains, Has
    <2>2. Replayed(map, parseSend(pkt)) = map
      BY <1>6, <2>1, ParsedSend DEF Replayed
    <2>3. TableAfter(tbl, pkt) = [tbl EXCEPT ![pkt.key] = Absent]
      BY <1>6 DEF TableAfter, erase
    <2> QED
      BY <1>1, <1>2, <2>2, <2>3 DEF Table
  <1> QED
    BY <1>3, <1>4, <1>5, <1>6 DEF Operation

-----------------------------------------------------------------------------
LEMMA ToolsInit == RunInit => InvTools
  <1> SUFFICES ASSUME RunInit PROVE InvTools
    OBVIOUS
  <1>1. ToolTypes
    BY DEF RunInit, ToolTypes, EmptyMap, Table
  <1>2. InvAsked /\ InvPieces
    BY DEF RunInit, InvAsked, InvPieces
  <1>3. InvChecked
    <2> SUFFICES ASSUME NEW c \in Clients PROVE Checked(c)
      BY DEF InvChecked
    <2>1. at[c] = "parse" /\ reply[c] = NoMsg /\ ~pending[c]
      BY DEF RunInit
    <2>2. \A k \in KeysOf[c] : ~contains(table, k)
      BY CountFacts DEF RunInit, contains, EmptyTable
    <2>3. Has(MapThen(c), TableThen(c), c)
      BY <2>1, <2>2 DEF Has, TableThen
    <2> QED
      BY <2>1, <2>3 DEF Checked
  <1> QED
    BY <1>1, <1>2, <1>3 DEF InvTools

(* A client that does not take the step keeps what is said of it, if the   *)
(* table and the map change at other keys only.                            *)
LEMMA OthersChecked ==
  ASSUME InvRun, InvTools, NEW c \in Clients, Checked(c),
         at'[c] = at[c], request'[c] = request[c], pending'[c] = pending[c],
         reply'[c] = reply[c], truth'[c] = truth[c], checkmap'[c] = checkmap[c],
         verdict'[c] = verdict[c], table' \in Table, hashmap' \in Table,
         \A k \in KeysOf[c] : table'[k] = table[k] /\ hashmap'[k] = hashmap[k]
  PROVE  Checked(c)'
  <1>1. KeysOf[c] \subseteq Keys /\ table \in Table /\ hashmap \in Table
    BY CountFacts DEF InvRun, RunTypes, InvTools, ToolTypes
  <1>2. ASSUME at[c] \in {"sending", "recv"}
        PROVE  /\ request[c] \in SendMessage /\ request[c].operation \in Operation
               /\ request[c].key \in KeysOf[c]
               /\ Answer(c)' = Answer(c)
               /\ contains(table', request[c].key) <=> contains(table, request[c].key)
    <2>1. /\ request[c] \in SendMessage /\ request[c].operation \in Operation
          /\ request[c].key \in KeysOf[c]
      BY <1>2 DEF InvTools, InvAsked
    <2> QED
      BY <2>1 DEF Answer, contains
  <1>3. pending[c] => at[c] \in {"sending", "recv"}
    BY DEF InvRun, InvAt
  <1>4. \A k \in KeysOf[c] : TableThen(c)'[k] = TableThen(c)[k]
    <2>1. CASE pending[c]
      <3>1. /\ request[c] \in SendMessage /\ request[c].operation \in Operation
            /\ request[c].key \in KeysOf[c]
        BY <1>2, <1>3, <2>1
      <3>2. \A k \in KeysOf[c] :
              TableAfter(table', request[c])[k] = TableAfter(table, request[c])[k]
        BY <1>1, <3>1, OwnKeysDecide
      <3> QED
        BY <2>1, <3>2 DEF TableThen
    <2>2. CASE ~pending[c]
      BY <2>2 DEF TableThen
    <2> QED
      BY <2>1, <2>2
  <1>5. \A k \in KeysOf[c] : MapThen(c)'[k] = MapThen(c)[k]
    <2>1. CASE at[c] = "sending"
      <3>1. request[c] \in SendMessage /\ request[c].key \in KeysOf[c]
        BY <1>2, <2>1
      <3>2. \A k \in KeysOf[c] : Replayed(hashmap', parseSend(request[c]))[k]
                                   = Replayed(hashmap, parseSend(request[c]))[k]
        BY <1>1, <3>1, OwnKeysReplay
      <3> QED
        BY <2>1, <3>2 DEF MapThen
    <2>2. CASE at[c] # "sending"
      BY <2>2 DEF MapThen
    <2> QED
      BY <2>1, <2>2
  <1>6. Has(MapThen(c), TableThen(c), c)'
    BY <1>4, <1>5 DEF Checked, Has, contains
  <1>7. at[c] \in {"sending", "recv"} /\ request[c].operation = "GET" =>
          contains(table', request[c].key)
    BY <1>2 DEF Checked
  <1>8. at[c] \in {"sending", "recv"} /\ ~pending[c] =>
          truth[c] = Answer(c)' /\ reply[c].key = request[c].key
    BY <1>2 DEF Checked
  <1>9. at[c] = "recv" =>
          checkmap[c] = [key |-> request[c].key, value |-> Seen(c, Answer(c))']
    BY <1>2 DEF Checked, Seen
  <1>10. at[c] \in {"parse", "done"} /\ reply[c] # NoMsg =>
           verdict[c] = IF reply[c].value = Seen(c, truth[c])' THEN "correct" ELSE "incorrect"
    BY DEF Checked, Seen
  <1> QED
    BY <1>6, <1>7, <1>8, <1>9, <1>10 DEF Checked

(* strace prints a call in one piece or two. *)
LEMMA BeginsPrints ==
  ASSUME InvTools, NEW c \in Clients, NEW head, <<>> \o head = head, Begins(c, <<>>, head)
  PROVE  /\ unfinished' \in [Clients -> BOOLEAN]
         /\ redo' = [d \in Clients |-> redo'[d]]
         /\ redo'[c] = IF unfinished'[c] THEN head ELSE <<>>
         /\ \A d \in Clients \ {c} : unfinished'[d] = unfinished[d] /\ redo'[d] = redo[d]
  <1>1. unfinished \in [Clients -> BOOLEAN] /\ redo = [d \in Clients |-> redo[d]]
    BY DEF InvTools, ToolTypes
  <1>2. CASE unfinished' = [unfinished EXCEPT ![c] = TRUE] /\ redo' = [redo EXCEPT ![c] = head]
    BY <1>1, <1>2
  <1>3. CASE unfinished' = [unfinished EXCEPT ![c] = FALSE] /\ redo' = [redo EXCEPT ![c] = <<>>]
    BY <1>1, <1>3
  <1> QED
    BY <1>2, <1>3 DEF Begins, Joined

(* A request is read and sent. *)
LEMMA SendChecked ==
  ASSUME InvRun, InvRun', InvTools, NEW c \in Clients, Send(c)
  PROVE  InvTools'
  <1> USE CountFacts
  <1>1. /\ at[c] = "parse" /\ at' = [at EXCEPT ![c] = "sending"]
        /\ msgs_sent' = [msgs_sent EXCEPT ![c] = @ + 1]
        /\ pending' = [pending EXCEPT ![c] = TRUE]
        /\ reply' = [reply EXCEPT ![c] = NoMsg]
        /\ truth' = [truth EXCEPT ![c] = Zeros]
        /\ UNCHANGED <<table, hashmap, checkmap, verdict>>
    BY DEF Send, Goto, checkVars
  <1>2. \A d \in Clients \ {c} :
          /\ at'[d] = at[d] /\ msgs_sent'[d] = msgs_sent[d] /\ pending'[d] = pending[d]
          /\ reply'[d] = reply[d] /\ truth'[d] = truth[d]
          /\ request'[d] = request[d] /\ intended'[d] = intended[d]
    <2>1. \/ \E new : /\ intended' = [intended EXCEPT ![c] = @ \/ new.fails]
                      /\ request' = [request EXCEPT ![c] = Parsed(c, new)]
          \/ \E new : intended' = intended /\ request' = [request EXCEPT ![c] = new]
      BY DEF Send, ParseLine
    <2>2. \A d \in Clients \ {c} : request'[d] = request[d] /\ intended'[d] = intended[d]
      BY <2>1 DEF InvRun, RunTypes
    <2>3. truth = [d \in Clients |-> truth[d]]
      BY DEF InvTools, ToolTypes
    <2>4. \A d \in Clients \ {c} : truth'[d] = truth[d]
      BY <1>1, <2>3
    <2> QED
      BY <1>1, <2>2, <2>4 DEF InvRun, RunTypes
  <1>3. at'[c] = "sending" /\ pending'[c] = TRUE /\ reply'[c] = NoMsg
    BY <1>1 DEF InvRun, RunTypes
  <1>4. /\ request'[c] \in SendMessage
        /\ request'[c].operation \in Operation /\ request'[c].key \in KeysOf[c]
    BY <1>3 DEF InvRun, InvOwn
  <1>5. redo[c] = <<>>
    BY <1>1 DEF InvTools, InvPieces
  <1>6. /\ unfinished' \in [Clients -> BOOLEAN]
        /\ redo' = [d \in Clients |-> redo'[d]]
        /\ redo'[c] = IF unfinished'[c] THEN <<"send", request'[c]>> ELSE <<>>
        /\ \A d \in Clients \ {c} : unfinished'[d] = unfinished[d] /\ redo'[d] = redo[d]
    <2>1. <<>> \o <<"send", request'[c]>> = <<"send", request'[c]>>
      BY Joining
    <2>2. Begins(c, <<>>, <<"send", request'[c]>>)
      BY <1>5 DEF Send
    <2> HIDE DEF Begins
    <2> QED
      BY <2>1, <2>2, BeginsPrints
  <1>7. ToolTypes'
    BY <1>1, <1>6 DEF InvTools, ToolTypes
  <1>8. InvAsked'
    BY <1>2, <1>3, <1>4 DEF InvTools, InvAsked
  <1>9. InvPieces'
    <2> SUFFICES ASSUME NEW d \in Clients
                 PROVE  redo'[d] = IF at'[d] = "sending" /\ unfinished'[d] THEN <<"send", request'[d]>>
                                   ELSE IF at'[d] = "recv" /\ unfinished'[d] THEN <<"recv">>
                                   ELSE <<>>
      BY DEF InvPieces
    <2>1. CASE d = c
      BY <1>3, <1>6, <2>1
    <2>2. CASE d # c
      BY <1>2, <1>6, <2>2 DEF InvTools, InvPieces
    <2> QED
      BY <2>1, <2>2
  <1>10. InvChecked'
    <2> SUFFICES ASSUME NEW d \in Clients, Plain(d)' PROVE Checked(d)'
      BY DEF InvChecked
    <2>1. CASE d # c
      <3>1. Plain(d)
        BY <1>2, <2>1 DEF Plain
      <3> QED
        BY <1>1, <1>2, <2>1, <3>1, OthersChecked DEF InvTools, InvChecked, InvRun, RunTypes, ToolTypes
    <2>2. CASE d = c
      <3>1. Plain(c)
        <4>1. ~intended[c]
          <5>1. \/ \E new : intended' = [intended EXCEPT ![c] = @ \/ new.fails]
                \/ intended' = intended
            BY DEF Send, ParseLine
          <5> QED
            BY <2>2, <5>1 DEF Plain, InvRun, RunTypes
        <4>2. msgs_sent[c] <= TestCount[c]
          <5>1. msgs_sent'[c] = msgs_sent[c] + 1 /\ msgs_sent'[c] <= TestCount[c]
            BY <1>1, <2>2 DEF Plain, InvRun, RunTypes
          <5> QED
            BY <5>1 DEF InvRun, RunTypes
        <4> QED
          BY <4>1, <4>2 DEF Plain
      <3>2. ~pending[c]
        BY <1>1 DEF InvRun, InvAt
      <3>3. Has(hashmap, table, c)
        BY <1>1, <3>1, <3>2 DEF InvTools, InvChecked, Checked, MapThen, TableThen
      <3>4. Result(table, request'[c])
        BY <1>1, <1>3, <2>2 DEF InvRun, InvKeymap
      <3>5. hashmap \in Table /\ table \in Table
        BY DEF InvTools, ToolTypes, InvRun, RunTypes
      <3>6. Has(Replayed(hashmap, parseSend(request'[c])), TableAfter(table, request'[c]), c)
        BY <1>4, <3>3, <3>4, <3>5, ReplayFollows
      <3>7. Has(MapThen(c), TableThen(c), c)'
        BY <1>1, <1>3, <3>6 DEF Has, MapThen, TableThen
      <3>8. request'[c].operation = "GET" => contains(table', request'[c].key)
        BY <1>1, <3>4 DEF Result
      <3> QED
        BY <1>3, <2>2, <3>7, <3>8 DEF Checked
    <2> QED
      BY <2>1, <2>2
  <1> QED
    BY <1>7, <1>8, <1>9, <1>10 DEF InvTools

(* checkoutput reads what was sent: it has no effect on the others' keys.  *)
LEMMA SentChecked ==
  ASSUME InvRun, InvTools, NEW c \in Clients, Sent(c)
  PROVE  InvTools'
  <1> USE CountFacts
  <1> DEFINE pkt == request[c]
  <1>1. /\ at[c] = "sending" /\ at' = [at EXCEPT ![c] = "recv"]
        /\ UNCHANGED <<intended, msgs_sent, request, table, pending, reply, truth>>
    BY DEF Sent, Goto, clientVars, serverVars
  <1>2. pkt \in SendMessage /\ pkt.operation \in Operation /\ pkt.key \in KeysOf[c]
    BY <1>1 DEF InvTools, InvAsked
  <1>3. /\ pkt.key \in Keys /\ pkt.value \in Values
        /\ hashmap \in Table /\ table \in Table
    BY <1>2 DEF InvTools, ToolTypes, InvRun, RunTypes, SendMessage
  <1>4. Written(c, <<"send", pkt>>, <<>>) = <<"send", pkt>>
    <2>1. redo[c] = IF unfinished[c] THEN <<"send", pkt>> ELSE <<>>
      BY <1>1 DEF InvTools, InvPieces
    <2> QED
      BY <2>1, Joining DEF Written, Joined
  <1>5. /\ hashmap' = Replayed(hashmap, parseSend(pkt))
        /\ checkmap' = [checkmap EXCEPT ![c] = Expected(hashmap, parseSend(pkt))]
        /\ verdict' = [verdict EXCEPT ![c] = "none"]
    <2>1. Check(c, <<"send", pkt>>)
      BY <1>4 DEF Sent
    <2>2. <<"send", pkt>>[1] = "send" /\ <<"send", pkt>>[2] = pkt
      OBVIOUS
    <2> QED
      BY <2>1, <2>2 DEF Check
  <1>6. /\ unfinished' \in [Clients -> BOOLEAN]
        /\ redo' = [d \in Clients |-> redo'[d]]
        /\ redo'[c] = IF unfinished'[c] THEN <<"recv">> ELSE <<>>
        /\ \A d \in Clients \ {c} : unfinished'[d] = unfinished[d] /\ redo'[d] = redo[d]
    <2>1. <<>> \o <<"recv">> = <<"recv">>
      BY Joining
    <2>2. Begins(c, <<>>, <<"recv">>)
      BY DEF Sent, AfterCall
    <2> HIDE DEF Begins
    <2> QED
      BY <2>1, <2>2, BeginsPrints
  <1>7. hashmap' \in Table /\ \A k \in Keys \ {pkt.key} : hashmap'[k] = hashmap[k]
    BY <1>2, <1>3, <1>5, ReplayIsLocal
  <1>8. ToolTypes'
    BY <1>1, <1>5, <1>6, <1>7 DEF InvTools, ToolTypes
  <1>9. at'[c] = "recv" /\ \A d \in Clients \ {c} : at'[d] = at[d]
    BY <1>1 DEF InvRun, RunTypes
  <1>10. InvAsked'
    BY <1>1, <1>9 DEF InvTools, InvAsked
  <1>11. InvPieces'
    <2> SUFFICES ASSUME NEW d \in Clients
                 PROVE  redo'[d] = IF at'[d] = "sending" /\ unfinished'[d] THEN <<"send", request'[d]>>
                                   ELSE IF at'[d] = "recv" /\ unfinished'[d] THEN <<"recv">>
                                   ELSE <<>>
      BY DEF InvPieces
    <2>1. CASE d = c
      BY <1>6, <1>9, <2>1
    <2>2. CASE d # c
      BY <1>1, <1>6, <1>9, <2>2 DEF InvTools, InvPieces
    <2> QED
      BY <2>1, <2>2
  <1>12. InvChecked'
    <2> SUFFICES ASSUME NEW d \in Clients, Plain(d)' PROVE Checked(d)'
      BY DEF InvChecked
    <2>1. Plain(d)
      BY <1>1 DEF Plain
    <2>2. Checked(d)
      BY <2>1 DEF InvTools, InvChecked
    <2>3. CASE d # c
      <3>1. \A k \in KeysOf[d] : hashmap'[k] = hashmap[k]
        BY <1>2, <1>7, <2>3
      <3>2. checkmap'[d] = checkmap[d] /\ verdict'[d] = verdict[d]
        BY <1>5, <2>3 DEF InvTools, ToolTypes
      <3> QED
        BY <1>1, <1>3, <1>7, <1>9, <2>2, <2>3, <3>1, <3>2, OthersChecked
    <2>4. CASE d = c
      <3>1. Has(MapThen(c), TableThen(c), c)'
        BY <1>1, <1>5, <1>9, <2>2, <2>4 DEF Checked, Has, MapThen, TableThen
      <3>2. pkt.operation = "GET" => /\ contains(table, pkt.key)
                                     /\ hashmap' = hashmap
                                     /\ hashmap[pkt.key] = table[pkt.key]
                                     /\ hashmap[pkt.key] # Absent
        <4> SUFFICES ASSUME pkt.operation = "GET"
                     PROVE  /\ contains(table, pkt.key) /\ hashmap' = hashmap
                            /\ hashmap[pkt.key] = table[pkt.key] /\ hashmap[pkt.key] # Absent
          OBVIOUS
        <4>1. contains(table, pkt.key)
          BY <1>1, <2>2, <2>4 DEF Checked
        <4>2. hashmap' = hashmap
          BY <1>2, <1>5, ParsedSend DEF Replayed
        <4>3. TableThen(c) = table
          BY DEF TableThen, TableAfter
        <4>4. MapThen(c) = hashmap
          BY <1>1, <1>5, <4>2 DEF MapThen
        <4> QED
          BY <1>2, <2>2, <2>4, <4>1, <4>2, <4>3, <4>4 DEF Checked, Has, contains
      <3>3. Answer(c)' = Answer(c) /\ Seen(c, Answer(c))' = Seen(c, Answer(c))
        BY <1>1, <3>2 DEF Answer, Seen
      <3>4. checkmap'[c] = [key |-> pkt.key, value |-> Seen(c, Answer(c))]
        <4>1. checkmap'[c] = Expected(hashmap, parseSend(pkt))
          BY <1>5 DEF InvTools, ToolTypes
        <4>2. CASE pkt.operation = "GET"
          BY <1>2, <3>2, <4>1, <4>2, ParsedSend DEF Expected, Answer, Seen
        <4>3. CASE pkt.operation # "GET"
          BY <1>2, <4>1, <4>3, ParsedSend DEF Expected, Answer, Seen
        <4> QED
          BY <4>2, <4>3
      <3>5. pkt.operation = "GET" => contains(table', pkt.key)
        BY <1>1, <3>2
      <3>6. ~pending[c] => truth[c] = Answer(c)' /\ reply[c].key = pkt.key
        BY <1>1, <2>2, <2>4, <3>3 DEF Checked
      <3> QED
        BY <1>1, <1>9, <2>4, <3>1, <3>3, <3>4, <3>5, <3>6 DEF Checked
    <2> QED
      BY <2>3, <2>4
  <1> QED
    BY <1>8, <1>10, <1>11, <1>12 DEF InvTools

(* checkoutput compares what was received with what it expects. *)
LEMMA ReceivedChecked ==
  ASSUME InvRun, InvTools, NEW c \in Clients, Received(c)
  PROVE  InvTools'
  <1>1. /\ reply[c] # NoMsg /\ at[c] = "recv" /\ at' = [at EXCEPT ![c] = "parse"]
        /\ unfinished' = [unfinished EXCEPT ![c] = FALSE]
        /\ redo' = [redo EXCEPT ![c] = <<>>]
        /\ UNCHANGED <<intended, msgs_sent, request, table, pending, reply, truth>>
    BY DEF Received, Goto, clientVars, serverVars, AfterCall
  <1>2. Written(c, <<"recv">>, <<reply[c]>>) = <<"recv", reply[c]>>
    <2>1. redo[c] = IF unfinished[c] THEN <<"recv">> ELSE <<>>
      BY <1>1 DEF InvTools, InvPieces
    <2>2. <<"recv">> \o <<reply[c]>> = <<"recv", reply[c]>>
      BY Joining
    <2>3. <<>> \o <<"recv", reply[c]>> = <<"recv", reply[c]>>
      BY Joining
    <2>4. Written(c, <<"recv">>, <<reply[c]>>) =
            redo[c] \o (IF unfinished[c] THEN <<reply[c]>> ELSE <<"recv", reply[c]>>)
      BY <2>2, Zenon DEF Written, Joined
    <2>5. CASE unfinished[c]
      BY <2>1, <2>2, <2>4, <2>5, Zenon
    <2>6. CASE ~unfinished[c]
      BY <2>1, <2>3, <2>4, <2>6, Zenon
    <2> QED
      BY <2>5, <2>6
  <1>3. /\ verdict' = [verdict EXCEPT ![c] =
              IF compareResp(parseResponse(reply[c]), checkmap[c]) THEN "correct" ELSE "incorrect"]
        /\ hashmap' = hashmap /\ checkmap' = checkmap
    <2>1. Check(c, <<"recv", reply[c]>>)
      BY <1>2 DEF Received
    <2>2. <<"recv", reply[c]>>[1] = "recv" /\ <<"recv", reply[c]>>[2] = reply[c]
      OBVIOUS
    <2> QED
      BY <2>1, <2>2 DEF Check
  <1>4. /\ at'[c] = "parse" /\ redo'[c] = <<>>
        /\ \A d \in Clients \ {c} :
             /\ at'[d] = at[d] /\ verdict'[d] = verdict[d]
             /\ redo'[d] = redo[d] /\ unfinished'[d] = unfinished[d]
    BY <1>1, <1>3 DEF InvRun, RunTypes, InvTools, ToolTypes
  <1>5. ToolTypes'
    BY <1>1, <1>3 DEF InvTools, ToolTypes
  <1>6. InvAsked'
    BY <1>1, <1>4 DEF InvTools, InvAsked
  <1>7. InvPieces'
    BY <1>1, <1>4 DEF InvTools, InvPieces
  <1>8. InvChecked'
    <2> SUFFICES ASSUME NEW d \in Clients, Plain(d)' PROVE Checked(d)'
      BY DEF InvChecked
    <2>1. Plain(d)
      BY <1>1 DEF Plain
    <2>2. Checked(d)
      BY <2>1 DEF InvTools, InvChecked
    <2>3. CASE d # c
      BY <1>1, <1>3, <1>4, <2>2, <2>3, OthersChecked DEF InvTools, ToolTypes, InvRun, RunTypes
    <2>4. CASE d = c
      <3>1. ~pending[c]
        BY <1>1 DEF InvRun, InvAt
      <3>2. Has(MapThen(c), TableThen(c), c)'
        BY <1>1, <1>3, <1>4, <2>2, <2>4 DEF Checked, Has, MapThen, TableThen
      <3>3. /\ truth[c] = Answer(c) /\ reply[c].key = request[c].key
            /\ checkmap[c] = [key |-> request[c].key, value |-> Seen(c, Answer(c))]
        BY <1>1, <2>2, <2>4, <3>1 DEF Checked
      <3>4. reply[c] \in ResponseMessage
        BY <1>1 DEF InvRun, RunTypes
      <3>5. /\ parseResponse(reply[c]).key = reply[c].key
            /\ parseResponse(reply[c]).value = reply[c].value
        BY <3>4 DEF parseResponse, ResponseMessage
      <3>6. compareResp(parseResponse(reply[c]), checkmap[c])
              <=> reply[c].value = Seen(c, truth[c])
        BY <3>3, <3>5 DEF compareResp
      <3>7. verdict'[c] = IF reply[c].value = Seen(c, truth[c]) THEN "correct" ELSE "incorrect"
        BY <1>3, <3>6 DEF InvTools, ToolTypes
      <3>8. verdict'[c] = IF reply'[c].value = Seen(c, truth[c])' THEN "correct" ELSE "incorrect"
        BY <1>1, <3>7 DEF Seen
      <3> QED
        BY <1>4, <2>4, <3>2, <3>8 DEF Checked
    <2> QED
      BY <2>3, <2>4
  <1> QED
    BY <1>5, <1>6, <1>7, <1>8 DEF InvTools

(* The server takes a request, before or after checkoutput reads it. *)
LEMMA ServeChecked ==
  ASSUME InvRun, InvRun', InvTools, NEW c \in Clients, Serve(c)
  PROVE  InvTools'
  <1> USE CountFacts
  <1>1. /\ pending[c]
        /\ pending' = [pending EXCEPT ![c] = FALSE]
        /\ table' = TableAfter(table, request[c])
        /\ truth' = [truth EXCEPT ![c] = ReplyTo(table, request[c]).value]
        /\ UNCHANGED <<intended, msgs_sent, request, at, unfinished, redo,
                       hashmap, checkmap, verdict>>
    BY DEF Serve, clientVars, checkVars
  <1>2. PICK v : reply' = [reply EXCEPT ![c] = [ReplyTo(table, request[c]) EXCEPT !.value = v]]
    BY DEF Serve
  <1>3. /\ at[c] \in {"sending", "recv"}
        /\ request[c] \in SendMessage
        /\ request[c].operation \in Operation /\ request[c].key \in KeysOf[c]
    BY <1>1 DEF InvRun, InvAt, InvTools, InvAsked
  <1>4. /\ table \in Table /\ table' \in Table /\ hashmap \in Table
        /\ \A k \in Keys \ {request[c].key} : table'[k] = table[k]
    BY <1>1, <1>3, OthersAreKept DEF InvRun, RunTypes, InvTools, ToolTypes
  <1>5. /\ reply'[c] = [ReplyTo(table, request[c]) EXCEPT !.value = v]
        /\ truth'[c] = ReplyTo(table, request[c]).value /\ pending'[c] = FALSE
        /\ \A d \in Clients \ {c} :
             reply'[d] = reply[d] /\ truth'[d] = truth[d] /\ pending'[d] = pending[d]
    BY <1>1, <1>2 DEF InvRun, RunTypes, InvTools, ToolTypes
  <1>6. reply'[c].key = request[c].key /\ reply'[c] # NoMsg
    <2>1. reply'[c].key = request[c].key
      BY <1>5 DEF ReplyTo
    <2>2. DOMAIN reply'[c] = {"status_code", "keepalive", "key", "value"}
      BY <1>5 DEF ReplyTo
    <2>3. DOMAIN NoMsg = {"operation"}
      BY DEF NoMsg
    <2> QED
      BY <2>1, <2>2, <2>3
  <1>7. ToolTypes'
    BY <1>1 DEF InvTools, ToolTypes
  <1>8. InvAsked'
    BY <1>1, <1>5, <1>6 DEF InvTools, InvAsked
  <1>9. InvPieces'
    BY <1>1 DEF InvTools, InvPieces
  <1>10. InvChecked'
    <2> SUFFICES ASSUME NEW d \in Clients, Plain(d)' PROVE Checked(d)'
      BY DEF InvChecked
    <2>1. Plain(d)
      BY <1>1 DEF Plain
    <2>2. Checked(d)
      BY <2>1 DEF InvTools, InvChecked
    <2>3. CASE d # c
      <3>1. \A k \in KeysOf[d] : table'[k] = table[k]
        BY <1>3, <1>4, <2>3
      <3> QED
        BY <1>1, <1>4, <1>5, <2>2, <2>3, <3>1, OthersChecked
    <2>4. CASE d = c
      <3>1. TableThen(c)' = TableThen(c) /\ MapThen(c)' = MapThen(c)
        BY <1>1, <1>5 DEF TableThen, MapThen
      <3>2. Has(MapThen(c), TableThen(c), c)'
        BY <2>2, <2>4, <3>1 DEF Checked, Has
      <3>3. ASSUME request[c].operation = "GET"
            PROVE  /\ contains(table, request[c].key) /\ table' = table
                   /\ hashmap[request[c].key] = table[request[c].key]
        <4>1. contains(table, request[c].key)
          BY <1>3, <2>2, <2>4, <3>3 DEF Checked
        <4>2. table' = table
          BY <1>1, <3>3 DEF TableAfter
        <4>3. TableThen(c) = table
          BY <1>1, <4>2 DEF TableThen
        <4>4. MapThen(c) = hashmap
          BY <1>3, <3>3, ParsedSend DEF MapThen, Replayed
        <4> QED
          BY <1>3, <2>2, <2>4, <4>1, <4>2, <4>3, <4>4 DEF Checked, Has
      <3>4. truth'[c] = Answer(c)
        <4>1. CASE request[c].operation = "GET"
          BY <1>5, <3>3, <4>1 DEF ReplyTo, Answer
        <4>2. CASE request[c].operation # "GET"
          BY <1>5, <4>2 DEF ReplyTo, Answer
        <4> QED
          BY <4>1, <4>2
      <3>5. Answer(c)' = Answer(c) /\ Seen(c, Answer(c))' = Seen(c, Answer(c))
        BY <1>1 DEF Answer, Seen
      <3>6. at[c] = "recv" =>
              checkmap[c] = [key |-> request[c].key, value |-> Seen(c, Answer(c))']
        BY <2>2, <2>4, <3>5 DEF Checked
      <3>7. request[c].operation = "GET" => contains(table', request[c].key)
        BY <3>3
      <3>8. at'[c] \notin {"parse", "done"}
        BY <1>1, <1>3
      <3> QED
        BY <1>1, <1>6, <2>4, <3>2, <3>4, <3>5, <3>6, <3>7, <3>8 DEF Checked
    <2> QED
      BY <2>3, <2>4
  <1> QED
    BY <1>7, <1>8, <1>9, <1>10 DEF InvTools

LEMMA DoneChecked ==
  ASSUME InvRun, InvTools, NEW c \in Clients, Done(c)
  PROVE  InvTools'
  <1>1. /\ at[c] = "parse" /\ at' = [at EXCEPT ![c] = "done"]
        /\ UNCHANGED <<intended, msgs_sent, request, table, pending, reply, truth,
                       unfinished, redo, hashmap, checkmap, verdict>>
    BY DEF Done, Goto, clientVars, serverVars, checkVars
  <1>2. at'[c] = "done" /\ \A d \in Clients \ {c} : at'[d] = at[d]
    BY <1>1 DEF InvRun, RunTypes
  <1>3. ToolTypes'
    BY <1>1 DEF InvTools, ToolTypes
  <1>4. InvAsked' /\ InvPieces'
    BY <1>1, <1>2 DEF InvTools, InvAsked, InvPieces
  <1>5. InvChecked'
    <2> SUFFICES ASSUME NEW d \in Clients, Plain(d)' PROVE Checked(d)'
      BY DEF InvChecked
    <2>1. Plain(d) /\ Checked(d)
      BY <1>1 DEF Plain, InvTools, InvChecked
    <2>2. CASE d # c
      BY <1>1, <1>2, <2>1, <2>2, OthersChecked DEF InvTools, ToolTypes, InvRun, RunTypes
    <2>3. CASE d = c
      BY <1>1, <1>2, <2>1, <2>3 DEF Checked, Has, MapThen, TableThen, Seen
    <2> QED
      BY <2>2, <2>3
  <1> QED
    BY <1>3, <1>4, <1>5 DEF InvTools

-----------------------------------------------------------------------------
LEMMA ToolsNextInv == InvRun /\ InvRun' /\ InvTools /\ [RunNext]_runVars => InvTools'
  <1> SUFFICES ASSUME InvRun, InvRun', InvTools, [RunNext]_runVars
               PROVE  InvTools'
    OBVIOUS
  <1>1. ASSUME NEW c \in Clients, Send(c) \/ Sent(c) \/ Received(c) \/ Done(c) \/ Serve(c)
        PROVE  InvTools'
    BY <1>1, SendChecked, SentChecked, ReceivedChecked, DoneChecked, ServeChecked
  <1>2. CASE UNCHANGED runVars
    <2>1. UNCHANGED <<intended, msgs_sent, at, request, table, pending, reply, truth,
                      unfinished, redo, hashmap, checkmap, verdict>>
      BY <1>2 DEF runVars, clientVars, serverVars, checkVars
    <2> QED
      BY <2>1 DEF InvTools, ToolTypes, InvAsked, InvPieces, InvChecked, Checked, Plain,
                  Has, MapThen, TableThen, Answer, Seen
  <1> QED
    BY <1>1, <1>2 DEF RunNext

(* checkoutput.c calls a response of such a file correct exactly when it   *)
(* has the library's value, unless it is a GET's and the value is longer   *)
(* than 16 bytes: for any clients that share no key, any order in which    *)
(* the server takes their requests and strace prints their calls, whole or *)
(* in two pieces.                                                          *)
THEOREM VerdictCorrect == RunSpec => []InvVerdict
  <1>1. InvTools => InvVerdict
    <2> SUFFICES ASSUME InvTools, NEW c \in Clients, Plain(c),
                        at[c] \in {"parse", "done"}, reply[c] # NoMsg, Known(c)
                 PROVE  verdict[c] = IF reply[c].value = truth[c] THEN "correct" ELSE "incorrect"
      BY DEF InvVerdict
    <2>1. verdict[c] = IF reply[c].value = Seen(c, truth[c]) THEN "correct" ELSE "incorrect"
      BY DEF InvTools, InvChecked, Checked
    <2>2. Seen(c, truth[c]) = truth[c]
      BY DEF Seen, Known
    <2> QED
      BY <2>1, <2>2
  <1> QED
    BY <1>1, RunInitInv, RunNextInv, ToolsInit, ToolsNextInv, PTL DEF RunSpec

-----------------------------------------------------------------------------
(* SortedSet: the iterators point to the items of the set, each to the one *)
(* with its key, and there are no other items.                             *)
InvIndexes ==
  /\ SetTypeOK
  /\ sorted_set = {existed[k] : k \in DOMAIN existed}
  /\ \A k \in DOMAIN existed : existed[k].key = k

-----------------------------------------------------------------------------
(* The item of a key is the one of the abstract map. *)
LEMMA ItemIsMapped ==
  ASSUME InvIndexes, NEW k \in DOMAIN existed
  PROVE  /\ existed[k] \in sorted_set
         /\ Map!ItemOf(k) = existed[k]
         /\ k \in Names
  <1>1. existed[k] \in Item /\ existed[k].key = k
    BY DEF InvIndexes, SetTypeOK
  <1>2. existed[k] = [key |-> k, score |-> existed[k].score]
    BY <1>1 DEF Item
  <1> QED
    BY <1>1, <1>2 DEF InvIndexes, SetTypeOK, Map!ItemOf

(* An item is the one its key's iterator points to. *)
LEMMA ItemIsIndexed ==
  ASSUME InvIndexes, NEW item \in sorted_set
  PROVE  item.key \in DOMAIN existed /\ item = existed[item.key]
  BY DEF InvIndexes

(* begin() is the first item of the map, rbegin() the last. *)
LEMMA FirstIsMapped ==
  ASSUME InvIndexes, NEW item \in sorted_set, begin(item)
  PROVE  Map!IsFirst(item.key)
  <1>1. item.key \in DOMAIN existed /\ Map!ItemOf(item.key) = item
    BY ItemIsIndexed, ItemIsMapped
  <1>2. ASSUME NEW x \in DOMAIN existed \ {item.key}
        PROVE  Map!Before(Map!ItemOf(item.key), Map!ItemOf(x))
    <2>1. existed[x] \in sorted_set /\ Map!ItemOf(x) = existed[x] /\ existed[x].key = x
      BY <1>2, ItemIsMapped DEF InvIndexes
    <2>2. Less(item, existed[x])
      BY <2>1 DEF begin
    <2> QED
      BY <1>1, <2>1, <2>2 DEF Less, Map!Before
  <1> QED
    BY <1>1, <1>2 DEF Map!IsFirst

LEMMA LastIsMapped ==
  ASSUME InvIndexes, NEW item \in sorted_set, rbegin(item)
  PROVE  Map!IsLast(item.key)
  <1>1. item.key \in DOMAIN existed /\ Map!ItemOf(item.key) = item
    BY ItemIsIndexed, ItemIsMapped
  <1>2. ASSUME NEW x \in DOMAIN existed \ {item.key}
        PROVE  Map!Before(Map!ItemOf(x), Map!ItemOf(item.key))
    <2>1. existed[x] \in sorted_set /\ Map!ItemOf(x) = existed[x] /\ existed[x].key = x
      BY <1>2, ItemIsMapped DEF InvIndexes
    <2>2. Less(existed[x], item)
      BY <2>1 DEF rbegin
    <2> QED
      BY <1>1, <2>1, <2>2 DEF Less, Map!Before
  <1> QED
    BY <1>1, <1>2 DEF Map!IsLast

-----------------------------------------------------------------------------
LEMMA AddIsMapped ==
  ASSUME InvIndexes, NEW key \in Names, NEW score \in Scores, add(key, score)
  PROVE  InvIndexes' /\ Map!Add(key, score)
  <1> DEFINE item == [key |-> key, score |-> score]
             S == [k \in DOMAIN existed |-> existed[k].score]
  <1>1. item \in Item
    BY DEF Item
  <1>2. CASE item \in Old(key)
    <2>1. key \in DOMAIN existed /\ existed[key] = item
      BY <1>2 DEF Old
    <2>2. ret' = << 0 >> /\ existed' = existed /\ sorted_set' = sorted_set
      BY <1>2 DEF add
    <2>3. InvIndexes'
      BY <2>2 DEF InvIndexes, SetTypeOK
    <2>4. S = [x \in DOMAIN S \cup {key} |-> IF x = key THEN score ELSE S[x]]
      BY <2>1
    <2> QED
      BY <2>1, <2>2, <2>3, <2>4 DEF Map!Add
  <1>3. CASE item \notin Old(key)
    <2>1. /\ ret' = <<IF key \in DOMAIN existed THEN 0 ELSE 1>>
          /\ sorted_set' = (sorted_set \ Old(key)) \cup {item}
          /\ existed' = [k \in DOMAIN existed \cup {key} |->
                           IF k = key THEN item ELSE existed[k]]
      BY <1>3 DEF add
    <2>2. SetTypeOK'
      <3>1. DOMAIN existed' \subseteq Names /\ existed' \in [DOMAIN existed' -> Item]
        BY <1>1, <2>1 DEF InvIndexes, SetTypeOK
      <3>2. sorted_set' \subseteq Item
        BY <1>1, <2>1 DEF InvIndexes, SetTypeOK
      <3>3. ret' \in {<<n>> : n \in Scores \cup {0, 1}}
        BY <2>1
      <3> QED
        BY <3>1, <3>2, <3>3 DEF SetTypeOK
    <2>3. \A k \in DOMAIN existed' : existed'[k].key = k
      BY <2>1 DEF InvIndexes
    <2>4. sorted_set \ Old(key) = {existed[k] : k \in DOMAIN existed \ {key}}
      BY DEF InvIndexes, Old
    <2>5. sorted_set' = {existed'[k] : k \in DOMAIN existed'}
      BY <2>1, <2>4
    <2>6. [k \in DOMAIN existed' |-> existed'[k].score]
            = [x \in DOMAIN S \cup {key} |-> IF x = key THEN score ELSE S[x]]
      BY <2>1
    <2> QED
      BY <2>1, <2>2, <2>3, <2>5, <2>6 DEF InvIndexes, Map!Add
  <1> QED
    BY <1>2, <1>3

(* del() and the pops take one item out of both indexes. *)
LEMMA ForgetIsMapped ==
  ASSUME InvIndexes, NEW key \in DOMAIN existed,
         existed' = Forget(key), sorted_set' = sorted_set \ {existed[key]}, ret' = << 1 >>
  PROVE  /\ InvIndexes'
         /\ [k \in DOMAIN existed' |-> existed'[k].score] = Map!Without(key)
  <1>1. existed' = [k \in DOMAIN existed \ {key} |-> existed[k]]
    BY DEF Forget
  <1>2. SetTypeOK'
    <2>1. DOMAIN existed' \subseteq Names /\ existed' \in [DOMAIN existed' -> Item]
      BY <1>1 DEF InvIndexes, SetTypeOK
    <2>2. ret' \in {<<n>> : n \in Scores \cup {0, 1}}
      OBVIOUS
    <2> QED
      BY <2>1, <2>2 DEF InvIndexes, SetTypeOK
  <1>3. \A k \in DOMAIN existed' : existed'[k].key = k
    BY <1>1 DEF InvIndexes
  <1>4. sorted_set' = {existed'[k] : k \in DOMAIN existed'}
    BY <1>1 DEF InvIndexes
  <1> QED
    BY <1>1, <1>2, <1>3, <1>4 DEF InvIndexes, Map!Without

LEMMA DelIsMapped ==
  ASSUME InvIndexes, NEW key \in Names, del(key)
  PROVE  InvIndexes' /\ Map!Del(key)
  <1> DEFINE S == [k \in DOMAIN existed |-> existed[k].score]
  <1>1. CASE key \in DOMAIN existed
    <2>1. ret' = << 1 >> /\ sorted_set' = sorted_set \ {existed[key]} /\ existed' = Forget(key)
      BY <1>1 DEF del
    <2> QED
      BY <1>1, <2>1, ForgetIsMapped DEF Map!Del
  <1>2. CASE key \notin DOMAIN existed
    <2>1. ret' = << 0 >> /\ existed' = existed /\ sorted_set' = sorted_set
      BY <1>2 DEF del
    <2>2. InvIndexes'
      BY <2>1 DEF InvIndexes, SetTypeOK
    <2>3. S = Map!Without(key)
      BY <1>2 DEF Map!Without
    <2> QED
      BY <1>2, <2>1, <2>2, <2>3 DEF Map!Del
  <1> QED
    BY <1>1, <1>2

-----------------------------------------------------------------------------
(* A call that only copies out. *)
LEMMA Looking ==
  ASSUME InvIndexes, UNCHANGED <<existed, sorted_set>>,
         \/ \E item \in sorted_set : ret' = <<1, item.key, item.score>>
         \/ \E item \in sorted_set : ret' = <<item.score>>
         \/ ret' = << 0 >>
  PROVE  InvIndexes'
  <1>1. \A item \in sorted_set : item \in Item /\ item.score \in Scores
    BY DEF InvIndexes, SetTypeOK, Item
  <1>2. ret' \in {<<n>> : n \in Scores \cup {0, 1}} \cup {<<1, i.key, i.score>> : i \in Item}
    BY <1>1
  <1> QED
    BY <1>2 DEF InvIndexes, SetTypeOK

(* The map is empty when the set is. *)
LEMMA EmptyIsMapped ==
  ASSUME InvIndexes, sorted_set = {}
  PROVE  DOMAIN existed = {}
  BY DEF InvIndexes

LEMMA FrontIsMapped ==
  ASSUME InvIndexes, front
  PROVE  InvIndexes' /\ Map!Look(Map!IsFirst)
  <1>1. UNCHANGED <<existed, sorted_set>>
    BY DEF front, Copy
  <1>2. CASE \E item \in sorted_set : begin(item) /\ ret' = <<1, item.key, item.score>>
    <2>1. PICK item \in sorted_set : begin(item) /\ ret' = <<1, item.key, item.score>>
      BY <1>2
    <2>2. item.key \in DOMAIN existed /\ item = existed[item.key] /\ item.key \in Names
      BY ItemIsIndexed, ItemIsMapped
    <2>3. Map!IsFirst(item.key)
      BY <2>1, FirstIsMapped
    <2> QED
      BY <1>1, <2>1, <2>2, <2>3, Looking DEF Map!Look
  <1>3. CASE sorted_set = {} /\ ret' = << 0 >>
    BY <1>1, <1>3, EmptyIsMapped, Looking DEF Map!Look
  <1> QED
    BY <1>2, <1>3 DEF front, Copy

LEMMA BackIsMapped ==
  ASSUME InvIndexes, back
  PROVE  InvIndexes' /\ Map!Look(Map!IsLast)
  <1>1. UNCHANGED <<existed, sorted_set>>
    BY DEF back, Copy
  <1>2. CASE \E item \in sorted_set : rbegin(item) /\ ret' = <<1, item.key, item.score>>
    <2>1. PICK item \in sorted_set : rbegin(item) /\ ret' = <<1, item.key, item.score>>
      BY <1>2
    <2>2. item.key \in DOMAIN existed /\ item = existed[item.key] /\ item.key \in Names
      BY ItemIsIndexed, ItemIsMapped
    <2>3. Map!IsLast(item.key)
      BY <2>1, LastIsMapped
    <2> QED
      BY <1>1, <2>1, <2>2, <2>3, Looking DEF Map!Look
  <1>3. CASE sorted_set = {} /\ ret' = << 0 >>
    BY <1>1, <1>3, EmptyIsMapped, Looking DEF Map!Look
  <1> QED
    BY <1>2, <1>3 DEF back, Copy

LEMMA MaxScoreIsMapped ==
  ASSUME InvIndexes, max_score
  PROVE  InvIndexes' /\ Map!MaxScore
  <1>1. UNCHANGED <<existed, sorted_set>>
    BY DEF max_score
  <1>2. CASE \E item \in sorted_set : rbegin(item) /\ ret' = <<item.score>>
    <2>1. PICK item \in sorted_set : rbegin(item) /\ ret' = <<item.score>>
      BY <1>2
    <2>2. item.key \in DOMAIN existed /\ item = existed[item.key] /\ item.key \in Names
      BY ItemIsIndexed, ItemIsMapped
    <2>3. Map!IsLast(item.key)
      BY <2>1, LastIsMapped
    <2> QED
      BY <1>1, <2>1, <2>2, <2>3, Looking DEF Map!MaxScore
  <1>3. CASE sorted_set = {} /\ ret' = << 0 >>
    BY <1>1, <1>3, EmptyIsMapped, Looking DEF Map!MaxScore
  <1> QED
    BY <1>2, <1>3 DEF max_score

LEMMA PopFrontIsMapped ==
  ASSUME InvIndexes, pop_front
  PROVE  InvIndexes' /\ Map!Pop(Map!IsFirst)
  <1>1. CASE sorted_set = {} /\ ret' = << 0 >> /\ UNCHANGED <<existed, sorted_set>>
    BY <1>1, EmptyIsMapped, Looking DEF Map!Pop
  <1>2. ASSUME NEW item \in sorted_set,
               begin(item), existed' = Forget(item.key),
               sorted_set' = sorted_set \ {item}, ret' = << 1 >>
        PROVE  InvIndexes' /\ Map!Pop(Map!IsFirst)
    <2>1. item.key \in DOMAIN existed /\ item = existed[item.key] /\ item.key \in Names
      BY ItemIsIndexed, ItemIsMapped
    <2>2. Map!IsFirst(item.key)
      BY <1>2, FirstIsMapped
    <2>3. /\ InvIndexes'
          /\ [k \in DOMAIN existed' |-> existed'[k].score] = Map!Without(item.key)
      BY <1>2, <2>1, ForgetIsMapped
    <2> QED
      BY <1>2, <2>1, <2>2, <2>3 DEF Map!Pop
  <1> QED
    BY <1>1, <1>2 DEF pop_front, Take

LEMMA PopBackIsMapped ==
  ASSUME InvIndexes, pop_back
  PROVE  InvIndexes' /\ Map!Pop(Map!IsLast)
  <1>1. CASE sorted_set = {} /\ ret' = << 0 >> /\ UNCHANGED <<existed, sorted_set>>
    BY <1>1, EmptyIsMapped, Looking DEF Map!Pop
  <1>2. ASSUME NEW item \in sorted_set,
               rbegin(item), existed' = Forget(item.key),
               sorted_set' = sorted_set \ {item}, ret' = << 1 >>
        PROVE  InvIndexes' /\ Map!Pop(Map!IsLast)
    <2>1. item.key \in DOMAIN existed /\ item = existed[item.key] /\ item.key \in Names
      BY ItemIsIndexed, ItemIsMapped
    <2>2. Map!IsLast(item.key)
      BY <1>2, LastIsMapped
    <2>3. /\ InvIndexes'
          /\ [k \in DOMAIN existed' |-> existed'[k].score] = Map!Without(item.key)
      BY <1>2, <2>1, ForgetIsMapped
    <2> QED
      BY <1>2, <2>1, <2>2, <2>3 DEF Map!Pop
  <1> QED
    BY <1>1, <1>2 DEF pop_back, Take

-----------------------------------------------------------------------------
LEMMA InitIsMapped == SetInit => InvIndexes /\ Map!Init
  <1> SUFFICES ASSUME SetInit PROVE InvIndexes /\ Map!Init
    OBVIOUS
  <1>1. DOMAIN existed = {} /\ existed \in [DOMAIN existed -> Item]
    BY DEF SetInit
  <1>2. [k \in DOMAIN existed |-> existed[k].score] = [k \in {} |-> 0]
    BY <1>1
  <1>3. ret \in {<<n>> : n \in Scores \cup {0, 1}}
    BY DEF SetInit
  <1> QED
    BY <1>1, <1>2, <1>3 DEF SetInit, InvIndexes, SetTypeOK, Map!Init

LEMMA NextIsMapped ==
  InvIndexes /\ [SetNext]_setVars => InvIndexes' /\ [Map!Next]_(Map!vars)
  <1> SUFFICES ASSUME InvIndexes, [SetNext]_setVars
               PROVE  InvIndexes' /\ [Map!Next]_(Map!vars)
    OBVIOUS
  <1>1. ASSUME NEW key \in Names, del(key) PROVE InvIndexes' /\ Map!Next
    BY <1>1, DelIsMapped DEF Map!Next
  <1>2. ASSUME NEW key \in Names, NEW score \in Scores, add(key, score)
        PROVE  InvIndexes' /\ Map!Next
    BY <1>2, AddIsMapped DEF Map!Next
  <1>3. CASE front
    BY <1>3, FrontIsMapped DEF Map!Next
  <1>4. CASE back
    BY <1>4, BackIsMapped DEF Map!Next
  <1>5. CASE max_score
    BY <1>5, MaxScoreIsMapped DEF Map!Next
  <1>6. CASE pop_front
    BY <1>6, PopFrontIsMapped DEF Map!Next
  <1>7. CASE pop_back
    BY <1>7, PopBackIsMapped DEF Map!Next
  <1>8. CASE UNCHANGED setVars
    BY <1>8 DEF setVars, InvIndexes, SetTypeOK, Map!vars
  <1> QED
    BY <1>1, <1>2, <1>3, <1>4, <1>5, <1>6, <1>7, <1>8 DEF SetNext

(* Every call on the two indexes does to the scores what it does on a map, *)
(* and returns the same (sorted_set.cpp).                                  *)
THEOREM SetRefinement == SetSpec => SetImplements
  <1> QED
    BY InitIsMapped, NextIsMapped, PTL DEF SetSpec, SetImplements, Map!Spec

-----------------------------------------------------------------------------
(* FdeSelect: the sets hold what the flags say, and no subscribed          *)
(* descriptor is beyond maxfd.                                             *)
Subscribed(flag) == {fd \in Fds : flag \in s_flags[fd]}

InvSets ==
  /\ SelTypeOK
  /\ readset = Subscribed("IN") /\ writeset = Subscribed("OUT")
  /\ \A fd \in Fds : s_flags[fd] # {} => fd <= maxfd

-----------------------------------------------------------------------------
(* A set of numbers with an upper bound has a highest one. *)
LEMMA HighestExists ==
  ASSUME NEW S, S \subseteq Nat, S # {}, NEW n \in Nat, \A x \in S : x <= n
  PROVE  \E m \in S : \A x \in S : x <= m
  <1> DEFINE T == {n - x : x \in S}
  <1>1. T \subseteq Nat /\ T # {}
    <2>1. ASSUME NEW x \in S PROVE n - x \in Nat
      BY <2>1
    <2>2. T \subseteq Nat
      BY <2>1
    <2>3. T # {}
      OBVIOUS
    <2> QED
      BY <2>2, <2>3
  <1>2. PICK t \in T : \A u \in T : ~ (u < t)
    <2> HIDE DEF T
    <2> QED
      BY <1>1, LeastExists
  <1>3. PICK m \in S : t = n - m
    BY <1>2
  <1>4. ASSUME NEW x \in S PROVE x <= m
    BY <1>2, <1>3, <1>4
  <1> QED
    BY <1>4

(* The loop of clr() and del() ends at the highest descriptor left. *)
LEMMA LoweredIsHighest ==
  ASSUME maxfd \in Fds \cup {-1}, NEW flags
  PROVE  /\ Lowered(flags) \in Fds \cup {-1}
         /\ \A fd \in Fds : flags[fd] # {} /\ fd <= maxfd => fd <= Lowered(flags)
  <1> DEFINE S == {fd \in Fds : flags[fd] # {} /\ fd <= maxfd}
             P(m) == /\ m <= maxfd /\ (m # -1 => flags[m] # {})
                     /\ \A fd \in Fds : m < fd /\ fd <= maxfd => flags[fd] = {}
  <1>1. S \subseteq Nat /\ maxfd \in Int /\ Fds \subseteq Nat
    BY SelectAssumption
  <1>2. \E m \in Fds \cup {-1} : P(m)
    <2>1. CASE S = {}
      <3>1. P(-1)
        BY <1>1, <2>1
      <3> QED
        BY <3>1
    <2>2. CASE S # {}
      <3>1. maxfd \in Nat
        BY <1>1, <2>2
      <3>2. \A x \in S : x <= maxfd
        OBVIOUS
      <3>3. PICK m \in S : \A x \in S : x <= m
        <4> HIDE DEF S
        <4> QED
          BY <1>1, <2>2, <3>1, <3>2, HighestExists
      <3>4. P(m)
        BY <1>1, <3>3
      <3> QED
        BY <3>4
    <2> QED
      BY <2>1, <2>2
  <1>3. Lowered(flags) \in Fds \cup {-1} /\ P(Lowered(flags))
    BY <1>2 DEF Lowered
  <1> QED
    BY <1>1, <1>3

(* The loop of wait() comes to every descriptor that has events. *)
LEMMA CollectsAll ==
  ASSUME NEW r, NEW w, r \subseteq Fds, w \subseteq Fds
  PROVE  Collected(r, w) = r \cup w
  <1>1. IsFiniteSet(r) /\ IsFiniteSet(w) /\ IsFiniteSet(r \cup w) /\ IsFiniteSet(r \cap w)
    BY SelectAssumption, FS_Subset
  <1>2. /\ Cardinality(r \cup w) = Cardinality(r) + Cardinality(w) - Cardinality(r \cap w)
        /\ Cardinality(r) \in Nat /\ Cardinality(w) \in Nat /\ Cardinality(r \cap w) \in Nat
        /\ Cardinality(r \cup w) \in Nat
    BY <1>1, FS_Union, FS_CardinalityType
  <1>3. ASSUME NEW fd \in r \cup w
        PROVE  Cardinality({x \in r \cup w : x < fd}) < Cardinality(r) + Cardinality(w)
    <2> DEFINE Lower == {x \in r \cup w : x < fd}
    <2>1. Lower \in SUBSET (r \cup w)
      OBVIOUS
    <2>2. Lower # r \cup w
      BY SelectAssumption
    <2>3. IsFiniteSet(Lower) /\ Cardinality(Lower) < Cardinality(r \cup w)
      <3> HIDE DEF Lower
      <3>1. IsFiniteSet(Lower) /\ Cardinality(Lower) <= Cardinality(r \cup w)
        BY <1>1, <2>1, FS_Subset
      <3>2. Cardinality(Lower) # Cardinality(r \cup w)
        BY <1>1, <2>1, <2>2, FS_Subset
      <3>3. Cardinality(Lower) \in Nat
        BY <3>1, FS_CardinalityType
      <3> QED
        BY <1>2, <3>1, <3>2, <3>3
    <2>4. Cardinality(Lower) \in Nat
      BY <2>3, FS_CardinalityType
    <2> HIDE DEF Lower
    <2>5. Cardinality(Lower) < Cardinality(r) + Cardinality(w)
      BY <1>2, <2>3, <2>4
    <2> QED
      BY <2>5 DEF Lower
  <1> QED
    BY <1>3 DEF Collected

-----------------------------------------------------------------------------
LEMMA SetIsMapped ==
  ASSUME InvSets, NEW fd \in Fds, NEW flag \in Flag, NEW p \in Ptrs, Set(fd, flag, p)
  PROVE  InvSets' /\ (Interest!Set(fd, flag, p) \/ UNCHANGED selVars)
  <1>1. CASE fd > FD_SETSIZE - 1 \/ flag \in s_flags[fd]
    <2>1. UNCHANGED selVars
      BY <1>1 DEF Set, selVars
    <2> QED
      BY <2>1 DEF selVars, InvSets, SelTypeOK, Subscribed
  <1>2. CASE ~ (fd > FD_SETSIZE - 1 \/ flag \in s_flags[fd])
    <2>1. /\ readset' = FdSet(readset, fd, {flag}, "IN")
          /\ writeset' = FdSet(writeset, fd, {flag}, "OUT")
          /\ ptr' = [ptr EXCEPT ![fd] = p]
          /\ s_flags' = [s_flags EXCEPT ![fd] = @ \cup {flag}]
          /\ maxfd' = IF fd > maxfd THEN fd ELSE maxfd
          /\ UNCHANGED <<ready, ready_events>>
      BY <1>2 DEF Set
    <2>2. Interest!Set(fd, flag, p)
      BY <2>1 DEF Interest!Set
    <2>3. SelTypeOK'
      <3>1. maxfd' \in Fds \cup {-1}
        BY <2>1 DEF InvSets, SelTypeOK
      <3>2. readset' \subseteq Fds /\ writeset' \subseteq Fds
        BY <2>1 DEF InvSets, SelTypeOK, FdSet
      <3>3. s_flags' \in [Fds -> SUBSET Flag] /\ ptr' \in [Fds -> Ptrs \cup {NULL}]
        BY <2>1 DEF InvSets, SelTypeOK
      <3> QED
        BY <2>1, <3>1, <3>2, <3>3 DEF InvSets, SelTypeOK
    <2>4. readset' = Subscribed("IN")' /\ writeset' = Subscribed("OUT")'
      BY <2>1 DEF InvSets, SelTypeOK, FdSet, Subscribed
    <2>5. \A x \in Fds : s_flags'[x] # {} => x <= maxfd'
      <3>1. Fds \subseteq Nat /\ maxfd \in Int
        BY SelectAssumption DEF InvSets, SelTypeOK
      <3>2. ASSUME NEW x \in Fds, s_flags'[x] # {} PROVE x = fd \/ s_flags[x] # {}
        BY <2>1, <3>2 DEF InvSets, SelTypeOK
      <3> QED
        BY <2>1, <3>1, <3>2 DEF InvSets
    <2> QED
      BY <2>2, <2>3, <2>4, <2>5 DEF InvSets
  <1> QED
    BY <1>1, <1>2

LEMMA UnsubscribeIsMapped ==
  ASSUME InvSets, NEW fd \in Fds, NEW flags \in SUBSET Flag, Unsubscribe(fd, flags)
  PROVE  InvSets' /\ Interest!Clr(fd, flags)
  <1>1. /\ readset' = FdClr(readset, fd, flags, "IN")
        /\ writeset' = FdClr(writeset, fd, flags, "OUT")
        /\ s_flags' = [s_flags EXCEPT ![fd] = @ \ flags]
        /\ maxfd' = Lowered(s_flags')
        /\ UNCHANGED <<ptr, ready, ready_events>>
    BY DEF Unsubscribe
  <1>2. Interest!Clr(fd, flags)
    BY <1>1 DEF Interest!Clr
  <1>3. /\ maxfd' \in Fds \cup {-1}
        /\ \A x \in Fds : s_flags'[x] # {} /\ x <= maxfd => x <= maxfd'
    BY <1>1, LoweredIsHighest DEF InvSets, SelTypeOK
  <1>4. SelTypeOK'
    <2>1. readset' \subseteq Fds /\ writeset' \subseteq Fds
      BY <1>1 DEF InvSets, SelTypeOK, FdClr
    <2>2. s_flags' \in [Fds -> SUBSET Flag]
      BY <1>1 DEF InvSets, SelTypeOK
    <2> QED
      BY <1>1, <1>3, <2>1, <2>2 DEF InvSets, SelTypeOK
  <1>5. readset' = Subscribed("IN")' /\ writeset' = Subscribed("OUT")'
    BY <1>1 DEF InvSets, SelTypeOK, FdClr, Subscribed
  <1>6. \A x \in Fds : s_flags'[x] # {} => x <= maxfd
    BY <1>1 DEF InvSets, SelTypeOK
  <1> QED
    BY <1>2, <1>3, <1>4, <1>5, <1>6 DEF InvSets

LEMMA WaitIsMapped ==
  ASSUME InvSets, Wait
  PROVE  InvSets' /\ Interest!Wait
  <1> DEFINE r == Selected(readset, "IN", ready')
             w == Selected(writeset, "OUT", ready')
             Both(fd) == ready'[fd] \cap s_flags[fd]
  <1>1. /\ ready' \in [Fds -> SUBSET Flag]
        /\ ready_events' = {Event(fd, r, w) : fd \in Collected(r, w)}
        /\ UNCHANGED <<maxfd, readset, writeset, s_flags, ptr>>
    BY DEF Wait
  <1>2. /\ r = {fd \in Fds : "IN" \in Both(fd)}
        /\ w = {fd \in Fds : "OUT" \in Both(fd)}
    BY DEF InvSets, Subscribed, Selected
  <1>3. \A fd \in Fds : Both(fd) \subseteq Flag
    BY DEF InvSets, SelTypeOK
  <1>4. Collected(r, w) = {fd \in Fds : Both(fd) # {}}
    <2>1. r \subseteq Fds /\ w \subseteq Fds
      BY <1>2
    <2>2. Collected(r, w) = r \cup w
      BY <2>1, CollectsAll
    <2>3. r \cup w = {fd \in Fds : Both(fd) # {}}
      BY <1>2, <1>3 DEF Flag
    <2> QED
      BY <2>2, <2>3
  <1>5. ASSUME NEW fd \in Fds
        PROVE  Event(fd, r, w) = [fd |-> fd, events |-> Both(fd), ptr |-> ptr[fd]]
    <2>1. (IF fd \in r THEN {"IN"} ELSE {}) \cup (IF fd \in w THEN {"OUT"} ELSE {}) = Both(fd)
      BY <1>2, <1>3 DEF Flag
    <2> QED
      BY <2>1 DEF Event
  <1>6. ready_events' = {[fd |-> fd, events |-> Both(fd), ptr |-> ptr[fd]] :
                           fd \in {x \in Fds : Both(x) # {}}}
    <2> HIDE DEF r, w, Both
    <2> QED
      BY <1>1, <1>4, <1>5
  <1>7. Interest!Wait
    BY <1>1, <1>6 DEF Interest!Wait, Interest!Report, Interest!Flag, Flag
  <1>8. ready_events' \subseteq [fd : Fds, events : SUBSET Flag, ptr : Ptrs \cup {NULL}]
    <2>1. ptr \in [Fds -> Ptrs \cup {NULL}]
      BY DEF InvSets, SelTypeOK
    <2> QED
      BY <1>3, <1>6, <2>1
  <1> QED
    BY <1>1, <1>7, <1>8 DEF InvSets, SelTypeOK, Subscribed

-----------------------------------------------------------------------------
LEMMA SelInitIsMapped == SelInit => InvSets /\ Interest!Init
  BY SelectAssumption DEF SelInit, InvSets, SelTypeOK, Subscribed, Interest!Init

LEMMA SelNextIsMapped ==
  InvSets /\ [SelNext]_selVars => InvSets' /\ [Interest!Next]_(Interest!vars)
  <1> SUFFICES ASSUME InvSets, [SelNext]_selVars
               PROVE  InvSets' /\ [Interest!Next]_(Interest!vars)
    OBVIOUS
  <1>1. CASE UNCHANGED selVars
    BY <1>1 DEF selVars, InvSets, SelTypeOK, Subscribed, Interest!vars
  <1>2. ASSUME NEW fd \in Fds, NEW flag \in Flag, NEW p \in Ptrs, Set(fd, flag, p)
        PROVE  InvSets' /\ [Interest!Next]_(Interest!vars)
    BY <1>1, <1>2, SetIsMapped DEF Interest!Next, Interest!Flag, Flag
  <1>3. ASSUME NEW fd \in Fds, NEW flags \in SUBSET Flag, Unsubscribe(fd, flags)
        PROVE  InvSets' /\ [Interest!Next]_(Interest!vars)
    BY <1>3, UnsubscribeIsMapped DEF Interest!Next, Interest!Flag, Flag
  <1>4. CASE \E fd \in Fds, flag \in Flag : Clr(fd, flag)
    BY <1>1, <1>3, <1>4 DEF Clr
  <1>5. CASE \E fd \in Fds : Del(fd)
    BY <1>3, <1>5 DEF Del
  <1>6. CASE Wait
    BY <1>6, WaitIsMapped DEF Interest!Next
  <1> QED
    BY <1>1, <1>2, <1>4, <1>5, <1>6 DEF SelNext

(* What the event loop does with its subscriptions has over select() the   *)
(* effect it has on one account of interests, and wait() reports exactly   *)
(* the events wanted (fde_select.cpp).                                     *)
THEOREM SelectRefinement == SelSpec => SelectImplements
  <1> QED
    BY SelInitIsMapped, SelNextIsMapped, PTL DEF SelSpec, SelectImplements, Interest!Spec

=============================================================================
