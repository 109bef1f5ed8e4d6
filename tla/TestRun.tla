------------------------------ MODULE TestRun ------------------------------
(***************************************************************************)
(* A test as testclient/runtest has it: clients (testclient/main.cpp) that *)
(* send the requests of the files of createTest to a server, one at a time *)
(* each, under strace; and the judgement of redooutput and checkoutput on  *)
(* what strace printed.  Those two read their file once, from its start to *)
(* its end, so each line may go through them as it is printed; and a line  *)
(* of a test file may be chosen when the client first reads it.            *)
(*                                                                         *)
(* The server runs kvstore_process_packet, and may be wrong: then a value  *)
(* is another than the library's.                                          *)
(***************************************************************************)
EXTENDS CreateTest, CheckOutput

CONSTANTS
  Clients,
  KeysOf,            \* the keys of a client's file: -s starts them with a
                     \* character of the client's own
  TestValues,        \* the values createTest writes
  Leftover,          \* what parseLine() finds behind a line without a value
  TestCount,         \* -n of createTest: lines of a client's file
  MsgsPerConnection, \* -n of the client
  MayErr             \* may the server be wrong

ASSUME RunAssumption ==
  /\ KeysOf \in [Clients -> SUBSET Keys]
  /\ \A c, d \in Clients : c # d => KeysOf[c] \cap KeysOf[d] = {}
  /\ TestValues \subseteq Values /\ Leftover \subseteq Values
  /\ TestCount \in [Clients -> Nat \ {0}] /\ MsgsPerConnection \in Nat /\ MayErr \in BOOLEAN

VARIABLES
  file,        \* the lines of a client's file, as far as they are needed
  keymap,      \* createTest's keymap
  intended,    \* has a line of the file been let fail
  linecount,   \* lines read since the file was opened
  msgs_sent,   \* requests sent
  at,          \* where a client is in send_tcp_requests()
  unfinished,  \* has strace printed the call's beginning
  request,     \* the request sent last
  pending,     \* is it still to be served
  reply,       \* the response to it, or NoMsg
  truth,       \* the value the library's response has
  table,       \* the server's table
  redo,        \* redooutput's hashmap
  hashmap,     \* checkoutput's hashmap
  checkmap,    \* checkoutput's checkmap: the response expected by a pid
  verdict      \* what checkoutput made of a client's last response

clientVars == <<file, keymap, intended, linecount, msgs_sent>>
serverVars == <<table, pending, reply, truth>>
checkVars == <<hashmap, checkmap, verdict>>

runVars == <<clientVars, at, unfinished, request, serverVars, redo, checkVars>>

Line == [operation : Operation, key : Keys, value : Values,
         keymap : SUBSET Keys, fails : BOOLEAN]

NoMsg == [operation |-> "none"]

RunTypeOK ==
  /\ \A c \in Clients :
       /\ file[c] \in Seq(Line) /\ Len(file[c]) <= TestCount[c]
       /\ keymap[c] \subseteq KeysOf[c]
       /\ linecount[c] \in 0..TestCount[c]
       /\ msgs_sent[c] \in 0..MsgsPerConnection
       /\ request[c] \in {NoMsg} \cup SendMessage
       /\ reply[c] \in {NoMsg} \cup ResponseMessage
  /\ intended \in [Clients -> BOOLEAN]
  /\ at \in [Clients -> {"parse", "sending", "recv", "done"}]
  /\ unfinished \in [Clients -> BOOLEAN]
  /\ pending \in [Clients -> BOOLEAN]
  /\ table \in Table
  /\ truth \in [Clients -> Values \cup {Zeros}]
  /\ hashmap \in Table
  /\ verdict \in [Clients -> {"none", "correct", "incorrect"}]

RunInit ==
  /\ file = [c \in Clients |-> <<>>]
  /\ keymap = [c \in Clients |-> {}]
  /\ intended = [c \in Clients |-> FALSE]
  /\ linecount = [c \in Clients |-> 0]
  /\ msgs_sent = [c \in Clients |-> 0]
  /\ at = [c \in Clients |-> "parse"]
  /\ unfinished = [c \in Clients |-> FALSE]
  /\ request = [c \in Clients |-> NoMsg]
  /\ pending = [c \in Clients |-> FALSE]
  /\ reply = [c \in Clients |-> NoMsg]
  /\ truth = [c \in Clients |-> Zeros]
  /\ table = EmptyTable
  /\ redo = [c \in Clients |-> <<>>]
  /\ hashmap = EmptyMap
  /\ checkmap = [c \in Clients |-> [key |-> Absent, value |-> Zeros]]
  /\ verdict = [c \in Clients |-> "none"]

Goto(c, from, to) ==
  /\ at[c] = from
  /\ at' = [at EXCEPT ![c] = to]

-----------------------------------------------------------------------------
(* What createTest may write next in a client's file. *)
NewLines(c) ==
  UNION {{[operation |-> r.operation, key |-> r.key, value |-> v,
           keymap |-> r.keymap, fails |-> r.fails] :
             v \in IF r.operation \in {"PUT", "UPDATE"} THEN TestValues ELSE Leftover} :
           r \in UNION {Requests(keymap[c], key) : key \in KeysOf[c]}}

(* The last request asks the server to close. *)
Parsed(c, line) ==
  [operation |-> line.operation,
   keepalive |-> IF msgs_sent[c] + 1 = MsgsPerConnection THEN 0 ELSE 1,
   key |-> line.key, value |-> line.value]

(* At its end the file is opened again and its first line skipped. *)
LineToRead(c) == IF linecount[c] >= TestCount[c] THEN 1 ELSE linecount[c] + 1

(* Lines of the first pass are new; those that will be read again are kept. *)
ParseLine(c) ==
  /\ \/ /\ msgs_sent[c] < TestCount[c]
        /\ \E new \in NewLines(c) :
             /\ keymap' = [keymap EXCEPT ![c] = new.keymap]
             /\ intended' = [intended EXCEPT ![c] = @ \/ new.fails]
             /\ file' = IF Len(file[c]) < MsgsPerConnection - TestCount[c]
                          THEN [file EXCEPT ![c] = Append(@, new)] ELSE file
             /\ request' = [request EXCEPT ![c] = Parsed(c, new)]
     \/ /\ msgs_sent[c] >= TestCount[c]
        /\ request' = [request EXCEPT ![c] = Parsed(c, file[c][LineToRead(c)])]
        /\ UNCHANGED <<file, keymap, intended>>
  /\ linecount' = [linecount EXCEPT ![c] = LineToRead(c)]

Done(c) ==
  /\ msgs_sent[c] = MsgsPerConnection
  /\ Goto(c, "parse", "done")
  /\ UNCHANGED <<clientVars, unfinished, request, serverVars, redo, checkVars>>

(* A call begins.  strace prints its beginning when another client's call  *)
(* comes up before its end, with the data of a send(), without those of a  *)
(* recv().                                                                 *)
Begins(c, kept, head) ==
  \/ /\ unfinished' = [unfinished EXCEPT ![c] = TRUE]
     /\ redo' = [redo EXCEPT ![c] = Joined(kept, head)]
  \/ /\ unfinished' = [unfinished EXCEPT ![c] = FALSE]
     /\ redo' = [redo EXCEPT ![c] = kept]

(* The line that redooutput writes at its end. *)
Written(c, head, rest) ==
  Joined(redo[c], IF unfinished[c] THEN rest ELSE head \o rest)

(* checkoutput reads a line of the pid c. *)
Check(c, line) ==
  IF line[1] = "send"
  THEN LET send == parseSend(line[2]) IN
         /\ hashmap' = Replayed(hashmap, send)
         /\ checkmap' = [checkmap EXCEPT ![c] = Expected(hashmap, send)]
         /\ verdict' = [verdict EXCEPT ![c] = "none"]
  ELSE /\ verdict' = [verdict EXCEPT ![c] =
            IF compareResp(parseResponse(line[2]), checkmap[c]) THEN "correct" ELSE "incorrect"]
       /\ UNCHANGED <<hashmap, checkmap>>

(* A request is read and sent; nothing else happens to it in between. *)
Send(c) ==
  /\ msgs_sent[c] < MsgsPerConnection
  /\ Goto(c, "parse", "sending")
  /\ ParseLine(c)
  /\ msgs_sent' = [msgs_sent EXCEPT ![c] = @ + 1]
  /\ pending' = [pending EXCEPT ![c] = TRUE]
  /\ reply' = [reply EXCEPT ![c] = NoMsg]
  /\ truth' = [truth EXCEPT ![c] = Zeros]
  /\ Begins(c, redo[c], <<"send", request'[c]>>)
  /\ UNCHANGED <<table, checkVars>>

(* recv() begins as soon as send() has returned. *)
Sent(c) ==
  /\ Goto(c, "sending", "recv")
  /\ Check(c, Written(c, <<"send", request[c]>>, <<>>))
  /\ Begins(c, AfterCall(redo[c]), <<"recv">>)
  /\ UNCHANGED <<clientVars, request, serverVars>>

Received(c) ==
  /\ reply[c] # NoMsg
  /\ Goto(c, "recv", "parse")
  /\ Check(c, Written(c, <<"recv">>, <<reply[c]>>))
  /\ unfinished' = [unfinished EXCEPT ![c] = FALSE]
  /\ redo' = [redo EXCEPT ![c] = AfterCall(@)]
  /\ UNCHANGED <<clientVars, request, serverVars>>

-----------------------------------------------------------------------------
(* The server, at any time after the beginning of send(). *)
Serve(c) ==
  /\ pending[c]
  /\ pending' = [pending EXCEPT ![c] = FALSE]
  /\ table' = TableAfter(table, request[c])
  /\ LET response == ReplyTo(table, request[c]) IN
       /\ truth' = [truth EXCEPT ![c] = response.value]
       /\ \E v \in (IF MayErr THEN Values ELSE {response.value}) :
            reply' = [reply EXCEPT ![c] = [response EXCEPT !.value = v]]
  /\ UNCHANGED <<clientVars, at, unfinished, request, redo, checkVars>>

RunNext ==
  \E c \in Clients :
    Send(c) \/ Sent(c) \/ Received(c) \/ Done(c) \/ Serve(c)

RunSpec == RunInit /\ [][RunNext]_runVars

-----------------------------------------------------------------------------
(* The first pass over a file in which no failure was intended. *)
Plain(c) == ~intended[c] /\ msgs_sent[c] <= TestCount[c]

(* The files do what createTest's comments say of them: without an         *)
(* intended failure every request succeeds, in whatever order the server   *)
(* takes the requests of the clients - as long as a file is not read a     *)
(* second time, when its keys are in the table already.                    *)
InvSucceeds ==
  \A c \in Clients : Plain(c) /\ reply[c] # NoMsg => reply[c].status_code = "OK"

(* Of such files' responses, checkoutput calls exactly those correct that  *)
(* hold the library's value, although it sees the calls of the clients in  *)
(* another order than the server does and some of them in two pieces -     *)
(* save the answers to a GET of a value that is longer than 16 bytes, of   *)
(* which it knows no more than those (checkoutput.c:228).                  *)
Known(c) == request[c].operation = "GET" => truth[c] = FirstHalf(truth[c])

InvVerdict ==
  \A c \in Clients :
    Plain(c) /\ at[c] \in {"parse", "done"} /\ reply[c] # NoMsg /\ Known(c) =>
      verdict[c] = IF reply[c].value = truth[c] THEN "correct" ELSE "incorrect"

(* A test of a right server calls each of its answers correct: checkoutput *)
(* "checks that the proper response message structs were sent back by the  *)
(* server" (checkoutput.c:177).  It does not: a value of more than 16      *)
(* bytes is called incorrect when a GET brings it back.                    *)
InvJudged ==
  \A c \in Clients :
    Plain(c) /\ at[c] \in {"parse", "done"} /\ reply[c] # NoMsg /\ reply[c].value = truth[c] =>
      verdict[c] = "correct"

=============================================================================
