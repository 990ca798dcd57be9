------------------------------ MODULE LspClient ------------------------------
(***************************************************************************)
(* The JSON-RPC client of one language server (lsp/client.go, Client).     *)
(* Any number of goroutines call Request; a single reader goroutine hands  *)
(* each response to the call that waits for its id; a goroutine per server *)
(* request writes the reply.  Writers share the server's stdin under wmu.  *)
(*                                                                         *)
(* The server is a process that reads its stdin while its stdout has room, *)
(* answers in any order, repeats itself, talks unasked, writes messages    *)
(* the client cannot read, and exits at any point.                         *)
(***************************************************************************)
EXTENDS Integers, Sequences, FiniteSets

CONSTANTS
    Requests,     \* calls of RequestContext, each made once
    Cancellable,  \* those whose context may expire
    Asks,         \* requests the server makes of the client
    InCap,        \* what the server's stdin pipe holds, in halves of a message
    OutCap,       \* what its stdout pipe holds, in messages
    None

ASSUME LspClientAssumption ==
    /\ Cancellable \subseteq Requests
    /\ Requests \cap Asks = {}
    /\ None \notin Requests \cup Asks
    /\ IsFiniteSet(Requests)
    /\ InCap \in Nat /\ OutCap \in Nat \ {0}

VARIABLES
    nextID,     \* the id of the next request
    id,         \* the id of each call
    pc,         \* where each call is in RequestContext
    outcome,    \* what it returned
    pending,    \* id -> the call whose channel is registered
    ch,         \* the one-place response channel of each call
    writer,     \* the goroutine that writes a call's request or a reply
    wmu,        \* the writer that holds wmu
    reader,     \* the reader goroutine
    readerErr,  \* "dead": wraps ErrServerDead; "other": any other error
    toClose,    \* the entries the reader's final Range has yet to visit
    stdin,      \* the pipe to the server: headers and bodies, with their writer
    stdinState, \* "broken": nobody reads it; "closed": closed by the pool
    stdout,     \* the pipe from the server
    received,   \* the <<id, request>> pairs the server has read
    exited,     \* the server process is gone
    waited      \* and cmd.Wait has closed our ends of its pipes

callVars == <<nextID, id, pc, outcome>>
server == <<stdin, stdinState, stdout, received, exited, waited>>
vars == <<nextID, id, pc, outcome, pending, ch, writer, wmu, reader, readerErr,
          toClose, stdin, stdinState, stdout, received, exited, waited>>

Writers == Requests \cup Asks
IDs == 1..Cardinality(Requests)

(* Messages of the server; a response says which request it answers.  A      *)
(* "notice" is a notification or a message with neither method nor id; one   *)
(* without Content-Length is "headerless", one whose body is no JSON, or     *)
(* whose length no number, "malformed", one cut short by the exit "torn".    *)
Responses == [type : {"response"}, id : IDs, to : Requests, kind : {"result", "error"}]
Others == {[type |-> t] : t \in {"notice", "headerless", "malformed", "torn"}}
ServerAsks == [type : {"ask"}, ask : Asks]
Messages == Responses \cup Others \cup ServerAsks

Closed == [type |-> "closed"]

TypeOK ==
    /\ nextID \in Nat
    /\ id \in [Requests -> Nat]
    /\ pc \in [Requests -> {"idle", "register", "write", "await", "returned"}]
    /\ outcome \in [Requests -> {"none", "result", "error", "dead", "other", "cancelled"}]
    /\ pending \in [IDs -> Requests \cup {None}]
    /\ ch \in [Requests -> Responses \cup {Closed, None}]
    /\ writer \in [Writers -> {"none", "queued", "header", "body", "ok", "broken", "closed"}]
    /\ wmu \in {w \in Writers : writer[w] \in {"header", "body"}} \cup {None}
    /\ reader \in {"off", "running", "closing", "done"}
    /\ readerErr \in {"none", "dead", "other"}
    /\ toClose \in SUBSET IDs
    /\ stdin \in Seq({"header", "body"} \X Writers)
    /\ stdinState \in {"open", "broken", "closed"}
    /\ stdout \in Seq(Messages)
    /\ received \in SUBSET (IDs \X Requests)
    /\ exited \in BOOLEAN /\ waited \in BOOLEAN

Init ==
    /\ nextID = 1
    /\ id = [r \in Requests |-> 0]
    /\ pc = [r \in Requests |-> "idle"]
    /\ outcome = [r \in Requests |-> "none"]
    /\ pending = [i \in IDs |-> None]
    /\ ch = [r \in Requests |-> None]
    /\ writer = [w \in Writers |-> "none"]
    /\ wmu = None
    /\ reader = "off"
    /\ readerErr = "none"
    /\ toClose = {}
    /\ stdin = <<>>
    /\ stdinState = "open"
    /\ stdout = <<>>
    /\ received = {}
    /\ exited = FALSE
    /\ waited = FALSE

Registered == {i \in IDs : pending[i] # None}

------------------------------------------------------------------------------
(* RequestContext.                                                         *)

(* Mutation: the id is read and not yet incremented.                         *)
SameID == nextID
AfterThisID == nextID + 1

(* The first call starts the reader; the id is taken under mu.               *)
Begin(r) ==
    /\ pc[r] = "idle"
    /\ reader' = IF reader = "off" THEN "running" ELSE reader
    /\ id' = [id EXCEPT ![r] = nextID]
    /\ nextID' = AfterThisID
    /\ pc' = [pc EXCEPT ![r] = "register"]
    /\ UNCHANGED <<outcome, pending, ch, writer, wmu, readerErr, toClose, server>>

Register(r) ==
    /\ pc[r] = "register"
    /\ pending' = [pending EXCEPT ![id[r]] = r]
    /\ writer' = [writer EXCEPT ![r] = "queued"]
    /\ pc' = [pc EXCEPT ![r] = "write"]
    /\ UNCHANGED <<nextID, id, outcome, ch, wmu, reader, readerErr, toClose, server>>

(* The call returns; its deferred Delete forgets whatever is under its id,   *)
(* and nobody looks at its channel again.                                    *)
ReturnWith(r, result) ==
    /\ pc' = [pc EXCEPT ![r] = "returned"]
    /\ outcome' = [outcome EXCEPT ![r] = result]
    /\ pending' = [pending EXCEPT ![id[r]] = None]
    /\ ch' = [ch EXCEPT ![r] = None]
    /\ UNCHANGED <<nextID, id, writer, wmu, reader, readerErr, toClose, server>>

(* io.ErrClosedPipe and os.ErrClosed are reported as ErrServerDead, EPIPE is *)
(* passed on as it is.                                                       *)
Written(r) ==
    /\ pc[r] = "write"
    /\ \/ /\ writer[r] = "ok"
          /\ pc' = [pc EXCEPT ![r] = "await"]
          /\ UNCHANGED <<nextID, id, outcome, pending, ch, writer, wmu, reader, readerErr,
                         toClose, server>>
       \/ writer[r] = "closed" /\ ReturnWith(r, "dead")
       \/ writer[r] = "broken" /\ ReturnWith(r, "other")

ReceiveAnswer(r) ==
    /\ pc[r] = "await"
    /\ ch[r] # None /\ ch[r] # Closed
    /\ ReturnWith(r, ch[r].kind)

ReceiveClosed(r) ==
    /\ pc[r] = "await"
    /\ ch[r] = Closed
    /\ ReturnWith(r, readerErr)

(* Mutation: the select does not listen to readerDone (PIV-BUG-2).           *)
IgnoreReaderDone(r) == r \notin Requests

(* select chooses freely between a delivered answer and readerDone.          *)
SeeReaderDone(r) ==
    /\ pc[r] = "await"
    /\ reader = "done"
    /\ ReturnWith(r, readerErr)

Cancel(r) ==
    /\ r \in Cancellable
    /\ pc[r] \in {"write", "await"}
    /\ ReturnWith(r, "cancelled")

------------------------------------------------------------------------------
(* writeMessage: the header, then the body, under wmu.  A write blocks while *)
(* the pipe is full.                                                         *)

(* Mutation: writes are not serialized.                                      *)
Unserialized(w) == w \in Writers
WriteTurn(w) == wmu = None

LockWriter(w) ==
    /\ writer[w] = "queued"
    /\ WriteTurn(w)
    /\ wmu' = w
    /\ writer' = [writer EXCEPT ![w] = "header"]
    /\ UNCHANGED <<callVars, pending, ch, reader, readerErr, toClose, server>>

WritePart(w) ==
    /\ writer[w] \in {"header", "body"}
    /\ stdinState = "open" /\ Len(stdin) < InCap
    /\ stdin' = Append(stdin, <<writer[w], w>>)
    /\ writer' = [writer EXCEPT ![w] = IF @ = "header" THEN "body" ELSE "ok"]
    /\ wmu' = IF writer[w] = "body" THEN None ELSE wmu
    /\ UNCHANGED <<callVars, pending, ch, reader, readerErr, toClose, stdinState, stdout,
                   received, exited, waited>>

WriteFails(w) ==
    /\ writer[w] \in {"header", "body"}
    /\ stdinState # "open"
    /\ writer' = [writer EXCEPT ![w] = stdinState]
    /\ wmu' = None
    /\ UNCHANGED <<callVars, pending, ch, reader, readerErr, toClose, server>>

------------------------------------------------------------------------------
(* The reader goroutine.                                                   *)

Reading(type) ==
    /\ reader = "running"
    /\ stdout # <<>>
    /\ Head(stdout).type = type
    /\ stdout' = Tail(stdout)
    /\ UNCHANGED <<callVars, stdin, stdinState, received, exited, waited, wmu>>

LoadAndDelete(i) == [pending EXCEPT ![i] = None]

(* LoadAndDelete, then a send that blocks while the channel is full.         *)
ReadResponse ==
    /\ Reading("response")
    /\ LET i == Head(stdout).id
           r == pending[i] IN
       IF r = None
       THEN UNCHANGED <<pending, ch>>
       ELSE /\ ch[r] = None
            /\ ch' = [ch EXCEPT ![r] = Head(stdout)]
            /\ pending' = LoadAndDelete(i)
    /\ UNCHANGED <<writer, reader, readerErr, toClose>>

(* A notification runs its handler in this goroutine; a message with neither *)
(* method nor id is dropped.                                                 *)
ReadNotice ==
    /\ Reading("notice")
    /\ UNCHANGED <<pending, ch, writer, reader, readerErr, toClose>>

(* Mutation: the reader writes the reply itself.                             *)
ReplyInline ==
    /\ reader = "running"
    /\ stdout # <<>> /\ Head(stdout).type = "ask"
    /\ wmu = None /\ Len(stdin) + 2 <= InCap
    /\ stdout' = Tail(stdout)
    /\ stdin' = stdin \o <<<<"header", Head(stdout).ask>>, <<"body", Head(stdout).ask>>>>
    /\ writer' = [writer EXCEPT ![Head(stdout).ask] = "ok"]
    /\ UNCHANGED <<callVars, pending, ch, wmu, reader, readerErr, toClose, stdinState,
                   received, exited, waited>>

(* dispatchServerRequest runs in a goroutine of its own and writes one reply, *)
(* MethodNotFound when there is no handler.                                   *)
ReadAsk ==
    /\ Reading("ask")
    /\ writer' = [writer EXCEPT ![Head(stdout).ask] = "queued"]
    /\ UNCHANGED <<pending, ch, reader, readerErr, toClose>>

(* Any error ends the reader: it then visits the entries registered now, and  *)
(* perhaps some registered meanwhile.                                         *)
EndReader(err) ==
    /\ reader' = "closing"
    /\ readerErr' = err
    /\ toClose' = Registered
    /\ UNCHANGED <<pending, ch, writer>>

ReadGarbage ==
    \/ (Reading("malformed") \/ Reading("torn")) /\ EndReader("other")
    \/ Reading("headerless") /\ EndReader("dead")

ReadEOF ==
    /\ reader = "running"
    /\ stdout = <<>> /\ exited
    /\ EndReader("dead")
    /\ UNCHANGED <<callVars, wmu, server>>

(* A read from the closed pipe is os.ErrClosed, which readMessage passes on  *)
(* as it is; what the pipe still held is lost, but not what is buffered.     *)
ReadClosed ==
    /\ reader = "running"
    /\ waited
    /\ EndReader("other")
    /\ UNCHANGED <<callVars, wmu, server>>

CloseEntry(i) ==
    /\ reader = "closing"
    /\ i \in Registered
    /\ ch' = [ch EXCEPT ![pending[i]] = Closed]
    /\ pending' = [pending EXCEPT ![i] = None]
    /\ toClose' = toClose \ {i}
    /\ UNCHANGED <<callVars, writer, wmu, reader, readerErr, server>>

(* Range is over: close(readerDone).                                         *)
CloseReaderDone ==
    /\ reader = "closing"
    /\ toClose \cap Registered = {}
    /\ reader' = "done"
    /\ toClose' = {}
    /\ UNCHANGED <<callVars, pending, ch, writer, wmu, readerErr, server>>

------------------------------------------------------------------------------
(* The server and its pipes.                                               *)

client == <<callVars, pending, ch, writer, wmu, reader, readerErr, toClose>>

Say(m) ==
    /\ ~exited /\ Len(stdout) < OutCap
    /\ stdout' = Append(stdout, m)
    /\ UNCHANGED <<client, stdin, stdinState, received, exited, waited>>

(* It reads a whole message, while it is not blocked writing.                *)
ServerRead ==
    /\ ~exited /\ Len(stdout) < OutCap
    /\ Len(stdin) >= 2
    /\ LET w == stdin[1][2] IN
       received' = IF w \in Requests THEN received \cup {<<id[w], w>>} ELSE received
    /\ stdin' = Tail(Tail(stdin))
    /\ UNCHANGED <<client, stdinState, stdout, exited, waited>>

(* The request stays in "received": the server may answer it again.          *)
Answer(r) ==
    \E p \in received, k \in {"result", "error"} :
        /\ p[2] = r
        /\ Say([type |-> "response", id |-> p[1], to |-> r, kind |-> k])

Chatter == \E m \in Others : m.type # "torn" /\ Say(m)

(* Each request once.                                                        *)
Ask(a) ==
    LET ask == [type |-> "ask", ask |-> a]
    IN  /\ writer[a] = "none" /\ \A n \in DOMAIN stdout : stdout[n] # ask
        /\ Say(ask)

(* The process dies, perhaps in the middle of a message.                     *)
ServerExit ==
    /\ ~exited
    /\ exited' = TRUE
    /\ \/ UNCHANGED stdout
       \/ Len(stdout) < OutCap /\ stdout' = Append(stdout, [type |-> "torn"])
    /\ UNCHANGED <<client, stdin, stdinState, received, waited>>

(* The last process that held the read end of stdin is gone.                 *)
StdinBreaks ==
    /\ exited /\ stdinState = "open"
    /\ stdinState' = "broken"
    /\ UNCHANGED <<client, stdin, stdout, received, exited, waited>>

(* cmd.Wait, in the goroutine of spawnServer, closes our ends of both pipes. *)
WaitReturns ==
    /\ exited /\ ~waited
    /\ waited' = TRUE
    /\ stdinState' = "closed"
    /\ UNCHANGED <<client, stdin, stdout, received, exited>>

(* The pool closes stdin (shutdownEntry).                                    *)
CloseStdin ==
    /\ stdinState # "closed"
    /\ stdinState' = "closed"
    /\ UNCHANGED <<client, stdin, stdout, received, exited, waited>>

------------------------------------------------------------------------------

CallStep(r) ==
    \/ Register(r) \/ Written(r)
    \/ ReceiveAnswer(r) \/ ReceiveClosed(r) \/ SeeReaderDone(r)

WriterStep(w) == WritePart(w) \/ WriteFails(w)

ReaderStep ==
    \/ ReadResponse \/ ReadNotice \/ ReadAsk \/ ReadGarbage \/ ReadEOF
    \/ ReadClosed \/ (\E i \in IDs : CloseEntry(i)) \/ CloseReaderDone

Next ==
    \/ \E r \in Requests : Begin(r) \/ CallStep(r) \/ Cancel(r) \/ Answer(r)
    \/ \E w \in Writers : LockWriter(w) \/ WriterStep(w)
    \/ ReaderStep
    \/ ServerRead \/ Chatter \/ (\E a \in Asks : Ask(a))
    \/ ServerExit \/ StdinBreaks \/ WaitReturns \/ CloseStdin

Spec == Init /\ [][Next]_vars

(* Goroutines run, wmu is starvation-free, a pipe without readers breaks.    *)
ClientFairness ==
    /\ \A r \in Requests : WF_vars(CallStep(r))
    /\ \A w \in Writers : SF_vars(LockWriter(w)) /\ WF_vars(WriterStep(w))
    /\ WF_vars(ReaderStep)
    /\ WF_vars(StdinBreaks)

(* A server that reads what it is sent and answers it, however much it       *)
(* chatters in between.                                                      *)
ServerFairness ==
    /\ SF_vars(ServerRead)
    /\ \A r \in Requests : SF_vars(Answer(r))

DyingSpec == Spec /\ ClientFairness
FairSpec == DyingSpec /\ ServerFairness

------------------------------------------------------------------------------
(* What the client promises.                                               *)

(* A call gets the answer to its own request, never one to another call's or *)
(* a late one to a call that has given up: ids are unique and an entry is    *)
(* forgotten before its channel is used.                                     *)
AnswersOwnRequest ==
    \A r \in Requests : ch[r] \notin {None, Closed} => ch[r].to = r

(* The server reads whole messages: a header is followed by the body of the  *)
(* same message, whoever else writes.                                        *)
FramesWhole ==
    \A n \in 1..Len(stdin) :
        stdin[n][1] = "header" /\ n < Len(stdin) => stdin[n + 1] = <<"body", stdin[n][2]>>

(* PIV-BUG-2: when the server has exited every call returns, also one that   *)
(* registers its channel after the reader has closed the others.             *)
DeathUnblocks ==
    \A r \in Requests : (exited /\ pc[r] # "idle") ~> pc[r] = "returned"

(* With a server that answers, every call returns, however the answers,      *)
(* repeated answers, notifications and server requests are interleaved,      *)
(* unless the server writes a message the reader cannot decode and lives on. *)
EveryCallReturns ==
    \A r \in Requests :
        pc[r] # "idle" ~> (pc[r] = "returned" \/ (reader \in {"closing", "done"} /\ ~exited))

==============================================================================
