--------------------------- MODULE LspClientProofs ---------------------------
(***************************************************************************)
(* Proofs about the client of ScansAndClient: types, whose answer a call   *)
(* gets, and what the server reads.  For any number of calls and of        *)
(* requests of the server, and pipes of any size.                          *)
(***************************************************************************)
EXTENDS ScansAndClient, SequenceTheorems, FiniteSetTheorems, TLAPS

(* The instance counts as this module does.                                  *)
LEMMA CountsAgree == \A S : Client!Cardinality(S) = Cardinality(S)
  BY DEF Client!Cardinality, Cardinality

Begun == {r \in Requests : pc[r] # "idle"}

(* Client!TypeOK in parts.                                                   *)
CallsTyped ==
    /\ nextID \in Nat
    /\ id \in [Requests -> Nat]
    /\ pc \in [Requests -> {"idle", "register", "write", "await", "returned"}]
    /\ outcome \in [Requests -> {"none", "result", "error", "dead", "other", "cancelled"}]

ChannelsTyped ==
    /\ pending \in [Client!IDs -> Requests \cup {None}]
    /\ ch \in [Requests -> Client!Responses \cup {Client!Closed, None}]

WritersTyped ==
    /\ writer \in [Client!Writers ->
                     {"none", "queued", "header", "body", "ok", "broken", "closed"}]
    /\ wmu \in {w \in Client!Writers : writer[w] \in {"header", "body"}} \cup {None}

ReaderTyped ==
    /\ reader \in {"off", "running", "closing", "done"}
    /\ readerErr \in {"none", "dead", "other"}
    /\ toClose \in SUBSET Client!IDs

WireTyped ==
    /\ stdin \in Seq({"header", "body"} \X Client!Writers)
    /\ stdinState \in {"open", "broken", "closed"}
    /\ stdout \in Seq(Client!Messages)

ServerTyped ==
    /\ received \in SUBSET (Client!IDs \X Requests)
    /\ exited \in BOOLEAN /\ waited \in BOOLEAN

LEMMA Types ==
  Client!TypeOK <=> /\ CallsTyped /\ ChannelsTyped /\ WritersTyped
                    /\ ReaderTyped /\ WireTyped /\ ServerTyped
  BY DEF Client!TypeOK, CallsTyped, ChannelsTyped, WritersTyped, ReaderTyped, WireTyped,
         ServerTyped

(* Ids are given once, and there are as many as calls.                       *)
IdsUnique ==
    /\ nextID = Cardinality(Begun) + 1
    /\ \A r \in Requests :
         /\ IF pc[r] = "idle" THEN id[r] = 0 ELSE id[r] \in Client!IDs /\ id[r] < nextID
         /\ \A q \in Requests : id[r] = id[q] /\ id[r] # 0 => r = q

(* An entry is under the id of a call that waits; its channel is empty.      *)
EntriesOfCallers ==
    \A i \in Client!IDs : pending[i] # None =>
      id[pending[i]] = i /\ pc[pending[i]] \in {"write", "await"}

(* What was sent, received and answered is of calls that have begun, and     *)
(* carries their ids; what the server asks is asked once.                    *)
Sent ==
    /\ \A r \in Requests : pc[r] \in {"idle", "register"} => writer[r] = "none"
    /\ \A n \in 1..Len(stdin) : writer[stdin[n][2]] # "none"
    /\ \A p \in received : pc[p[2]] # "idle" /\ p[1] = id[p[2]]

OfBegun(m) == m.type = "response" => pc[m.to] # "idle" /\ m.id = id[m.to]

Said ==
    \A n \in 1..Len(stdout) :
      /\ OfBegun(stdout[n])
      /\ stdout[n].type = "ask" =>
           /\ writer[stdout[n].ask] = "none"
           /\ \A m \in 1..Len(stdout) : stdout[m] = stdout[n] => m = n

(* Headers and bodies alternate in the pipe; while it is open, a header at   *)
(* its end is of the writer who holds wmu and writes the body next.          *)
Alternate ==
    /\ stdin # <<>> => stdin[1][1] = "header"
    /\ \A n \in 1..Len(stdin) : n < Len(stdin) =>
         IF stdin[n][1] = "header" THEN stdin[n + 1] = <<"body", stdin[n][2]>>
         ELSE stdin[n + 1][1] = "header"

Ends ==
    stdinState = "open" =>
      IF wmu # None /\ writer[wmu] = "body"
      THEN stdin # <<>> /\ stdin[Len(stdin)] = <<"header", wmu>>
      ELSE stdin = <<>> \/ stdin[Len(stdin)][1] = "body"

OneWrites == \A w \in Client!Writers : writer[w] \in {"header", "body"} => wmu = w

ClientInv ==
    /\ CallsTyped /\ ChannelsTyped /\ WritersTyped
    /\ ReaderTyped /\ WireTyped /\ ServerTyped
    /\ IdsUnique /\ EntriesOfCallers /\ Sent /\ Said /\ Client!AnswersOwnRequest
    /\ Alternate /\ Ends /\ OneWrites

LEMMA InitClient == ClientAssumed /\ Client!Init => ClientInv
<1> SUFFICES ASSUME ClientAssumed, Client!Init PROVE ClientInv
  OBVIOUS
<1> USE DEF Client!Init
<1>1. CallsTyped /\ ChannelsTyped
  BY DEF CallsTyped, ChannelsTyped
<1>2. WritersTyped
  BY DEF WritersTyped
<1>3. ReaderTyped /\ ServerTyped
  BY DEF ReaderTyped, ServerTyped
<1>4. WireTyped
  BY DEF WireTyped
<1>5. IdsUnique
  <2>1. Begun = {}
    BY DEF Begun
  <2>2. QED
    BY <2>1, FS_EmptySet DEF IdsUnique
<1>6. EntriesOfCallers /\ Sent /\ Said /\ Client!AnswersOwnRequest
  <2>1. EntriesOfCallers
    BY DEF EntriesOfCallers
  <2>2. Sent
    <3>1. writer = [w \in Client!Writers |-> "none"] /\ Requests \subseteq Client!Writers
      BY DEF Client!Writers
    <3>2. QED
      BY <3>1 DEF Sent
  <2>3. Said
    BY DEF Said
  <2>4. Client!AnswersOwnRequest
    BY DEF Client!AnswersOwnRequest
  <2>5. QED
    BY <2>1, <2>2, <2>3, <2>4
<1>7. Alternate /\ Ends /\ OneWrites
  BY DEF Alternate, Ends, OneWrites, Client!Writers
<1>8. QED
  BY <1>1, <1>2, <1>3, <1>4, <1>5, <1>6, <1>7 DEF ClientInv

------------------------------------------------------------------------------
(* What a step leaves alone.                                                 *)

LEMMA IdsKeep ==
  ASSUME ClientInv, UNCHANGED <<nextID, id>>,
         \A r \in Requests : pc'[r] = "idle" <=> pc[r] = "idle"
  PROVE  IdsUnique'
<1>1. Begun' = Begun
  BY DEF Begun
<1>2. QED
  BY <1>1 DEF ClientInv, IdsUnique, Client!IDs

(* Calls move on, writers begin, channels are emptied or closed.             *)
LEMMA SentKeeps ==
  ASSUME ClientInv, UNCHANGED <<stdin, received>>,
         \A r \in Requests : pc[r] # "idle" => pc'[r] # "idle" /\ id'[r] = id[r],
         \A r \in Requests : pc'[r] \in {"idle", "register"} => writer'[r] = "none",
         \A w \in Client!Writers : writer[w] # "none" => writer'[w] # "none"
  PROVE  Sent'
<1>1. \A n \in 1..Len(stdin) : stdin[n][2] \in Client!Writers
  BY DEF ClientInv, WireTyped
<1>2. \A p \in received : p[2] \in Requests
  BY DEF ClientInv, ServerTyped
<1>3. QED
  BY <1>1, <1>2 DEF ClientInv, Sent

LEMMA SaidKeeps ==
  ASSUME ClientInv, UNCHANGED stdout,
         \A r \in Requests : pc[r] # "idle" => pc'[r] # "idle" /\ id'[r] = id[r],
         \A a \in Asks : writer[a] = "none" => writer'[a] = "none"
  PROVE  Said'
<1>1. \A n \in 1..Len(stdout) : /\ stdout[n].type = "response" => stdout[n].to \in Requests
                                /\ stdout[n].type = "ask" => stdout[n].ask \in Asks
  <2>1. \A n \in 1..Len(stdout) : stdout[n] \in Client!Messages
    BY DEF ClientInv, WireTyped
  <2>2. QED
    BY <2>1 DEF Client!Messages, Client!Responses, Client!Others, Client!ServerAsks
<1>2. QED
  BY <1>1 DEF ClientInv, Said, OfBegun

(* Nothing is written, and whoever writes goes on.                           *)
LEMMA WireKeeps ==
  ASSUME ClientInv, UNCHANGED <<stdin, wmu>>, stdinState' \in {stdinState, "broken", "closed"},
         \A w \in Client!Writers :
           \/ writer'[w] = writer[w]
           \/ w # wmu /\ writer'[w] \notin {"header", "body"}
  PROVE  Alternate' /\ Ends' /\ OneWrites'
  BY DEF ClientInv, WireTyped, WritersTyped, Alternate, Ends, OneWrites

(* The heads of the pipes, and what a message is.                            *)
LEMMA MessagesTyped ==
  \A m \in Client!Messages :
    /\ m.type = "response" => m \in Client!Responses
    /\ m.type = "ask" => m.ask \in Asks
  BY DEF Client!Messages, Client!Responses, Client!Others, Client!ServerAsks

LEMMA CallersKnown ==
  ASSUME ClientInv, NEW r \in Requests, pc[r] # "idle"
  PROVE  id[r] \in Client!IDs /\ r \in Client!Writers
  BY DEF ClientInv, IdsUnique, Client!Writers

------------------------------------------------------------------------------
(* The steps of a call.                                                      *)

LEMMA BeginKeeps ==
  ASSUME ClientAssumed, ClientInv, NEW r \in Requests, Client!Begin(r)
  PROVE  ClientInv'
<1> USE DEF Client!Begin
<1>1. /\ pc[r] = "idle" /\ pc' = [pc EXCEPT ![r] = "register"]
      /\ id' = [id EXCEPT ![r] = nextID] /\ nextID' = nextID + 1
      /\ UNCHANGED <<outcome, pending, ch, writer, wmu, readerErr, toClose, stdin, stdinState,
                     stdout, received, exited, waited>>
  BY DEF Client!server, Client!AfterThisID
<1>2. /\ nextID \in Nat /\ \A q \in Requests : id[q] \in Nat
      /\ \A q \in Requests : q # r => id'[q] = id[q] /\ pc'[q] = pc[q]
      /\ id'[r] = nextID /\ pc'[r] = "register"
  BY <1>1 DEF ClientInv, CallsTyped
<1>3. CallsTyped' /\ ReaderTyped'
  BY <1>1, <1>2 DEF ClientInv, CallsTyped, ReaderTyped
<1>4. ChannelsTyped' /\ WritersTyped' /\ WireTyped' /\ ServerTyped'
  BY <1>1 DEF ClientInv, ChannelsTyped, WritersTyped, WireTyped, ServerTyped
<1>5. IdsUnique'
  <2>1. Begun' = Begun \cup {r} /\ r \notin Begun /\ Begun' \subseteq Requests
    BY <1>1, <1>2 DEF Begun
  <2>2. /\ IsFiniteSet(Begun) /\ IsFiniteSet(Begun') /\ IsFiniteSet(Requests)
        /\ Cardinality(Begun') = Cardinality(Begun) + 1
    BY <2>1, FS_Subset, FS_AddElement DEF ClientAssumed
  <2>3. Cardinality(Begun') \in Nat /\ Cardinality(Begun) \in Nat
        /\ Cardinality(Requests) \in Nat /\ Cardinality(Begun') <= Cardinality(Requests)
    BY <2>1, <2>2, FS_CardinalityType, FS_Subset
  <2>4. nextID = Cardinality(Begun') /\ nextID' = Cardinality(Begun') + 1
    BY <1>1, <2>2 DEF ClientInv, IdsUnique
  <2>5. nextID \in Client!IDs /\ nextID < nextID' /\ nextID # 0
    BY <2>2, <2>3, <2>4, CountsAgree DEF Client!IDs
  <2>6. \A q \in Requests : IF pc[q] = "idle" THEN id[q] = 0
                            ELSE id[q] \in Client!IDs /\ id[q] < nextID
    BY DEF ClientInv, IdsUnique
  <2>7. \A q \in Requests : IF pc'[q] = "idle" THEN id'[q] = 0
                            ELSE id'[q] \in Client!IDs /\ id'[q] < nextID'
    BY <1>2, <2>3, <2>4, <2>5, <2>6
  <2>8. ASSUME NEW p \in Requests, NEW q \in Requests, id'[p] = id'[q], id'[p] # 0
        PROVE  p = q
    BY <1>2, <2>6, <2>8 DEF ClientInv, IdsUnique
  <2>9. QED
    BY <2>4, <2>7, <2>8 DEF IdsUnique, Client!IDs
<1>6. EntriesOfCallers'
  BY <1>1, <1>2 DEF ClientInv, ChannelsTyped, EntriesOfCallers, Client!IDs
<1>7. Sent' /\ Said'
  <2>1. writer[r] = "none"
    BY <1>1 DEF ClientInv, Sent
  <2>2. \A q \in Requests : pc'[q] \in {"idle", "register"} => writer'[q] = "none"
    BY <1>1, <1>2, <2>1 DEF ClientInv, Sent
  <2>3. QED
    BY <1>1, <1>2, <2>2, SentKeeps, SaidKeeps
<1>8. Client!AnswersOwnRequest' /\ Alternate' /\ Ends' /\ OneWrites'
  BY <1>1, WireKeeps DEF ClientInv, Client!AnswersOwnRequest, Client!Closed
<1>9. QED
  BY <1>3, <1>4, <1>5, <1>6, <1>7, <1>8 DEF ClientInv

LEMMA RegisterKeeps ==
  ASSUME ClientAssumed, ClientInv, NEW r \in Requests, Client!Register(r)
  PROVE  ClientInv'
<1>1. /\ pc[r] = "register" /\ pc' = [pc EXCEPT ![r] = "write"]
      /\ pending' = [pending EXCEPT ![id[r]] = r] /\ writer' = [writer EXCEPT ![r] = "queued"]
      /\ UNCHANGED <<nextID, id, outcome, ch, wmu, reader, readerErr, toClose, stdin,
                     stdinState, stdout, received, exited, waited>>
  BY DEF Client!Register, Client!server
<1>2. id[r] \in Client!IDs /\ r \in Client!Writers /\ writer[r] = "none" /\ wmu # r
  <2>1. writer[r] = "none" /\ id[r] \in Client!IDs /\ r \in Client!Writers
    BY <1>1, CallersKnown DEF ClientInv, Sent
  <2>2. QED
    BY <2>1 DEF ClientInv, WritersTyped, ClientAssumed
<1>3. /\ \A q \in Requests : pc'[q] = IF q = r THEN "write" ELSE pc[q]
      /\ \A w \in Client!Writers : writer'[w] = IF w = r THEN "queued" ELSE writer[w]
      /\ \A i \in Client!IDs : pending'[i] = IF i = id[r] THEN r ELSE pending[i]
  BY <1>1 DEF ClientInv, CallsTyped, WritersTyped, ChannelsTyped
<1>4. CallsTyped' /\ ChannelsTyped' /\ ReaderTyped' /\ WireTyped' /\ ServerTyped'
  BY <1>1 DEF ClientInv, CallsTyped, ChannelsTyped, ReaderTyped, WireTyped, ServerTyped,
       Client!IDs
<1>5. WritersTyped'
  BY <1>1, <1>2, <1>3 DEF ClientInv, WritersTyped
<1>6. IdsUnique'
  BY <1>1, <1>3, IdsKeep
<1>7. EntriesOfCallers'
  BY <1>1, <1>3 DEF ClientInv, ChannelsTyped, EntriesOfCallers, Client!IDs
<1>8. Sent' /\ Said'
  <2>1. \A q \in Requests : pc'[q] \in {"idle", "register"} => writer'[q] = "none"
    BY <1>3 DEF ClientInv, Sent, Client!Writers
  <2>2. \A a \in Asks : writer'[a] = writer[a]
    BY <1>3 DEF ClientAssumed, Client!Writers
  <2>3. QED
    BY <1>1, <1>3, <2>1, <2>2, SentKeeps, SaidKeeps
<1>9. Client!AnswersOwnRequest' /\ Alternate' /\ Ends' /\ OneWrites'
  BY <1>1, <1>2, <1>3, WireKeeps DEF ClientInv, Client!AnswersOwnRequest, Client!Closed
<1>10. QED
  BY <1>4, <1>5, <1>6, <1>7, <1>8, <1>9 DEF ClientInv

LEMMA ReturnKeeps ==
  ASSUME ClientAssumed, ClientInv, NEW r \in Requests, pc[r] \in {"write", "await"},
         NEW result \in {"none", "result", "error", "dead", "other", "cancelled"},
         Client!ReturnWith(r, result)
  PROVE  ClientInv'
<1>1. /\ pc' = [pc EXCEPT ![r] = "returned"] /\ outcome' = [outcome EXCEPT ![r] = result]
      /\ pending' = [pending EXCEPT ![id[r]] = None] /\ ch' = [ch EXCEPT ![r] = None]
      /\ UNCHANGED <<nextID, id, writer, wmu, reader, readerErr, toClose, stdin, stdinState,
                     stdout, received, exited, waited>>
  BY DEF Client!ReturnWith, Client!server
<1>2. /\ \A q \in Requests : /\ pc'[q] = IF q = r THEN "returned" ELSE pc[q]
                             /\ ch'[q] = IF q = r THEN None ELSE ch[q]
      /\ \A i \in Client!IDs : pending'[i] = IF i = id[r] THEN None ELSE pending[i]
  BY <1>1 DEF ClientInv, CallsTyped, ChannelsTyped
<1>3. CallsTyped' /\ ChannelsTyped'
  BY <1>1 DEF ClientInv, CallsTyped, ChannelsTyped, Client!IDs
<1>4. WritersTyped' /\ ReaderTyped' /\ WireTyped' /\ ServerTyped'
  BY <1>1 DEF ClientInv, WritersTyped, ReaderTyped, WireTyped, ServerTyped
<1>5. IdsUnique'
  BY <1>1, <1>2, IdsKeep
<1>6. EntriesOfCallers'
  <2>1. ASSUME NEW i \in Client!IDs, pending'[i] # None
        PROVE  id[pending'[i]] = i /\ pc'[pending'[i]] \in {"write", "await"}
    <3>1. i # id[r] /\ pending'[i] = pending[i] /\ pending[i] \in Requests
      BY <1>2, <2>1 DEF ClientInv, ChannelsTyped
    <3>2. id[pending[i]] = i /\ pc[pending[i]] \in {"write", "await"}
      BY <3>1, <2>1 DEF ClientInv, EntriesOfCallers
    <3>3. QED
      BY <1>2, <3>1, <3>2
  <2>2. QED
    BY <1>1, <2>1 DEF EntriesOfCallers, Client!IDs
<1>7. Sent' /\ Said'
  <2>1. \A q \in Requests : pc'[q] \in {"idle", "register"} => writer'[q] = "none"
    BY <1>1, <1>2 DEF ClientInv, Sent
  <2>2. QED
    BY <1>1, <1>2, <2>1, SentKeeps, SaidKeeps
<1>8. Client!AnswersOwnRequest' /\ Alternate' /\ Ends' /\ OneWrites'
  BY <1>1, <1>2, WireKeeps DEF ClientInv, Client!AnswersOwnRequest, Client!Closed
<1>9. QED
  BY <1>3, <1>4, <1>5, <1>6, <1>7, <1>8 DEF ClientInv

LEMMA CallStepKeeps ==
  ASSUME ClientAssumed, ClientInv, NEW r \in Requests, Client!CallStep(r) \/ Client!Cancel(r)
  PROVE  ClientInv'
<1>1. CASE Client!Register(r)
  BY <1>1, RegisterKeeps
<1>2. CASE pc[r] = "write" /\ pc' = [pc EXCEPT ![r] = "await"]
           /\ UNCHANGED <<nextID, id, outcome, pending, ch, writer, wmu, reader, readerErr,
                          toClose, stdin, stdinState, stdout, received, exited, waited>>
  <2>1. \A q \in Requests : pc'[q] = IF q = r THEN "await" ELSE pc[q]
    BY <1>2 DEF ClientInv, CallsTyped
  <2>2. /\ CallsTyped' /\ ChannelsTyped' /\ WritersTyped' /\ ReaderTyped' /\ WireTyped'
        /\ ServerTyped'
    BY <1>2 DEF ClientInv, CallsTyped, ChannelsTyped, WritersTyped, ReaderTyped, WireTyped,
         ServerTyped, Client!IDs
  <2>3. IdsUnique' /\ EntriesOfCallers'
    BY <1>2, <2>1, IdsKeep DEF ClientInv, ChannelsTyped, EntriesOfCallers, Client!IDs
  <2>4. \A q \in Requests : pc'[q] \in {"idle", "register"} => writer'[q] = "none"
    BY <1>2, <2>1 DEF ClientInv, Sent
  <2>5. Sent' /\ Said'
    BY <1>2, <2>1, <2>4, SentKeeps, SaidKeeps
  <2>6. Client!AnswersOwnRequest' /\ Alternate' /\ Ends' /\ OneWrites'
    BY <1>2, WireKeeps DEF ClientInv, Client!AnswersOwnRequest, Client!Closed
  <2>7. QED
    BY <2>2, <2>3, <2>5, <2>6 DEF ClientInv
<1>3. ASSUME pc[r] \in {"write", "await"},
             NEW result \in {"none", "result", "error", "dead", "other", "cancelled"},
             Client!ReturnWith(r, result)
      PROVE  ClientInv'
  BY <1>3, ReturnKeeps
<1>4. CASE Client!Written(r)
  BY <1>2, <1>3, <1>4 DEF Client!Written, Client!server
<1>5. CASE Client!ReceiveAnswer(r)
  <2>1. ch[r] \in Client!Responses
    BY <1>5 DEF Client!ReceiveAnswer, ClientInv, ChannelsTyped
  <2>2. ch[r].kind \in {"result", "error"}
    BY <2>1 DEF Client!Responses
  <2>3. QED
    BY <1>3, <1>5, <2>2 DEF Client!ReceiveAnswer
<1>6. CASE Client!ReceiveClosed(r) \/ Client!SeeReaderDone(r)
  <2>1. readerErr \in {"none", "dead", "other"}
    BY DEF ClientInv, ReaderTyped
  <2>2. QED
    BY <1>3, <1>6, <2>1 DEF Client!ReceiveClosed, Client!SeeReaderDone
<1>7. CASE Client!Cancel(r)
  BY <1>3, <1>7 DEF Client!Cancel
<1>8. QED
  BY <1>1, <1>4, <1>5, <1>6, <1>7 DEF Client!CallStep

------------------------------------------------------------------------------
(* Steps that are of no call.                                                *)

LEMMA CallsRest ==
  ASSUME ClientInv, UNCHANGED Client!callVars
  PROVE  CallsTyped' /\ IdsUnique'
  BY IdsKeep DEF Client!callVars, ClientInv, CallsTyped

LEMMA EntriesRest ==
  ASSUME ClientInv, UNCHANGED Client!callVars, UNCHANGED <<pending, ch>>
  PROVE  ChannelsTyped' /\ EntriesOfCallers' /\ Client!AnswersOwnRequest'
  BY DEF Client!callVars, ClientInv, ChannelsTyped, EntriesOfCallers,
     Client!AnswersOwnRequest,
         Client!IDs, Client!Responses, Client!Closed

LEMMA ServerRests ==
  ASSUME ClientInv, UNCHANGED Client!server
  PROVE  WireTyped' /\ ServerTyped'
  BY DEF Client!server, ClientInv, WireTyped, ServerTyped

(* A writer goes on: its state is what it is, those of the others stay.      *)
LEMMA LockWriterKeeps ==
  ASSUME ClientAssumed, ClientInv, NEW w \in Client!Writers, Client!LockWriter(w)
  PROVE  ClientInv'
<1>1. /\ writer[w] = "queued" /\ wmu = None /\ wmu' = w
      /\ writer' = [writer EXCEPT ![w] = "header"]
      /\ UNCHANGED <<nextID, id, pc, outcome, pending, ch, reader, readerErr, toClose, stdin,
                     stdinState, stdout, received, exited, waited>>
  BY DEF Client!LockWriter, Client!WriteTurn, Client!callVars, Client!server
<1>2. \A v \in Client!Writers : writer'[v] = IF v = w THEN "header" ELSE writer[v]
  BY <1>1 DEF ClientInv, WritersTyped
<1>3. CallsTyped' /\ IdsUnique' /\ ChannelsTyped' /\ EntriesOfCallers' /\ Client!AnswersOwnRequest'
  BY <1>1, CallsRest, EntriesRest DEF Client!callVars
<1>4. WireTyped' /\ ServerTyped' /\ ReaderTyped'
  BY <1>1, ServerRests DEF Client!server, ClientInv, ReaderTyped
<1>5. WritersTyped'
  BY <1>1, <1>2 DEF ClientInv, WritersTyped
<1>6. Sent' /\ Said'
  <2>1. \A q \in Requests : pc'[q] \in {"idle", "register"} => writer'[q] = "none"
    BY <1>1, <1>2 DEF ClientInv, Sent, Client!Writers
  <2>2. \A a \in Asks : writer[a] = "none" => writer'[a] = "none"
    BY <1>1, <1>2 DEF Client!Writers
  <2>3. QED
    BY <1>1, <1>2, <2>1, <2>2, SentKeeps, SaidKeeps
<1>7. Alternate' /\ Ends' /\ OneWrites'
  <2>1. Alternate'
    BY <1>1 DEF ClientInv, Alternate
  <2>2. stdinState = "open" => stdin = <<>> \/ stdin[Len(stdin)][1] = "body"
    BY <1>1 DEF ClientInv, Ends
  <2>3. Ends'
    BY <1>1, <1>2, <2>2 DEF Ends
  <2>4. OneWrites'
    BY <1>1, <1>2 DEF ClientInv, OneWrites, ClientAssumed, Client!Writers
  <2>5. QED
    BY <2>1, <2>3, <2>4
<1>8. QED
  BY <1>3, <1>4, <1>5, <1>6, <1>7 DEF ClientInv

LEMMA WriteFailsKeeps ==
  ASSUME ClientAssumed, ClientInv, NEW w \in Client!Writers, Client!WriteFails(w)
  PROVE  ClientInv'
<1>1. /\ writer[w] \in {"header", "body"} /\ stdinState # "open" /\ wmu' = None
      /\ writer' = [writer EXCEPT ![w] = stdinState]
      /\ UNCHANGED <<nextID, id, pc, outcome, pending, ch, reader, readerErr, toClose, stdin,
                     stdinState, stdout, received, exited, waited>>
  BY DEF Client!WriteFails, Client!callVars, Client!server
<1>2. stdinState \in {"broken", "closed"} /\ wmu = w
  BY <1>1 DEF ClientInv, WireTyped, OneWrites
<1>3. \A v \in Client!Writers : writer'[v] = IF v = w THEN stdinState ELSE writer[v]
  BY <1>1 DEF ClientInv, WritersTyped
<1>4. CallsTyped' /\ IdsUnique' /\ ChannelsTyped' /\ EntriesOfCallers' /\ Client!AnswersOwnRequest'
  BY <1>1, CallsRest, EntriesRest DEF Client!callVars
<1>5. WireTyped' /\ ServerTyped' /\ ReaderTyped'
  BY <1>1, ServerRests DEF Client!server, ClientInv, ReaderTyped
<1>6. WritersTyped'
  BY <1>1, <1>2, <1>3 DEF ClientInv, WritersTyped
<1>7. Sent' /\ Said'
  <2>1. \A q \in Requests : pc'[q] \in {"idle", "register"} => writer'[q] = "none"
    BY <1>1, <1>3 DEF ClientInv, Sent, Client!Writers
  <2>2. \A a \in Asks : writer[a] = "none" => writer'[a] = "none"
    BY <1>1, <1>3 DEF Client!Writers
  <2>3. QED
    BY <1>1, <1>2, <1>3, <2>1, <2>2, SentKeeps, SaidKeeps
<1>8. Alternate' /\ Ends' /\ OneWrites'
  BY <1>1, <1>2, <1>3 DEF ClientInv, Alternate, Ends, OneWrites
<1>9. QED
  BY <1>4, <1>5, <1>6, <1>7, <1>8 DEF ClientInv

LEMMA WritePartKeeps ==
  ASSUME ClientAssumed, ClientInv, NEW w \in Client!Writers, Client!WritePart(w)
  PROVE  ClientInv'
<1> DEFINE part == <<writer[w], w>>
           next == IF writer[w] = "header" THEN "body" ELSE "ok"
<1>1. /\ writer[w] \in {"header", "body"} /\ stdinState = "open"
      /\ stdin' = Append(stdin, part) /\ writer' = [writer EXCEPT ![w] = next]
      /\ wmu' = IF writer[w] = "body" THEN None ELSE wmu
      /\ UNCHANGED <<nextID, id, pc, outcome, pending, ch, reader, readerErr, toClose,
                     stdinState, stdout, received, exited, waited>>
  BY DEF Client!WritePart, Client!callVars
<1>2. wmu = w /\ w # None /\ part \in {"header", "body"} \X Client!Writers
  BY <1>1 DEF ClientInv, OneWrites, ClientAssumed, Client!Writers
<1>3. \A v \in Client!Writers : writer'[v] = IF v = w THEN next ELSE writer[v]
  BY <1>1 DEF ClientInv, WritersTyped
<1>4. /\ Len(stdin) \in Nat /\ Len(stdin') = Len(stdin) + 1
      /\ \A n \in 1..Len(stdin) : /\ stdin'[n] = stdin[n]
                                  /\ stdin[n] \in {"header", "body"} \X Client!Writers
      /\ stdin'[Len(stdin) + 1] = part
      /\ stdin' \in Seq({"header", "body"} \X Client!Writers)
  BY <1>1, <1>2 DEF ClientInv, WireTyped
<1>5. CallsTyped' /\ IdsUnique' /\ ChannelsTyped' /\ EntriesOfCallers' /\ Client!AnswersOwnRequest'
  BY <1>1, CallsRest, EntriesRest DEF Client!callVars
<1>6. ServerTyped' /\ ReaderTyped' /\ WireTyped' /\ WritersTyped'
  <2>1. ServerTyped' /\ ReaderTyped'
    BY <1>1 DEF ClientInv, ServerTyped, ReaderTyped
  <2>2. WireTyped'
    BY <1>1, <1>4 DEF ClientInv, WireTyped
  <2>3. WritersTyped'
    BY <1>1, <1>2, <1>3 DEF ClientInv, WritersTyped
  <2>4. QED
    BY <2>1, <2>2, <2>3
<1>7. Sent'
  <2>1. \A q \in Requests : pc'[q] \in {"idle", "register"} => writer'[q] = "none"
    BY <1>1, <1>3 DEF ClientInv, Sent, Client!Writers
  <2>2. \A n \in 1..Len(stdin') : writer'[stdin'[n][2]] # "none"
    BY <1>3, <1>4 DEF ClientInv, Sent
  <2>3. QED
    BY <1>1, <2>1, <2>2 DEF ClientInv, Sent
<1>8. Said'
  BY <1>1, <1>3, SaidKeeps DEF Client!Writers
<1>9. Alternate' /\ Ends' /\ OneWrites'
  <2>1. CASE writer[w] = "header"
    <3>1. stdin = <<>> \/ stdin[Len(stdin)][1] = "body"
      BY <1>1, <1>2, <2>1 DEF ClientInv, Ends
    <3>2. part = <<"header", w>> /\ next = "body" /\ wmu' = w
      BY <1>1, <1>2, <2>1
    <3> HIDE DEF part, next
    <3>3. stdin'[1][1] = "header"
      BY <1>4, <3>1, <3>2 DEF ClientInv, Alternate
    <3>4. ASSUME NEW n \in 1..Len(stdin)
          PROVE  IF stdin'[n][1] = "header" THEN stdin'[n + 1] = <<"body", stdin'[n][2]>>
                 ELSE stdin'[n + 1][1] = "header"
      <4>1. CASE n < Len(stdin)
        <5>1. stdin'[n] = stdin[n] /\ stdin'[n + 1] = stdin[n + 1]
          BY <1>4, <4>1
        <5>2. QED
          BY <4>1, <5>1 DEF ClientInv, Alternate
      <4>2. CASE n = Len(stdin)
        <5>1. stdin'[n] = stdin[n] /\ stdin'[n + 1] = part /\ stdin[n][1] = "body"
          BY <1>4, <3>1, <4>2
        <5>2. QED
          BY <5>1, <3>2
      <4>3. QED
        BY <1>4, <4>1, <4>2
    <3>5. Alternate'
      BY <1>4, <3>3, <3>4 DEF Alternate
    <3>6. Ends' /\ OneWrites'
      BY <1>2, <1>3, <1>4, <3>2 DEF ClientInv, Ends, OneWrites
    <3>7. QED
      BY <3>5, <3>6
  <2>2. CASE writer[w] = "body"
    <3>1. stdin # <<>> /\ stdin[Len(stdin)] = <<"header", w>>
      BY <1>1, <1>2, <2>2 DEF ClientInv, Ends
    <3>2. part = <<"body", w>> /\ next = "ok" /\ wmu' = None
      BY <1>1, <1>2, <2>2
    <3> HIDE DEF part, next
    <3>3. stdin'[1][1] = "header"
      BY <1>4, <3>1 DEF ClientInv, Alternate
    <3>4. ASSUME NEW n \in 1..Len(stdin)
          PROVE  IF stdin'[n][1] = "header" THEN stdin'[n + 1] = <<"body", stdin'[n][2]>>
                 ELSE stdin'[n + 1][1] = "header"
      <4>1. CASE n < Len(stdin)
        <5>1. stdin'[n] = stdin[n] /\ stdin'[n + 1] = stdin[n + 1]
          BY <1>4, <4>1
        <5>2. QED
          BY <4>1, <5>1 DEF ClientInv, Alternate
      <4>2. CASE n = Len(stdin)
        <5>1. stdin'[n] = <<"header", w>> /\ stdin'[n + 1] = part
          BY <1>4, <3>1, <4>2
        <5>2. QED
          BY <5>1, <3>2
      <4>3. QED
        BY <1>4, <4>1, <4>2
    <3>5. Alternate'
      BY <1>4, <3>3, <3>4 DEF Alternate
    <3>6. Ends' /\ OneWrites'
      BY <1>2, <1>3, <1>4, <3>2 DEF ClientInv, Ends, OneWrites
    <3>7. QED
      BY <3>5, <3>6
  <2>3. QED
    BY <1>1, <2>1, <2>2
<1>10. QED
  BY <1>5, <1>6, <1>7, <1>8, <1>9 DEF ClientInv

------------------------------------------------------------------------------
(* The reader.                                                               *)

(* A message leaves the pipe.                                                *)
LEMMA MessageRead ==
  ASSUME ClientInv, stdout # <<>>, stdout' = Tail(stdout), UNCHANGED Client!callVars,
         \A a \in Asks : /\ writer[a] = "none"
                         /\ Head(stdout).type = "ask" => Head(stdout).ask # a
                         => writer'[a] = "none"
  PROVE  Head(stdout) \in Client!Messages /\ stdout' \in Seq(Client!Messages) /\ Said'
<1>1. /\ Len(stdout) \in Nat /\ Len(stdout) > 0 /\ Len(stdout') = Len(stdout) - 1
      /\ \A n \in 1..Len(stdout) : stdout[n] \in Client!Messages
      /\ \A n \in 1..Len(stdout') : stdout'[n] = stdout[n + 1]
      /\ Head(stdout) = stdout[1] /\ stdout' \in Seq(Client!Messages)
  BY DEF ClientInv, WireTyped
<1>2. \A n \in 1..Len(stdout') : n + 1 \in 1..Len(stdout) /\ 1 \in 1..Len(stdout) /\ n + 1 # 1
  BY <1>1
<1>3. ASSUME NEW n \in 1..Len(stdout')
      PROVE  /\ stdout'[n].type = "response" =>
                  pc'[stdout'[n].to] # "idle" /\ stdout'[n].id = id'[stdout'[n].to]
             /\ stdout'[n].type = "ask" =>
                  /\ writer'[stdout'[n].ask] = "none"
                  /\ \A m \in 1..Len(stdout') : stdout'[m] = stdout'[n] => m = n
  <2> DEFINE msg == stdout[n + 1]
  <2>1. msg \in Client!Messages /\ stdout'[n] = msg /\ stdout[1] \in Client!Messages
    BY <1>1, <1>2
  <2>2. OfBegun(msg)
    BY <1>2 DEF ClientInv, Said
  <2>3. ASSUME msg.type = "ask"
        PROVE  /\ writer'[msg.ask] = "none"
               /\ \A m \in 1..Len(stdout') : stdout'[m] = msg => m = n
    <3>1. /\ writer[msg.ask] = "none" /\ msg.ask \in Asks
          /\ \A m \in 1..Len(stdout) : stdout[m] = msg => m = n + 1
      BY <1>2, <2>1, <2>3, MessagesTyped DEF ClientInv, Said
    <3>2. Head(stdout).type = "ask" => Head(stdout).ask # msg.ask
      <4>1. stdout[1] # msg
        BY <1>2, <3>1
      <4>2. \A x, y \in Client!Messages :
              x.type = "ask" /\ y.type = "ask" /\ x.ask = y.ask => x = y
        BY DEF Client!Messages, Client!Responses, Client!Others, Client!ServerAsks
      <4>3. QED
        BY <1>1, <2>1, <2>3, <4>1, <4>2
    <3>3. \A m \in 1..Len(stdout') : stdout'[m] = msg => m = n
      <4>1. \A m \in 1..Len(stdout') : stdout'[m] = msg => m + 1 = n + 1
        BY <1>1, <1>2, <3>1
      <4>2. QED
        BY <1>1, <4>1
    <3>4. QED
      BY <3>1, <3>2, <3>3
  <2> HIDE DEF msg
  <2>4. QED
    BY <2>1, <2>2, <2>3 DEF OfBegun, Client!callVars
<1>4. Said'
  BY <1>3 DEF Said, OfBegun
<1>5. QED
  BY <1>1, <1>4

LEMMA ReadResponseKeeps ==
  ASSUME ClientAssumed, ClientInv, Client!ReadResponse
  PROVE  ClientInv'
<1> DEFINE m == Head(stdout)
           r == pending[m.id]
<1>1. /\ stdout # <<>> /\ m.type = "response" /\ stdout' = Tail(stdout)
      /\ UNCHANGED <<nextID, id, pc, outcome, stdin, stdinState, received, exited, waited, wmu,
                     writer, reader, readerErr, toClose>>
  BY DEF Client!ReadResponse, Client!Reading, Client!callVars
<1>2. m \in Client!Messages /\ stdout' \in Seq(Client!Messages) /\ Said'
  BY <1>1, MessageRead DEF Client!callVars
<1>3. m \in Client!Responses /\ m.to \in Requests /\ m.id \in Client!IDs /\ r \in Requests \cup {None}
  BY <1>1, <1>2, MessagesTyped DEF Client!Responses, ClientInv, ChannelsTyped
<1>4. m.id = id[m.to] /\ id[m.to] # 0
  <2>1. 1 \in 1..Len(stdout) /\ m = stdout[1]
    BY <1>1 DEF ClientInv, WireTyped
  <2>2. OfBegun(m)
    BY <2>1 DEF ClientInv, Said
  <2>3. QED
    BY <1>1, <1>3, <2>2 DEF OfBegun, Client!IDs
<1>5. CallsTyped' /\ IdsUnique' /\ ReaderTyped' /\ WritersTyped' /\ WireTyped' /\ ServerTyped'
  <2>1. CallsTyped' /\ IdsUnique'
    BY <1>1, CallsRest DEF Client!callVars
  <2>2. ReaderTyped' /\ WritersTyped' /\ ServerTyped'
    BY <1>1 DEF ClientInv, ReaderTyped, WritersTyped, ServerTyped
  <2>3. WireTyped'
    BY <1>1, <1>2 DEF ClientInv, WireTyped
  <2>4. QED
    BY <2>1, <2>2, <2>3
<1>6. Sent'
  BY <1>1, SentKeeps DEF ClientInv, Sent
<1>7. Alternate' /\ Ends' /\ OneWrites'
  BY <1>1, WireKeeps
<1>8. ChannelsTyped' /\ EntriesOfCallers' /\ Client!AnswersOwnRequest'
  <2>1. CASE r = None
    <3>1. UNCHANGED <<pending, ch>>
      BY <2>1 DEF Client!ReadResponse
    <3>2. QED
      BY <1>1, <3>1, EntriesRest DEF Client!callVars
  <2>2. CASE r # None
    <3>1. ch' = [ch EXCEPT ![r] = m] /\ pending' = [pending EXCEPT ![m.id] = None]
      BY <2>2 DEF Client!ReadResponse, Client!LoadAndDelete
    <3>2. r \in Requests /\ id[r] = m.id
      BY <1>3, <2>2 DEF ClientInv, EntriesOfCallers
    <3>3. m.to = r
      BY <1>3, <1>4, <3>2 DEF ClientInv, IdsUnique
    <3> HIDE DEF m, r
    <3>4. /\ \A q \in Requests : ch'[q] = IF q = r THEN m ELSE ch[q]
          /\ \A i \in Client!IDs : pending'[i] = IF i = m.id THEN None ELSE pending[i]
      BY <3>1 DEF ClientInv, ChannelsTyped
    <3>5. ChannelsTyped'
      BY <1>1, <1>3, <3>1 DEF ClientInv, ChannelsTyped, Client!IDs, Client!Responses,
         Client!Closed
    <3>6. EntriesOfCallers'
      BY <1>1, <3>4 DEF ClientInv, EntriesOfCallers, Client!IDs
    <3>7. Client!AnswersOwnRequest'
      BY <3>3, <3>4 DEF ClientInv, Client!AnswersOwnRequest, Client!Closed
    <3>8. QED
      BY <3>5, <3>6, <3>7
  <2>3. QED
    BY <2>1, <2>2
<1>9. QED
  BY <1>2, <1>5, <1>6, <1>7, <1>8 DEF ClientInv

(* A message that is not for a call, and perhaps ends the reader.            *)
LEMMA OtherReadKeeps ==
  ASSUME ClientAssumed, ClientInv, stdout # <<>>, stdout' = Tail(stdout), ReaderTyped',
         UNCHANGED <<Client!callVars, pending, ch, stdin, stdinState, received, exited, waited, wmu>>,
         \/ UNCHANGED writer
         \/ Head(stdout).type = "ask" /\ writer' = [writer EXCEPT ![Head(stdout).ask] = "queued"]
  PROVE  ClientInv'
<1> DEFINE m == Head(stdout)
<1>1. 1 \in 1..Len(stdout) /\ m = stdout[1] /\ m \in Client!Messages
  BY DEF ClientInv, WireTyped
<1>2. m.type = "ask" => m.ask \in Asks /\ m.ask \in Client!Writers /\ writer[m.ask] = "none"
  BY <1>1, MessagesTyped DEF ClientInv, Said, Client!Writers
<1>3. \A w \in Client!Writers :
        \/ writer'[w] = writer[w]
        \/ m.type = "ask" /\ w = m.ask /\ writer[w] = "none" /\ writer'[w] = "queued"
  BY <1>2 DEF ClientInv, WritersTyped
<1>4. Said' /\ stdout' \in Seq(Client!Messages)
  BY <1>3, MessageRead DEF Client!Writers
<1>5. CallsTyped' /\ IdsUnique' /\ ChannelsTyped' /\ EntriesOfCallers' /\ Client!AnswersOwnRequest'
  BY CallsRest, EntriesRest
<1>6. ServerTyped' /\ WireTyped'
  BY <1>4 DEF ClientInv, ServerTyped, WireTyped
<1>7. wmu \in Client!Writers => writer'[wmu] = writer[wmu]
  BY <1>3 DEF ClientInv, WritersTyped, ClientAssumed, Client!Writers
<1>8. WritersTyped'
  <2>1. writer' \in [Client!Writers ->
                      {"none", "queued", "header", "body", "ok", "broken", "closed"}]
    BY DEF ClientInv, WritersTyped
  <2>2. QED
    BY <1>7, <2>1 DEF ClientInv, WritersTyped
<1>9. Sent'
  <2>1. \A q \in Requests : pc'[q] \in {"idle", "register"} => writer'[q] = "none"
    BY <1>2, <1>3 DEF ClientInv, Sent, Client!Writers, ClientAssumed, Client!callVars
  <2>2. \A w \in Client!Writers : writer[w] # "none" => writer'[w] # "none"
    BY <1>3
  <2>3. QED
    BY <2>1, <2>2, SentKeeps DEF Client!callVars
<1>10. Alternate' /\ Ends' /\ OneWrites'
  <2>1. \A w \in Client!Writers : \/ writer'[w] = writer[w]
                                  \/ w # wmu /\ writer'[w] \notin {"header", "body"}
    BY <1>3, <1>7
  <2>2. QED
    BY <2>1, WireKeeps
<1>11. QED
  BY <1>4, <1>5, <1>6, <1>8, <1>9, <1>10 DEF ClientInv

(* The reader ends, visits an entry, or is done.                             *)
LEMMA ReaderMoves ==
  ASSUME ClientAssumed, ClientInv, ReaderTyped', UNCHANGED <<Client!callVars, writer, wmu, Client!server>>,
         ChannelsTyped', EntriesOfCallers', Client!AnswersOwnRequest'
  PROVE  ClientInv'
<1>1. CallsTyped' /\ IdsUnique' /\ WireTyped' /\ ServerTyped'
  BY CallsRest, ServerRests
<1>2. WritersTyped'
  BY DEF ClientInv, WritersTyped
<1>3. Sent' /\ Said'
  BY SentKeeps, SaidKeeps DEF ClientInv, Sent, Client!callVars, Client!server
<1>4. Alternate' /\ Ends' /\ OneWrites'
  BY WireKeeps DEF Client!server
<1>5. QED
  BY <1>1, <1>2, <1>3, <1>4 DEF ClientInv

LEMMA ReaderStepKeeps ==
  ASSUME ClientAssumed, ClientInv, Client!ReaderStep
  PROVE  ClientInv'
<1>1. ASSUME NEW err \in {"dead", "other"}, Client!EndReader(err)
      PROVE  ReaderTyped'
  BY <1>1 DEF Client!EndReader, Client!Registered, ReaderTyped, Client!IDs
<1>2. CASE Client!ReadNotice
  <2>1. ReaderTyped'
    BY <1>2 DEF Client!ReadNotice, ClientInv, ReaderTyped, Client!IDs
  <2>2. QED
    BY <1>2, <2>1, OtherReadKeeps DEF Client!ReadNotice, Client!Reading
<1>3. CASE Client!ReadAsk
  <2>1. ReaderTyped'
    BY <1>3 DEF Client!ReadAsk, ClientInv, ReaderTyped, Client!IDs
  <2>2. QED
    BY <1>3, <2>1, OtherReadKeeps DEF Client!ReadAsk, Client!Reading
<1>4. CASE Client!ReadGarbage
  <2>1. PICK err \in {"dead", "other"} : Client!EndReader(err)
    BY <1>4 DEF Client!ReadGarbage
  <2>2. QED
    BY <1>1, <1>4, <2>1, OtherReadKeeps DEF Client!ReadGarbage, Client!Reading,
       Client!EndReader
<1>5. CASE Client!ReadEOF \/ Client!ReadClosed
  <2>1. PICK err \in {"dead", "other"} : Client!EndReader(err)
    BY <1>5 DEF Client!ReadEOF, Client!ReadClosed
  <2>2. UNCHANGED <<Client!callVars, pending, ch, writer, wmu, Client!server>>
    BY <1>5, <2>1 DEF Client!ReadEOF, Client!ReadClosed, Client!EndReader
  <2>3. QED
    BY <1>1, <2>1, <2>2, EntriesRest, ReaderMoves
<1>6. ASSUME NEW i \in Client!IDs, Client!CloseEntry(i)
      PROVE  ClientInv'
  <2>1. /\ pending[i] # None /\ ch' = [ch EXCEPT ![pending[i]] = Client!Closed]
        /\ pending' = [pending EXCEPT ![i] = None] /\ toClose' = toClose \ {i}
        /\ UNCHANGED <<Client!callVars, writer, wmu, reader, readerErr, Client!server>>
    BY <1>6 DEF Client!CloseEntry, Client!Registered
  <2>2. /\ \A q \in Requests : ch'[q] = IF q = pending[i] THEN Client!Closed ELSE ch[q]
        /\ \A j \in Client!IDs : pending'[j] = IF j = i THEN None ELSE pending[j]
    BY <2>1 DEF ClientInv, ChannelsTyped
  <2>3. ReaderTyped' /\ ChannelsTyped'
    BY <2>1 DEF ClientInv, ReaderTyped, ChannelsTyped, Client!IDs, Client!Responses,
         Client!Closed
  <2>4. EntriesOfCallers'
    BY <2>1, <2>2 DEF ClientInv, EntriesOfCallers, Client!IDs, Client!callVars
  <2>5. Client!AnswersOwnRequest'
    BY <2>2 DEF ClientInv, Client!AnswersOwnRequest, Client!Closed
  <2>6. QED
    BY <2>1, <2>3, <2>4, <2>5, ReaderMoves
<1>7. CASE Client!CloseReaderDone
  <2>1. ReaderTyped'
    BY <1>7 DEF Client!CloseReaderDone, ClientInv, ReaderTyped, Client!IDs
  <2>2. QED
    BY <1>7, <2>1, EntriesRest, ReaderMoves DEF Client!CloseReaderDone
<1>8. QED
  BY <1>2, <1>3, <1>4, <1>5, <1>6, <1>7, ReadResponseKeeps DEF Client!ReaderStep

------------------------------------------------------------------------------
(* The server and its pipes.                                                 *)

(* What the server does alone changes nothing of the client.                 *)
LEMMA ClientRests ==
  ASSUME ClientInv, UNCHANGED Client!client
  PROVE  /\ CallsTyped' /\ ChannelsTyped' /\ WritersTyped' /\ ReaderTyped'
         /\ IdsUnique' /\ EntriesOfCallers' /\ Client!AnswersOwnRequest' /\ OneWrites'
<1>1. UNCHANGED <<Client!callVars, pending, ch, writer, wmu, reader, readerErr, toClose>>
  BY DEF Client!client
<1>2. WritersTyped' /\ ReaderTyped' /\ OneWrites'
  BY <1>1 DEF ClientInv, WritersTyped, ReaderTyped, OneWrites, Client!IDs
<1>3. QED
  BY <1>1, <1>2, CallsRest, EntriesRest

(* A message joins the pipe, or none does.                                   *)
LEMMA SayKeeps ==
  ASSUME ClientInv, UNCHANGED <<Client!client, stdin, stdinState, received>>, NEW m \in Client!Messages,
         OfBegun(m), exited' \in BOOLEAN, UNCHANGED waited,
         m.type = "ask" => writer[m.ask] = "none" /\ \A n \in 1..Len(stdout) : stdout[n] # m,
         stdout' = Append(stdout, m) \/ UNCHANGED stdout
  PROVE  ClientInv'
<1>1. UNCHANGED <<nextID, id, pc, outcome, pending, ch, writer, wmu>>
  BY DEF Client!client, Client!callVars
<1>2. ServerTyped' /\ WireTyped'
  BY DEF ClientInv, ServerTyped, WireTyped
<1>3. Sent' /\ Alternate' /\ Ends' /\ OneWrites'
  BY <1>1, SentKeeps, WireKeeps DEF ClientInv, Sent
<1>4. Said'
  <2>1. CASE UNCHANGED stdout
    BY <1>1, <2>1, SaidKeeps
  <2>2. CASE stdout' = Append(stdout, m)
    <3>1. /\ Len(stdout) \in Nat /\ Len(stdout') = Len(stdout) + 1
          /\ \A n \in 1..Len(stdout) : stdout'[n] = stdout[n]
          /\ stdout'[Len(stdout) + 1] = m
      BY <2>2 DEF ClientInv, WireTyped
    <3>2. ASSUME NEW n \in 1..Len(stdout')
          PROVE  OfBegun(stdout'[n])
      BY <3>1 DEF ClientInv, Said
    <3>3. ASSUME NEW n \in 1..Len(stdout'), stdout'[n].type = "ask"
          PROVE  /\ writer[stdout'[n].ask] = "none"
                 /\ \A l \in 1..Len(stdout') : stdout'[l] = stdout'[n] => l = n
      BY <3>1, <3>3 DEF ClientInv, Said
    <3>4. QED
      BY <1>1, <3>2, <3>3 DEF Said, OfBegun
  <2>3. QED
    BY <2>1, <2>2
<1>5. QED
  BY <1>2, <1>3, <1>4, ClientRests DEF ClientInv

LEMMA ServerReadKeeps ==
  ASSUME ClientAssumed, ClientInv, Client!ServerRead
  PROVE  ClientInv'
<1> DEFINE w == stdin[1][2]
<1>1. /\ Len(stdin) >= 2 /\ stdin' = Tail(Tail(stdin))
      /\ received' = IF w \in Requests THEN received \cup {<<id[w], w>>} ELSE received
      /\ UNCHANGED <<Client!client, stdinState, stdout, exited, waited>>
      /\ UNCHANGED <<nextID, id, pc, outcome, pending, ch, writer, wmu>>
  BY DEF Client!ServerRead, Client!client, Client!callVars
<1>2. /\ Len(stdin) \in Nat /\ Len(stdin') = Len(stdin) - 2
      /\ \A n \in 1..Len(stdin) : stdin[n] \in {"header", "body"} \X Client!Writers
      /\ \A n \in 1..Len(stdin') : n + 2 \in 1..Len(stdin) /\ stdin'[n] = stdin[n + 2]
      /\ stdin' \in Seq({"header", "body"} \X Client!Writers)
  <2> DEFINE rest == Tail(stdin)
  <2>1. stdin \in Seq({"header", "body"} \X Client!Writers) /\ stdin # <<>>
    BY <1>1 DEF ClientInv, WireTyped
  <2>2. /\ rest \in Seq({"header", "body"} \X Client!Writers) /\ Len(rest) = Len(stdin) - 1
        /\ \A n \in 1..Len(rest) : rest[n] = stdin[n + 1]
    BY <2>1
  <2>3. rest # <<>> /\ stdin' = Tail(rest)
    <3>1. stdin' = Tail(rest)
      BY <1>1, Zenon
    <3> HIDE DEF rest
    <3>2. Len(rest) # 0
      <4>1. Len(stdin) \in Nat /\ Len(stdin) >= 2 /\ Len(rest) = Len(stdin) - 1
        BY <1>1, <2>1, <2>2, LenProperties
      <4>2. QED
        BY <4>1
    <3>3. QED
      BY <3>1, <3>2
  <2> HIDE DEF rest
  <2>4. /\ stdin' \in Seq({"header", "body"} \X Client!Writers) /\ Len(stdin') = Len(rest) - 1
        /\ \A n \in 1..Len(stdin') : stdin'[n] = rest[n + 1]
    BY <2>2, <2>3
  <2>5. \A n \in 1..Len(stdin') : n + 1 \in 1..Len(rest) /\ (n + 1) + 1 = n + 2
    BY <2>1, <2>2, <2>4
  <2>6. /\ Len(stdin) \in Nat
        /\ \A n \in 1..Len(stdin) : stdin[n] \in {"header", "body"} \X Client!Writers
    BY <2>1, ElementOfSeq, LenProperties
  <2>7. Len(stdin') = Len(stdin) - 2
    BY <2>2, <2>4, <2>6
  <2>8. ASSUME NEW n \in 1..Len(stdin')
        PROVE  n + 2 \in 1..Len(stdin) /\ stdin'[n] = stdin[n + 2]
    <3>1. n + 2 \in 1..Len(stdin)
      BY <2>6, <2>7
    <3>2. stdin'[n] = rest[n + 1] /\ rest[n + 1] = stdin[(n + 1) + 1]
      BY <2>2, <2>4, <2>5
    <3>3. QED
      BY <2>5, <3>1, <3>2
  <2>9. QED
    BY <2>4, <2>6, <2>7, <2>8
<1>3. w \in Requests => pc[w] # "idle" /\ id[w] \in Client!IDs
  <2>1. 1 \in 1..Len(stdin)
    BY <1>1, <1>2
  <2>2. w \in Requests => pc[w] # "idle"
    BY <2>1 DEF ClientInv, Sent
  <2>3. QED
    BY <2>2, CallersKnown
<1>4. ServerTyped' /\ WireTyped'
  BY <1>1, <1>2, <1>3 DEF ClientInv, ServerTyped, WireTyped, Client!IDs
<1>5. Sent'
  <2>1. \A n \in 1..Len(stdin') : writer[stdin'[n][2]] # "none"
    <3>1. \A n \in 1..Len(stdin) : writer[stdin[n][2]] # "none"
      BY DEF ClientInv, Sent
    <3>2. \A n \in 1..Len(stdin') : n + 2 \in 1..Len(stdin) /\ stdin'[n] = stdin[n + 2]
      BY <1>2
    <3>3. QED
      BY <3>1, <3>2, Zenon
  <2>2. \A p \in received' : pc[p[2]] # "idle" /\ p[1] = id[p[2]]
    BY <1>1, <1>3 DEF ClientInv, Sent
  <2>3. QED
    BY <1>1, <2>1, <2>2 DEF ClientInv, Sent
<1>6. Said'
  BY <1>1, SaidKeeps
<1>7. stdin[2][1] = "body" /\ (Len(stdin) > 2 => stdin[3][1] = "header")
  <2>1. 1 \in 1..Len(stdin) /\ 1 < Len(stdin) /\ 2 \in 1..Len(stdin) /\ 1 + 1 = 2 /\ 2 + 1 = 3
    BY <1>1, <1>2
  <2>2. stdin[1][1] = "header" /\ stdin[2] = <<"body", stdin[1][2]>>
    BY <1>1, <2>1 DEF ClientInv, Alternate
  <2>3. QED
    BY <2>1, <2>2 DEF ClientInv, Alternate
<1>8. Alternate'
  <2>1. stdin' # <<>> => stdin'[1][1] = "header"
    BY <1>2, <1>7
  <2>2. ASSUME NEW n \in 1..Len(stdin'), n < Len(stdin')
        PROVE  IF stdin'[n][1] = "header" THEN stdin'[n + 1] = <<"body", stdin'[n][2]>>
               ELSE stdin'[n + 1][1] = "header"
    <3>1. /\ n + 2 \in 1..Len(stdin) /\ n + 2 < Len(stdin) /\ n + 1 + 2 = n + 2 + 1
          /\ stdin'[n] = stdin[n + 2] /\ stdin'[n + 1] = stdin[n + 2 + 1]
      BY <1>2, <2>2
    <3>2. QED
      BY <3>1 DEF ClientInv, Alternate
  <2>3. QED
    BY <2>1, <2>2 DEF Alternate
<1>9. Ends'
  <2> DEFINE inBody == wmu # None /\ writer[wmu] = "body"
  <2>1. stdinState = "open" => IF inBody THEN stdin[Len(stdin)] = <<"header", wmu>>
                               ELSE stdin[Len(stdin)][1] = "body"
    BY <1>1, <1>2 DEF ClientInv, Ends
  <2>2. CASE Len(stdin) = 2
    <3>1. stdin' = <<>> /\ (stdinState = "open" => ~inBody)
      BY <1>2, <1>7, <2>1, <2>2
    <3>2. QED
      BY <1>1, <3>1 DEF Ends
  <2>3. CASE Len(stdin) > 2
    <3>1. stdin'[Len(stdin')] = stdin[Len(stdin)] /\ stdin' # <<>>
      BY <1>2, <2>3
    <3>2. QED
      BY <1>1, <2>1, <3>1 DEF Ends
  <2>4. QED
    BY <1>1, <1>2, <2>2, <2>3
<1>10. QED
  BY <1>1, <1>4, <1>5, <1>6, <1>8, <1>9, ClientRests DEF ClientInv

(* The pipe to the server breaks or is closed, and the process is waited for. *)
LEMMA PipeKeeps ==
  ASSUME ClientInv, UNCHANGED <<Client!client, stdin, stdout, received, exited>>,
         stdinState' \in {"broken", "closed"}, waited' \in BOOLEAN
  PROVE  ClientInv'
<1>1. UNCHANGED <<nextID, id, pc, outcome, pending, ch, writer, wmu>>
  BY DEF Client!client, Client!callVars
<1>2. ServerTyped' /\ WireTyped'
  BY DEF ClientInv, ServerTyped, WireTyped, Client!IDs
<1>3. Sent' /\ Said' /\ Alternate' /\ Ends' /\ OneWrites'
  BY <1>1, SentKeeps, SaidKeeps, WireKeeps DEF ClientInv, Sent
<1>4. QED
  BY <1>2, <1>3, ClientRests DEF ClientInv

LEMMA ServerStepKeeps ==
  ASSUME ClientAssumed, ClientInv,
         \/ \E r \in Requests : Client!Answer(r)
         \/ Client!Chatter \/ \E a \in Asks : Client!Ask(a)
         \/ Client!ServerExit \/ Client!StdinBreaks \/ Client!WaitReturns \/ Client!CloseStdin
  PROVE  ClientInv'
<1>1. ASSUME NEW r \in Requests, Client!Answer(r)
      PROVE  ClientInv'
  <2>1. PICK p \in received, k \in {"result", "error"} :
          p[2] = r /\ Client!Say([type |-> "response", id |-> p[1], to |-> r, kind |-> k])
    BY <1>1 DEF Client!Answer
  <2> DEFINE m == [type |-> "response", id |-> p[1], to |-> r, kind |-> k]
  <2>2. p[1] \in Client!IDs /\ pc[r] # "idle" /\ p[1] = id[r]
    BY <2>1 DEF ClientInv, ServerTyped, Sent
  <2>3. m \in Client!Messages /\ OfBegun(m) /\ m.type # "ask"
    BY <2>2 DEF Client!Messages, Client!Responses, OfBegun
  <2>4. Client!Say(m)
    BY <2>1
  <2> HIDE DEF m
  <2>5. QED
    BY <2>3, <2>4, SayKeeps DEF Client!Say, ClientInv, ServerTyped
<1>2. CASE Client!Chatter
  <2>1. PICK m \in Client!Others : Client!Say(m)
    BY <1>2 DEF Client!Chatter
  <2>2. m \in Client!Messages /\ OfBegun(m) /\ m.type # "ask"
    BY DEF Client!Messages, Client!Others, OfBegun
  <2>3. QED
    BY <2>1, <2>2, SayKeeps DEF Client!Say, ClientInv, ServerTyped
<1>3. ASSUME NEW a \in Asks, Client!Ask(a)
      PROVE  ClientInv'
  <2> DEFINE m == [type |-> "ask", ask |-> a]
  <2>1. m \in Client!Messages /\ OfBegun(m) /\ m.ask = a
    BY DEF Client!Messages, Client!ServerAsks, OfBegun
  <2>2. /\ writer[a] = "none" /\ \A n \in 1..Len(stdout) : stdout[n] # m
        /\ Client!Say(m)
    BY <1>3 DEF Client!Ask, ClientInv, WireTyped
  <2> HIDE DEF m
  <2>3. QED
    BY <2>1, <2>2, SayKeeps DEF Client!Say, ClientInv, ServerTyped
<1>4. CASE Client!ServerExit
  <2> DEFINE m == [type |-> "torn"]
  <2>1. m \in Client!Messages /\ OfBegun(m) /\ m.type # "ask"
    BY DEF Client!Messages, Client!Others, OfBegun
  <2>2. /\ stdout' = Append(stdout, m) \/ UNCHANGED stdout
        /\ exited' \in BOOLEAN /\ UNCHANGED <<Client!client, stdin, stdinState, received, waited>>
    BY <1>4 DEF Client!ServerExit
  <2> HIDE DEF m
  <2>3. QED
    BY <2>1, <2>2, SayKeeps
<1>5. CASE Client!StdinBreaks \/ Client!WaitReturns \/ Client!CloseStdin
  BY <1>5, PipeKeeps DEF Client!StdinBreaks, Client!WaitReturns, Client!CloseStdin,
     ClientInv,
     ServerTyped
<1>6. QED
  BY <1>1, <1>2, <1>3, <1>4, <1>5

------------------------------------------------------------------------------

(* Types, ids that are never given twice, entries and messages that carry    *)
(* the id of their call, and a wire that one writer holds.                   *)
THEOREM ClientInvariant == Client!Spec => []ClientInv
<1>1. Client!Init => ClientInv
  BY ClientConstants, InitClient
<1>2. ClientInv /\ [Client!Next]_Client!vars => ClientInv'
  <2> SUFFICES ASSUME ClientInv, [Client!Next]_Client!vars PROVE ClientInv'
    OBVIOUS
  <2> ClientAssumed
    BY ClientConstants
  <2>1. CASE UNCHANGED Client!vars
    <3>1. UNCHANGED <<Client!client, Client!server>>
      BY <2>1 DEF Client!vars, Client!client, Client!server, Client!callVars
    <3>2. UNCHANGED <<nextID, id, pc, outcome, pending, ch, writer, wmu, stdin, received, stdout,
                     stdinState>>
      BY <2>1 DEF Client!vars
    <3>3. Sent' /\ Said' /\ Alternate' /\ Ends' /\ OneWrites'
      BY <3>2, SentKeeps, SaidKeeps, WireKeeps DEF ClientInv, Sent
    <3>4. QED
      BY <3>1, <3>3, ClientRests, ServerRests DEF ClientInv
  <2>2. ASSUME NEW r \in Requests, Client!Begin(r) \/ Client!CallStep(r) \/ Client!Cancel(r)
        PROVE  ClientInv'
    BY <2>2, BeginKeeps, CallStepKeeps
  <2>3. ASSUME NEW w \in Client!Writers, Client!LockWriter(w) \/ Client!WriterStep(w)
        PROVE  ClientInv'
    BY <2>3, LockWriterKeeps, WritePartKeeps, WriteFailsKeeps DEF Client!WriterStep
  <2>4. CASE Client!Next
    BY <2>2, <2>3, <2>4, ReaderStepKeeps, ServerReadKeeps, ServerStepKeeps DEF Client!Next
  <2>5. QED
    BY <2>1, <2>4
<1>3. QED
  BY <1>1, <1>2, PTL DEF Client!Spec

(* Client!TypeOK: the variables of the client have their types.              *)
THEOREM ClientTypeCorrect == Client!Spec => []Client!TypeOK
<1>1. ClientInv => Client!TypeOK
  BY Types DEF ClientInv
<1>2. QED
  BY <1>1, ClientInvariant, PTL

(* A response in the channel of a call answers the request of that call,     *)
(* however many calls, repeated, late and unasked messages there are         *)
(* (client.go, startReader and RequestContext).                              *)
THEOREM CallsGetTheirAnswers == Client!Spec => []AnswersOwnRequest
<1>1. ClientInv => AnswersOwnRequest
  BY DEF ClientInv, AnswersOwnRequest
<1>2. QED
  BY <1>1, ClientInvariant, PTL

(* Messages of concurrent writers do not mix in the pipe to the server, also *)
(* after a write that failed half way (client.go, writeMessage).             *)
THEOREM MessagesStayWhole == Client!Spec => []FramesWhole
<1>1. ClientInv => FramesWhole
  BY DEF ClientInv, WireTyped, Alternate, FramesWhole, Client!FramesWhole
<1>2. QED
  BY <1>1, ClientInvariant, PTL
==============================================================================
