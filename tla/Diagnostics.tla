------------------------------ MODULE Diagnostics ------------------------------
(***************************************************************************)
(* The diagnostics a language server publishes and the wait until they     *)
(* stop changing (lsp/diagnostics.go).                                     *)
(*                                                                         *)
(* The reader of the client writes a list and then counts the write.  The  *)
(* waiter polls the count: slowly until the first change, and then fast    *)
(* until it has been the same for a while.  Time goes by in ticks; a timer *)
(* that fires is seen before the next tick, of several at once any first.  *)
(***************************************************************************)
EXTENDS Integers

CONSTANTS Timeout, FirstChange, Settle, PollSlow, PollFast,    \* in ticks
          MaxSets     \* bound: lists that are published

VARIABLES now, data, version, waiter,
          bumps       \* for the properties: when the first and the last write
                      \* since the wait began were counted
vars == <<now, data, version, waiter, bumps>>

Never == -1

Init ==
    /\ now = 0 /\ data = 0 /\ version = 0
    /\ waiter = [at |-> "idle", began |-> 0, prev |-> 0, poll |-> 0, stable |-> 0, why |-> "none"]
    /\ bumps = [first |-> Never, last |-> Never]

(* Set: the list is there before the count says so.                          *)
Set ==
    /\ data = version /\ data < MaxSets
    /\ data' = data + 1
    /\ UNCHANGED <<now, version, waiter, bumps>>

SetDone ==
    /\ version < data
    /\ version' = version + 1
    /\ bumps' = IF waiter.at \in {"idle", "done"} THEN bumps
                ELSE [first |-> IF bumps.first = Never THEN now ELSE bumps.first, last |-> now]
    /\ UNCHANGED <<now, data, waiter>>

WaitForDiagnostics ==
    /\ waiter.at = "idle"
    /\ waiter' = [waiter EXCEPT !.at = "first", !.began = now, !.prev = version,
                                !.poll = now + PollSlow]
    /\ UNCHANGED <<now, data, version, bumps>>

Waiting == waiter.at \in {"first", "settle"}
Return(why) ==
    /\ waiter' = [waiter EXCEPT !.at = "done", !.why = why]
    /\ UNCHANGED <<now, data, version, bumps>>

Deadline == waiter.began + Timeout
NoChange == waiter.began + (IF Timeout < FirstChange THEN Timeout ELSE FirstChange)

CtxDone == Waiting /\ Return("cancelled")
DeadlinePasses == Waiting /\ now = Deadline /\ Return("deadline")
NothingCame == waiter.at = "first" /\ now = NoChange /\ Return("silence")

Polls(place) == waiter.at = place /\ now = waiter.poll

PollFirst ==
    /\ Polls("first")
    /\ waiter' = IF version # waiter.prev
                 THEN [waiter EXCEPT !.at = "settle", !.prev = version, !.stable = now,
                                     !.poll = now + PollFast]
                 ELSE [waiter EXCEPT !.poll = now + PollSlow]
    /\ UNCHANGED <<now, data, version, bumps>>

(* Mutation: once it has begun, the quiet time goes on through changes.      *)
FirstOnly == FALSE

(* waitForSettle: a poll that sees a change starts the quiet time anew.      *)
Restarts == version # waiter.prev

PollSettle ==
    /\ Polls("settle")
    /\ Restarts \/ now - waiter.stable < Settle
    /\ waiter' = [waiter EXCEPT !.poll = now + PollFast, !.prev = version,
                                !.stable = IF Restarts THEN now ELSE @]
    /\ UNCHANGED <<now, data, version, bumps>>

Settled ==
    /\ Polls("settle")
    /\ ~Restarts /\ now - waiter.stable >= Settle
    /\ Return("settled")

Tick ==
    /\ Waiting
    /\ now < waiter.poll /\ now < Deadline /\ (waiter.at = "first" => now < NoChange)
    /\ now' = now + 1
    /\ UNCHANGED <<data, version, waiter, bumps>>

Next == \/ Set \/ SetDone \/ WaitForDiagnostics \/ CtxDone \/ DeadlinePasses \/ NothingCame
        \/ PollFirst \/ PollSettle \/ Settled \/ Tick

Spec == Init /\ [][Next]_vars

------------------------------------------------------------------------------

(* A wait that ends because nothing changes any more ends after a time of    *)
(* quiet that followed a change; one that ends because nothing came missed   *)
(* at most what came after its last poll.  A list may be there uncounted in  *)
(* either case.                                                              *)
WaitSettled ==
    /\ waiter.why = "settled" => bumps.last # Never /\ now - bumps.last >= Settle
    /\ waiter.why = "silence" /\ bumps.first # Never => now - bumps.first =< PollSlow
==============================================================================
