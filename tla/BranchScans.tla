------------------------------ MODULE BranchScans ------------------------------
(***************************************************************************)
(* DiffBranches and Evolution (engine/protocol.go): calls that check other *)
(* commits out, in the working tree they all share, scan them, and try to  *)
(* put things back.                                                        *)
(*                                                                         *)
(* checkoutRef resolves what it is given to a commit and checks that out,  *)
(* which detaches HEAD.  The name of a detached HEAD is "HEAD", and to     *)
(* check that out again changes nothing.                                   *)
(***************************************************************************)
EXTENDS Naturals, SequencesExt

CONSTANTS Calls,
          Pkgs,       \* packages of the project
          Tip,        \* the commit of each branch
          Log,        \* the commits, newest first
          Compared,   \* the pairs of commits DiffBranches is asked about
          Ranges,     \* what Evolution is asked: [oldest, steps, stride]
          Start,      \* the branch that is checked out at first
          NoReport

Commits == Range(Log)

VARIABLES head,       \* the name HEAD has and its commit: the working tree is that
          cache,      \* the reports under the plain keys
          call

vars == <<head, cache, call>>

Unread == [p \in Pkgs |-> "unread"]

(* begun, scans and disturbed are for the properties: HEAD when the call     *)
(* began, how often it checked out and scanned, whether others checked out   *)
(* meanwhile.                                                                *)
Idle == [at |-> "idle", each |-> TRUE, refs |-> <<>>, branch |-> "none", read |-> Unread,
         failed |-> FALSE, begun |-> [name |-> Start, commit |-> Tip[Start]],
         scans |-> 0, disturbed |-> FALSE]

Init ==
    /\ head = [name |-> Start, commit |-> Tip[Start]]
    /\ cache = [s \in Commits |-> NoReport]
    /\ call = [c \in Calls |-> Idle]

Goto(c, at) == call' = [call EXCEPT ![c].at = at]
Ref(c) == Head(call[c].refs)

Running(c) == call[c].at \notin {"idle", "done"}

(* Evolution's commits: from the newest back to the oldest that is asked     *)
(* for, or so many; turned round; every stride-th, and the last.             *)
ListCommits(oldest, steps) ==
    LET stops == IF oldest # "none" THEN {i \in DOMAIN Log : Log[i] = oldest} ELSE {steps}
    IN  Reverse(SubSeq(Log, 1, Min({Len(Log)} \cup stops)))

SampleCommits(commits, stride) ==
    LET n == Len(commits)
        sampled == [i \in 1..((n + stride - 1) \div stride) |-> commits[1 + (i - 1) * stride]]
    IN  IF stride =< 1 \/ n =< 2 THEN commits
        ELSE IF Last(sampled) = Last(commits) THEN sampled
        ELSE Append(sampled, Last(commits))

Begin(c, each, refs) ==
    /\ call[c].at = "idle"
    /\ call' = [call EXCEPT ![c] =
                  [Idle EXCEPT !.at = IF each THEN "lookup" ELSE "current",
                               !.each = each, !.refs = refs, !.begun = head,
                               !.disturbed = \E d \in Calls \ {c} : Running(d)]]
    /\ UNCHANGED <<head, cache>>

DiffBranches(c) == \E pair \in Compared : Begin(c, TRUE, pair)

Evolution(c) ==
    \E r \in Ranges : Begin(c, FALSE, SampleCommits(ListCommits(r.oldest, r.steps), r.stride))

(* A report under the key of the commit will do, whatever it was made from.  *)
CacheHit(c) ==
    /\ call[c].at = "lookup" /\ call[c].refs # <<>>
    /\ cache[Ref(c)] # NoReport
    /\ call' = [call EXCEPT ![c].refs = Tail(@)]
    /\ UNCHANGED <<head, cache>>

(* scanBranch asks before every checkout, Evolution once at its beginning.   *)
CacheMiss(c) ==
    /\ call[c].at = "lookup" /\ call[c].refs # <<>>
    /\ cache[Ref(c)] = NoReport
    /\ Goto(c, IF call[c].each THEN "current" ELSE "checkout")
    /\ UNCHANGED <<head, cache>>

GetCurrentBranch(c) ==
    /\ call[c].at = "current"
    /\ call' = [call EXCEPT ![c].branch = head.name,
                            ![c].at = IF call[c].each THEN "checkout" ELSE "lookup"]
    /\ UNCHANGED <<head, cache>>

(* checkoutRef, with Force: what was not committed is lost.                  *)
ResolveRevision(ref) ==
    IF ref = "HEAD" THEN head.commit ELSE IF ref \in DOMAIN Tip THEN Tip[ref] ELSE ref

(* Mutation: a detached HEAD is taken for one that is where it should be.    *)
KeepDetached(c, ref) ==
    head' = IF head.name = "HEAD" THEN head ELSE [name |-> "HEAD", commit |-> ResolveRevision(ref)]

CheckoutRef(c, ref) == head' = [name |-> "HEAD", commit |-> ResolveRevision(ref)]

(* For the properties: everyone else's tree has moved.                       *)
Disturbing(c, calls) ==
    [d \in Calls |-> IF d = c THEN calls[d]
                     ELSE [calls[d] EXCEPT !.disturbed = @ \/ call[d].at # "idle"]]

Checkout(c) ==
    /\ call[c].at = "checkout"
    /\ CheckoutRef(c, Ref(c))
    /\ call' = Disturbing(c, [call EXCEPT ![c].at = "scan", ![c].read = Unread,
                                          ![c].scans = @ + 1])
    /\ UNCHANGED cache

(* A commit that cannot be checked out ends the call; Evolution restores.    *)
CheckoutFails(c) ==
    /\ call[c].at = "checkout"
    /\ call' = [call EXCEPT ![c].at = IF call[c].each THEN "done" ELSE "restore",
                            ![c].failed = TRUE]
    /\ UNCHANGED <<head, cache>>

(* ScanAndBuild reads the working tree package by package.                   *)
ReadPackage(c, p) ==
    /\ call[c].at = "scan"
    /\ call[c].read[p] = "unread"
    /\ call' = [call EXCEPT ![c].read[p] = head.commit]
    /\ UNCHANGED <<head, cache>>

PutReport(c) ==
    /\ call[c].at = "scan"
    /\ \A p \in Pkgs : call[c].read[p] # "unread"
    /\ cache' = [cache EXCEPT ![Ref(c)] = [of |-> call[c].read, mixed |-> call[c].disturbed]]
    /\ call' = [call EXCEPT ![c].at = IF call[c].each THEN "restore" ELSE "lookup",
                            ![c].refs = IF call[c].each THEN @ ELSE Tail(@)]
    /\ UNCHANGED head

(* A scan that fails ends the call, after the deferred restore.              *)
ScanFails(c) ==
    /\ call[c].at = "scan"
    /\ call' = [call EXCEPT ![c].at = "restore", ![c].failed = TRUE]
    /\ UNCHANGED <<head, cache>>

(* Mutation: back to the commit that was scanned.                            *)
LastScanned(c) == IF call[c].refs = <<>> THEN head.commit ELSE Ref(c)

Restored(c) == call[c].branch

(* scanBranch restores after each report, Evolution at its end.              *)
Restore(c) ==
    /\ call[c].at = "restore"
    /\ CheckoutRef(c, Restored(c))
    /\ call' = Disturbing(c,
                 [call EXCEPT ![c].at = IF call[c].each /\ ~call[c].failed THEN "lookup" ELSE "done",
                              ![c].refs = IF @ = <<>> THEN @ ELSE Tail(@)])
    /\ UNCHANGED cache

Finish(c) ==
    /\ call[c].at = "lookup" /\ call[c].refs = <<>>
    /\ Goto(c, IF ~call[c].each /\ call[c].scans > 0 THEN "restore" ELSE "done")
    /\ UNCHANGED <<head, cache>>

Next == \E c \in Calls :
    \/ DiffBranches(c) \/ Evolution(c) \/ CacheHit(c) \/ CacheMiss(c) \/ GetCurrentBranch(c) \/ Checkout(c) \/ CheckoutFails(c)
    \/ \E p \in Pkgs : ReadPackage(c, p)
    \/ PutReport(c) \/ ScanFails(c) \/ Restore(c) \/ Finish(c)

Spec == Init /\ [][Next]_vars

------------------------------------------------------------------------------

(* A report is of the commit it is stored under, unless another call checked *)
(* something out while it was made.                                          *)
ReportOfCommit ==
    \A s \in Commits : cache[s] # NoReport /\ ~cache[s].mixed =>
      \A p \in Pkgs : cache[s].of[p] = s

(* A call that nobody disturbs leaves the tree as it found it, provided it   *)
(* began on a branch and read its name but once before it had left it:       *)
(* Evolution always, DiffBranches if one of its reports was there.  If it    *)
(* had to scan both, the second scan takes the detached HEAD for the branch  *)
(* to return to, and the tree stays where the scan was.                      *)
TreeRestored ==
    \A c \in Calls : call[c].at = "done" /\ ~call[c].disturbed =>
      /\ call[c].scans = 0 => head.commit = call[c].begun.commit
      /\ call[c].begun.name # "HEAD" /\ (call[c].scans = 1 \/ ~call[c].each)
           => head.commit = call[c].begun.commit
==============================================================================
