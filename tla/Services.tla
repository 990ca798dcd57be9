------------------------------- MODULE Services -------------------------------
(***************************************************************************)
(* The engine's smaller state machines side by side: the symbol graph      *)
(* cache, which this module extends, and instances of the scans of         *)
(* branches, the store and its log, desired states, diagnostics and text   *)
(* edits.  Here each has variables of its own, and what it promises a      *)
(* name.                                                                   *)
(***************************************************************************)
EXTENDS GraphCache, Integers, Sequences

CONSTANTS
    Pkgs, Tip, Log, Compared, Ranges, Start,              \* BranchScans
    Scans, Shas, Versions,                                \* ScanHistory
    Accepts, Sets,                                        \* DesiredStates
    Timeout, FirstChange, Settle, PollSlow, PollFast, MaxSets,    \* Diagnostics
    Chars, Texts, Answers, Newline,                       \* TextEdits
    None

VARIABLES
    head, reports, compare,                               \* BranchScans
    version, file, log, scan, puts,                       \* ScanHistory
    desired, change, unseen,                              \* DesiredStates
    now, data, count, waiter, bumps,                      \* Diagnostics
    before, disk, answer, todo, outcome                   \* TextEdits

branchVars == <<head, reports, compare>>
historyVars == <<version, file, log, scan, puts>>
desiredVars == <<desired, change, unseen>>
diagnosticVars == <<now, data, count, waiter, bumps>>
editVars == <<before, disk, answer, todo, outcome>>

Branches == INSTANCE BranchScans WITH NoReport <- None, cache <- reports, call <- compare
History == INSTANCE ScanHistory WITH NoFile <- None
Desired == INSTANCE DesiredStates WITH NoState <- None, call <- change
Diagnosed == INSTANCE Diagnostics WITH version <- count
Edited == INSTANCE TextEdits

(* Commits are not taken for names, the branch at the beginning is one, and  *)
(* what is compared is in the log.                                           *)
SensibleLog ==
    /\ Log \in Seq(Branches!Commits)
    /\ Tip \in [DOMAIN Tip -> Branches!Commits]
    /\ Branches!Commits \cap (DOMAIN Tip \cup {"HEAD"}) = {}
    /\ Start \in DOMAIN Tip /\ "HEAD" \notin DOMAIN Tip
    /\ Compared \subseteq Seq(Branches!Commits)
    /\ \A r \in Ranges : r.steps \in Nat /\ r.stride \in Nat

SensibleStore == None \notin Scans /\ History!NoSha \notin Shas

SensibleWriters ==
    /\ None \notin [rules : Sets \cup {None}, accepted : SUBSET Accepts]
    /\ None \notin Accepts \cup Sets /\ Accepts \cap Sets = {}

(* Files are numbered, and a text is not taken for an error.                 *)
SensibleEdits ==
    /\ "error" \notin Chars
    /\ \A t \in Texts : t \in [DOMAIN t -> Seq(Chars)]
    /\ \A a \in Answers : \A files \in {DOMAIN a.changes, DOMAIN a.documents} :
         files \subseteq Int /\ IsFiniteSet(files)
    /\ \A a \in Answers : \A plan \in {a.changes, a.documents} : \A f \in DOMAIN plan :
         /\ plan[f] \in Seq({plan[f][i] : i \in DOMAIN plan[f]})
         /\ \A i \in DOMAIN plan[f] : plan[f][i].text \in Seq(Chars)

SensibleTimes == PollSlow \in Nat /\ PollFast \in Nat /\ Settle \in Nat /\ MaxSets \in Nat

ASSUME SensibleServices == 
    SensibleLog /\ SensibleStore /\ SensibleWriters /\ SensibleEdits /\ SensibleTimes

(* Calls of DiffBranches and Evolution: reports are of the commit they are   *)
(* stored under, and the working tree is as it was.                          *)
ReportOfCommit == Branches!ReportOfCommit
TreeRestored == Branches!TreeRestored

(* The log and the store, which crashes and new versions leave behind.       *)
HistoryReadable == History!HistoryHasReports /\ History!RecordedListed

(* Calls of AcceptViolation and SetDesiredState.                             *)
AcceptedKept == Desired!AcceptedKept

(* The wait for diagnostics.                                                 *)
WaitSettled == Diagnosed!WaitSettled

(* The edits of a rename, once it has begun.                                 *)
EditsAtOnce == Edited!EditsAtOnce
==============================================================================
