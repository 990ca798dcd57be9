------------------------------ MODULE ScanEngine ------------------------------
(***************************************************************************)
(* ScanProject, getOrScan, MarkDirty and the report cache they share       *)
(* (engine/protocol.go), for one project at one HEAD whose working tree is *)
(* edited meanwhile.                                                       *)
(*                                                                         *)
(* ScanProject fingerprints the tree (BuildMerkle), looks for a cached     *)
(* report, and returns it if neither the dirty flag nor the fingerprint    *)
(* says that the tree has moved; otherwise it scans, all of the tree or    *)
(* the packages whose fingerprint moved, and stores the report under the   *)
(* key of its scanner and, for the default scanner, under the plain HEAD.  *)
(* getOrScan, behind the analyses, returns the report under the plain HEAD *)
(* or one of a default scan, and joins one shared scan if there is none.   *)
(* The dirty flag lives in memory, the cache on disk.                      *)
(***************************************************************************)
EXTENDS Integers, Functions

CONSTANTS
    Scans,         \* calls of ScanProject in progress at a time
    Analyses,      \* calls of getOrScan in progress at a time
    SharedScan,    \* the scan that calls of getOrScan share
    Overriding,    \* the scans with a scanner of their own
    Pkgs,          \* packages of the project
    MaxEdits,      \* bound: edits of the tree
    Reverting,     \* every second edit of a package undoes the one before
    Unreadable,    \* the scans whose BuildMerkle may find a file it cannot read
    NoReport

ASSUME ScanEngineAssumption ==
    /\ Scans \cap Analyses = {} /\ SharedScan \notin Scans \cup Analyses
    /\ Overriding \subseteq Scans
    /\ MaxEdits \in Nat
    /\ Unreadable \subseteq Scans /\ Reverting \in BOOLEAN

VARIABLES
    content,    \* the working tree: how often each package has been edited
    dirty,      \* Engine.dirty
    slot,       \* the report cache: the key of each scanner, and the plain HEAD
    call        \* the calls and the shared scan: where each is, and its variables

vars == <<content, dirty, slot, call>>

Calls == Scans \cup Analyses
Versions == Nat
Unread == -1
Tree == [Pkgs -> Versions]
Partial == [Pkgs -> Versions \cup {Unread}]
NotRead == [p \in Pkgs |-> Unread]

(* The leaf hash of a package.                                               *)
Leaf(v) == IF Reverting /\ v # Unread THEN v % 2 ELSE v
Differ(a, b) == {p \in Pkgs : Leaf(a[p]) # Leaf(b[p])}

(* A report: the packages as they were read, the Merkle leaves stamped on it *)
(* (NotRead if the tree could not be fingerprinted), and who made it.        *)
Reports == [model : Tree, leaves : Partial, scanner : {"auto", "mono"}]
Stamped(report) == report.leaves # NotRead

ScannerOf(s) == IF s \in Overriding THEN "mono" ELSE "auto"
Keys == {"auto", "mono", "plain"}

(* A call: where it is, the tree since when its report is to be fresh, the   *)
(* fingerprint it took, the report it found, and what its scan has read.     *)
Idle == [at |-> "idle", since |-> NotRead, merkle |-> NotRead, prior |-> NoReport,
         draft |-> NotRead, result |-> NoReport]

Places == {"idle", "merkle", "lookup", "decide", "warm", "scan", "put", "putPlain",
           "clear", "probe", "wait", "deliver", "return"}

Locals == [at : Places, since : Partial, merkle : Partial, prior : Reports \cup {NoReport},
           draft : Partial, result : Reports \cup {NoReport}]

AllCalls == Calls \cup {SharedScan}

TypeOK ==
    /\ content \in Tree
    /\ dirty \in BOOLEAN
    /\ slot \in [Keys -> Reports \cup {NoReport}]
    /\ call \in [AllCalls -> Locals]

Init ==
    /\ content = [p \in Pkgs |-> 0]
    /\ dirty = FALSE
    /\ slot = [k \in Keys |-> NoReport]
    /\ call = [c \in AllCalls |-> Idle]

At(c, place) == call[c].at = place
Becomes(c, local) == call' = [call EXCEPT ![c] = local]
Goto(c, place) == Becomes(c, [call[c] EXCEPT !.at = place])
Returning(c, report) ==
    IF report = NoReport THEN Idle
    ELSE [Idle EXCEPT !.at = "return", !.since = call[c].since, !.merkle = call[c].merkle,
                      !.result = report]
GiveBack(c, report) == Becomes(c, Returning(c, report))

------------------------------------------------------------------------------
(* The working tree, its watcher and the process.                          *)

Edit(p) ==
    /\ SumFunction(content) < MaxEdits
    /\ content' = [content EXCEPT ![p] = @ + 1]
    /\ UNCHANGED <<dirty, slot, call>>

MarkDirty == ~dirty /\ dirty' = TRUE /\ UNCHANGED <<content, slot, call>>

(* The process ends and another starts: only the cache survives.             *)
Restart ==
    /\ dirty' = FALSE
    /\ call' = [c \in AllCalls |-> Idle]
    /\ UNCHANGED <<content, slot>>

(* A call that has returned is forgotten when the next one begins.           *)
Free(c) == call[c].at \in {"idle", "return"}

------------------------------------------------------------------------------
(* ScanProject.                                                            *)

ScanProject(s) ==
    /\ Free(s)
    /\ Becomes(s, [Idle EXCEPT !.at = "merkle", !.since = content])
    /\ UNCHANGED <<content, dirty, slot>>

(* BuildMerkle walks the tree, one package after the other.                  *)
ReadLeaf(s, p) ==
    /\ At(s, "merkle") /\ call[s].merkle[p] = Unread
    /\ LET read == [call[s] EXCEPT !.merkle[p] = content[p]]
           done == \A q \in Pkgs : read.merkle[q] # Unread
       IN  Becomes(s, IF done THEN [read EXCEPT !.at = "lookup"] ELSE read)
    /\ UNCHANGED <<content, dirty, slot>>

MerkleFails(s) ==
    /\ s \in Unreadable
    /\ At(s, "merkle")
    /\ Becomes(s, [call[s] EXCEPT !.at = "lookup", !.merkle = NotRead])
    /\ UNCHANGED <<content, dirty, slot>>

Lookup(s) ==
    /\ At(s, "lookup")
    /\ LET found == slot[ScannerOf(s)]
       IN  Becomes(s, [call[s] EXCEPT !.prior = found,
                                      !.at = IF found = NoReport THEN "scan" ELSE "decide"])
    /\ UNCHANGED <<content, dirty, slot>>

(* The packages whose leaf is not the one on the cached report; all of them  *)
(* count as unmoved when either has no leaves.                               *)
Changed(s) ==
    IF call[s].merkle # NotRead /\ Stamped(call[s].prior)
    THEN Differ(call[s].prior.leaves, call[s].merkle)
    ELSE {}

(* Mutation: the fingerprint is forgotten once there is a dirty flag to ask. *)
OnlyIfMarked(s) == dirty
Moved(s) == dirty \/ Changed(s) # {}

(* Mutation: an overriding scan fills the plain slot too.                    *)
AnyScanner(s) == s \in Scans
DefaultScanner(s) == s \notin Overriding

(* The report is still good; the plain slot is filled if it is empty.        *)
Hit(s) ==
    /\ At(s, "decide") /\ ~Moved(s)
    /\ IF DefaultScanner(s) /\ slot["plain"] = NoReport
       THEN Goto(s, "warm")
       ELSE GiveBack(s, call[s].prior)
    /\ UNCHANGED <<content, dirty, slot>>

(* PutReport, whose errors are ignored.                                      *)
PutReport(k, report) == slot' \in {slot, [slot EXCEPT ![k] = report]}

WarmPlain(s) ==
    /\ At(s, "warm")
    /\ PutReport("plain", call[s].prior)
    /\ GiveBack(s, call[s].prior)
    /\ UNCHANGED <<content, dirty>>

(* The reports of a scanner may carry another name than the one it is asked  *)
(* for by; then they never satisfy it (scannerCacheCompatible).              *)
RescanAll(s) ==
    /\ At(s, "decide") /\ (Moved(s) \/ ~DefaultScanner(s))
    /\ Becomes(s, [call[s] EXCEPT !.at = "scan", !.prior = NoReport])
    /\ UNCHANGED <<content, dirty, slot>>

(* MergeOrFull: unless it is unsafe (RequireFullScan) only the packages that *)
(* moved are scanned again, the others are taken over.                       *)
RescanChanged(s) ==
    /\ At(s, "decide") /\ Changed(s) # {}
    /\ Becomes(s, [call[s] EXCEPT !.at = "scan", !.prior = NoReport, !.draft =
         [p \in Pkgs |-> IF p \in Changed(s) THEN Unread ELSE call[s].prior.model[p]]])
    /\ UNCHANGED <<content, dirty, slot>>

ReadPackage(c, p) ==
    /\ At(c, "scan") /\ call[c].draft[p] = Unread
    /\ Becomes(c, [call[c] EXCEPT !.draft[p] = content[p]])
    /\ UNCHANGED <<content, dirty, slot>>

ScanFails(s) ==
    /\ At(s, "scan")
    /\ GiveBack(s, NoReport)
    /\ UNCHANGED <<content, dirty, slot>>

Stamp(s) == call[s].merkle

ReportOf(s) == [model |-> call[s].draft, leaves |-> Stamp(s), scanner |-> ScannerOf(s)]

ScanDone(c) == At(c, "scan") /\ \A p \in Pkgs : call[c].draft[p] # Unread

PutOwn(s) ==
    /\ ScanDone(s)
    /\ PutReport(ScannerOf(s), ReportOf(s))
    /\ Becomes(s, [call[s] EXCEPT !.result = ReportOf(s),
                                  !.at = IF DefaultScanner(s) THEN "putPlain" ELSE "clear"])
    /\ UNCHANGED <<content, dirty>>

PutPlain(s) ==
    /\ At(s, "putPlain")
    /\ PutReport("plain", call[s].result)
    /\ Goto(s, "clear")
    /\ UNCHANGED <<content, dirty>>

ClearDirty(s) ==
    /\ At(s, "clear")
    /\ dirty' = FALSE
    /\ GiveBack(s, call[s].result)
    /\ UNCHANGED <<content, slot>>

------------------------------------------------------------------------------
(* getOrScan.                                                              *)

GetOrScan(a) ==
    /\ Free(a)
    /\ Becomes(a, [Idle EXCEPT !.at = "probe"])
    /\ UNCHANGED <<content, dirty, slot>>

(* The plain HEAD first, then the key of a default scan with an intent.      *)
ProbeHit(a) ==
    /\ At(a, "probe")
    /\ \/ slot["plain"] # NoReport /\ GiveBack(a, slot["plain"])
       \/ slot["plain"] = NoReport /\ slot["auto"] # NoReport /\ GiveBack(a, slot["auto"])
    /\ UNCHANGED <<content, dirty, slot>>

(* No report: the call starts the shared scan or joins it.                   *)
ProbeMiss(a) ==
    /\ At(a, "probe")
    /\ slot["plain"] = NoReport /\ slot["auto"] = NoReport
    /\ call' = [call EXCEPT ![a].at = "wait",
                            ![SharedScan].at = IF @ = "idle" THEN "scan" ELSE @]
    /\ UNCHANGED <<content, dirty, slot>>

(* The caller's context expires; the shared scan goes on.                    *)
StopWaiting(a) ==
    /\ At(a, "wait")
    /\ GiveBack(a, NoReport)
    /\ UNCHANGED <<content, dirty, slot>>

(* Its report carries no Merkle leaves.                                      *)
SharedReport == [model |-> call[SharedScan].draft, leaves |-> NotRead, scanner |-> "auto"]

SharedStore ==
    /\ ScanDone(SharedScan)
    /\ PutReport("plain", SharedReport)
    /\ Goto(SharedScan, "deliver")
    /\ UNCHANGED <<content, dirty>>

SharedEnds(report) ==
    /\ call' = [c \in AllCalls |->
         IF c = SharedScan THEN Idle
         ELSE IF At(c, "wait") THEN Returning(c, report) ELSE call[c]]
    /\ UNCHANGED <<content, dirty, slot>>

SharedDeliver == At(SharedScan, "deliver") /\ SharedEnds(SharedReport)

SharedFails == At(SharedScan, "scan") /\ SharedEnds(NoReport)

------------------------------------------------------------------------------

ScanStep(s) ==
    \/ ScanProject(s)
    \/ (\E p \in Pkgs : ReadLeaf(s, p)) \/ MerkleFails(s)
    \/ Lookup(s) \/ Hit(s) \/ WarmPlain(s)
    \/ RescanAll(s) \/ RescanChanged(s)
    \/ ScanFails(s) \/ PutOwn(s) \/ PutPlain(s) \/ ClearDirty(s)

AnalysisStep(a) == GetOrScan(a) \/ ProbeHit(a) \/ ProbeMiss(a) \/ StopWaiting(a)

Next ==
    \/ \E s \in Scans : ScanStep(s)
    \/ \E a \in Analyses : AnalysisStep(a)
    \/ \E c \in Scans \cup {SharedScan}, p \in Pkgs : ReadPackage(c, p)
    \/ SharedStore \/ SharedDeliver \/ SharedFails
    \/ \E p \in Pkgs : Edit(p)
    \/ MarkDirty \/ Restart

Spec == Init /\ [][Next]_vars

------------------------------------------------------------------------------

(* A report is fresh if it shows every package as it was at some moment      *)
(* since then.                                                               *)
Fresh(c) ==
    call[c].result # NoReport =>
        \A p \in Pkgs : \E v \in call[c].since[p]..content[p] :
            Leaf(call[c].result.model[p]) = Leaf(v)

(* ScanProject returns a report that is fresh since it was called, from the  *)
(* cache, by a merge or by a full scan, whatever is edited, marked, scanned  *)
(* or restarted meanwhile, if it could take the fingerprint of the tree and  *)
(* the report carries one (one that does not is served as long as HEAD stays *)
(* and nothing is marked dirty).                                             *)
ScanFresh ==
    \A s \in Scans :
        (call[s].result # NoReport /\ Stamped(call[s].result) /\ call[s].merkle # NotRead)
            => Fresh(s)

(* No call is given a report of another scanner than it asked for: a scan    *)
(* with a scanner of its own leaves the plain slot alone, after a scan and   *)
(* when a hit fills it, and is not served from the slot of the default one.  *)
ScannerKept ==
    \A c \in Calls : call[c].result # NoReport =>
        call[c].result.scanner = ScannerOf(c)

(* The comment on MarkDirty: it flags the project so that the next analysis  *)
(* validates freshness.  So an analysis that is served from the cache while  *)
(* the project is marked dirty gets a report that shows the tree as it is.   *)
DirtyValidated ==
    [][\A a \in Analyses :
          dirty /\ At(a, "probe") /\ call'[a].at = "return" =>
              Differ(call'[a].result.model, content) = {}]_vars

------------------------------------------------------------------------------
(* The inductive invariant behind the first two.                           *)

(* Leaves are read before the packages they are stamped on, so leaves that   *)
(* still match vouch for everything that was read after them, unless text    *)
(* comes back.                                                               *)
Vouched(report, tree) ==
    report # NoReport =>
        \A p \in Pkgs :
            /\ Reverting \/ report.leaves[p] <= report.model[p]
            /\ report.model[p] <= tree[p]

SlotScanner(k) == IF k = "mono" THEN "mono" ELSE "auto"

(* Every slot holds reports that vouch for what they show, of one scanner.   *)
SlotsOK ==
    \A k \in Keys :
        /\ Vouched(slot[k], content)
        /\ slot[k] # NoReport => slot[k].scanner = SlotScanner(k)

(* What a call has read is no older than its beginning and its fingerprint.  *)
ReadsInOrder(w, tree) ==
    \A p \in Pkgs :
        /\ w.since[p] <= tree[p] /\ w.draft[p] <= tree[p]
        /\ w.merkle[p] # Unread => w.since[p] <= w.merkle[p] /\ w.merkle[p] <= tree[p]
        /\ w.draft[p] # Unread =>
             Reverting \/ (w.since[p] <= w.draft[p] /\ w.merkle[p] <= w.draft[p])

(* A fingerprint is complete or given up.                                    *)
MerkleWhole(w) ==
    w.at \notin {"idle", "merkle"} =>
        w.merkle = NotRead \/ \A p \in Pkgs : w.merkle[p] # Unread

NewEnough(w, report) ==
    ~Reverting /\ Stamped(report) /\ w.merkle # NotRead =>
        \A p \in Pkgs : w.since[p] <= report.model[p]

(* What a call knows is in order, and so is the report it found or made.     *)
CallOK(c, w, tree) ==
    /\ ReadsInOrder(w, tree)
    /\ MerkleWhole(w)
    /\ Vouched(w.prior, tree) /\ Vouched(w.result, tree)
    /\ w.prior # NoReport => w.prior.scanner = ScannerOf(c)
    /\ w.result # NoReport => NewEnough(w, w.result) /\ w.result.scanner = ScannerOf(c)
    /\ w.at = "merkle" => w.draft = NotRead /\ w.result = NoReport
    /\ w.at \in {"decide", "warm"} => w.prior # NoReport
    /\ w.at \in {"warm", "putPlain"} => c \in Scans \ Overriding
    /\ w.at = "warm" => NewEnough(w, w.prior)
    /\ w.at = "wait" => c \in Analyses
    /\ c \notin Scans => w.merkle = NotRead
    /\ w.at = "deliver" => \A p \in Pkgs : w.draft[p] # Unread

ScanInv ==
    /\ TypeOK
    /\ SlotsOK
    /\ \A c \in AllCalls : CallOK(c, call[c], content)
==============================================================================
