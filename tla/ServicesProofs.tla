---------------------------- MODULE ServicesProofs ----------------------------
(***************************************************************************)
(* Proofs about Services, save the graph cache: scans of branches, desired *)
(* states, diagnostics, the store and its log, and the edits of a rename.  *)
(* For any calls, commits, branches, packages, timeouts, intervals, texts  *)
(* and edits.                                                              *)
(***************************************************************************)
EXTENDS Services, SequenceTheorems, FiniteSetTheorems, WellFoundedInduction, TLAPS

(* A set of numbers has a least one.                                         *)
LEMMA LeastOf ==
  ASSUME NEW S \in SUBSET Nat, S # {}
  PROVE  \E n \in S : \A m \in S : n <= m
<1> DEFINE R == OpToRel(<, Nat)
<1>1. IsWellFoundedOn(R, Nat)
  BY NatLessThanWellFounded
<1>2. \A m, n \in Nat : <<m, n>> \in R <=> m < n
  BY DEF OpToRel
<1> HIDE DEF R
<1>3. PICK n \in S : \A m \in S : <<m, n>> \notin R
  BY <1>1, WFMin
<1>4. \A m \in S : ~(m < n)
  BY <1>2, <1>3
<1>5. QED
  BY <1>4

LEMMA LeastNumber ==
  ASSUME NEW S \in SUBSET Nat, S # {}
  PROVE  Branches!Min(S) \in S /\ \A m \in S : Branches!Min(S) <= m
  BY LeastOf DEF Branches!Min

(* A call of Evolution asks for commits of the log.                          *)
LEMMA ListedAreCommits ==
  ASSUME SensibleLog, NEW oldest, NEW steps \in Nat
  PROVE  Branches!ListCommits(oldest, steps) \in Seq(Branches!Commits)
<1> DEFINE stops == IF oldest # "none" THEN {i \in DOMAIN Log : Log[i] = oldest} ELSE {steps}
           n == Branches!Min({Len(Log)} \cup stops)
           s == SubSeq(Log, 1, n)
<1>1. Branches!ListCommits(oldest, steps) = [i \in 1..Len(s) |-> s[(Len(s) - i) + 1]]
  BY DEF Branches!ListCommits, Branches!Reverse
<1>2. Log \in Seq(Branches!Commits) /\ Len(Log) \in Nat /\ DOMAIN Log = 1..Len(Log)
  BY DEF SensibleLog
<1>3. n \in Nat /\ n <= Len(Log)
  <2>1. \A i \in stops : i \in Nat
    <3>1. CASE oldest # "none"
      BY <1>2, <3>1
    <3>2. CASE oldest = "none"
      BY <3>2
    <3>3. QED
      BY <3>1, <3>2
  <2> HIDE DEF stops
  <2> DEFINE ends == {Len(Log)} \cup stops
  <2>2. ends \in SUBSET Nat /\ ends # {} /\ Len(Log) \in ends
    BY <1>2, <2>1
  <2>3. Branches!Min(ends) \in ends /\ \A m \in ends : Branches!Min(ends) <= m
    <3> HIDE DEF ends
    <3>1. QED
      BY <2>2, LeastNumber
  <2>4. QED
    BY <2>2, <2>3
<1> HIDE DEF n
<1>4. s \in Seq(Branches!Commits)
  BY <1>2, <1>3
<1> HIDE DEF s
<1>5. QED
  BY <1>1, <1>4

LEMMA SampledAreCommits ==
  ASSUME NEW commits \in Seq(Branches!Commits), NEW stride \in Nat
  PROVE  Branches!SampleCommits(commits, stride) \in Seq(Branches!Commits)
<1> DEFINE n == Len(commits)
           k == (n + stride - 1) \div stride
           sampled == [i \in 1..k |-> commits[1 + (i - 1) * stride]]
<1>1. CASE stride <= 1 \/ n <= 2
  BY <1>1 DEF Branches!SampleCommits
<1>2. CASE stride > 1 /\ n > 2
  <2>1. k \in Nat /\ k * stride <= n + stride - 1
    BY <1>2
  <2> HIDE DEF k
  <2>2. ASSUME NEW i \in 1..k
        PROVE  1 + (i - 1) * stride \in 1..n
    <3>1. (i - 1) * stride <= (k - 1) * stride /\ (i - 1) * stride \in Nat
      BY <1>2, <2>1
    <3>2. (k - 1) * stride = k * stride - stride
      BY <2>1
    <3>3. QED
      BY <1>2, <2>1, <3>1, <3>2
  <2>3. sampled \in Seq(Branches!Commits)
    <3>1. \A j \in 1..n : commits[j] \in Branches!Commits
      OBVIOUS
    <3>2. \A i \in 1..k : commits[1 + (i - 1) * stride] \in Branches!Commits
      BY <2>2, <3>1
    <3>3. QED
      BY <2>1, <3>2
  <2>4. commits[n] \in Branches!Commits
    BY <1>2
  <2> HIDE DEF sampled
  <2>5. Append(sampled, commits[n]) \in Seq(Branches!Commits)
    BY <2>3, <2>4
  <2>6. Branches!SampleCommits(commits, stride) \in {sampled, Append(sampled, commits[n])}
    BY <1>2 DEF Branches!SampleCommits, Branches!Last, sampled, k
  <2>7. QED
    BY <2>3, <2>5, <2>6
<1>3. QED
  BY <1>1, <1>2

Names == {"HEAD"} \cup DOMAIN Tip
Heads ==
    {h \in [name : Names, commit : Branches!Commits] :
       h.name = "HEAD" \/ h.commit = Tip[h.name]}
Reads == [Pkgs -> Branches!Commits \cup {"unread"}]
Reports == {None} \cup [of : Reads, mixed : BOOLEAN]
Places == {"idle", "lookup", "current", "checkout", "scan", "restore", "done"}

CallRecords ==
    [at : Places, each : BOOLEAN, refs : Seq(Branches!Commits), branch : Names \cup {"none"},
     read : Reads, failed : BOOLEAN, begun : Heads, scans : Nat, disturbed : BOOLEAN]

(* Wherever a call checks out there is a commit to check out, and where it   *)
(* restores there is a name to return to.                                    *)
Prepared(c) ==
    /\ c.at \in {"checkout", "scan"} => c.refs # <<>>
    /\ c.at = "current" => IF c.each THEN c.refs # <<>> ELSE c.scans = 0
    /\ c.at \in {"checkout", "scan", "restore"} => c.branch \in Names
    /\ c.at = "lookup" /\ ~c.each => c.branch \in Names
    /\ c.at = "scan" \/ (c.at = "restore" /\ c.each) => c.scans > 0

(* While it scans the tree is at the commit it scans.                        *)
Scanning(c, h) ==
    c.at = "scan" => /\ h.commit = Head(c.refs)
                     /\ \A p \in Pkgs : c.read[p] \in {"unread", Head(c.refs)}

(* It remembers where it began until it has left there twice.                *)
Remembers(c) ==
    /\ c.at = "checkout" /\ c.scans = 0 => c.branch = c.begun.name
    /\ c.each /\ c.at \in {"scan", "restore"} /\ c.scans = 1 => c.branch = c.begun.name
    /\ ~c.each /\ c.at # "current" => c.branch = c.begun.name

(* The tree is where it was before the first checkout and after the last.    *)
Returned(c, h) ==
    /\ c.scans = 0 /\ c.at # "done" => h = c.begun
    /\ c.scans = 0 => h.commit = c.begun.commit
    /\ c.begun.name # "HEAD" /\ c.each /\ c.scans = 1 /\ c.at \notin {"scan", "restore"}
         => h.commit = c.begun.commit
    /\ c.begun.name # "HEAD" /\ ~c.each /\ c.at = "done" => h.commit = c.begun.commit

Undisturbed(c) == c.at # "idle" /\ ~c.disturbed

CallOK(c, h) ==
    /\ Prepared(c)
    /\ Undisturbed(c) => Scanning(c, h) /\ Remembers(c) /\ Returned(c, h)

BranchInv ==
    /\ head \in Heads
    /\ reports \in [Branches!Commits -> Reports]
    /\ Branches!ReportOfCommit
    /\ compare \in [Calls -> CallRecords]
    /\ \A c \in Calls : CallOK(compare[c], head)

LEMMA InitBranchInv == SensibleLog /\ Branches!Init => BranchInv
<1> SUFFICES ASSUME SensibleLog, Branches!Init PROVE BranchInv
  OBVIOUS
<1>1. head \in Heads
  BY DEF SensibleLog, Branches!Init, Heads, Names
<1>2. Branches!Idle \in CallRecords
  <2>1. Branches!Idle.begun \in Heads /\ Branches!Idle.begun = head
    BY <1>1 DEF Branches!Init, Branches!Idle
  <2>2. Branches!Idle.read \in Reads
    BY DEF Branches!Idle, Branches!Unread, Reads
  <2>3. Branches!Idle.refs \in Seq(Branches!Commits)
    BY DEF Branches!Idle
  <2>4. QED
    BY <2>1, <2>2, <2>3 DEF Branches!Idle, CallRecords, Places
<1>3. CallOK(Branches!Idle, head)
  BY DEF Branches!Idle, CallOK, Prepared, Undisturbed
<1>4. reports \in [Branches!Commits -> Reports] /\ Branches!ReportOfCommit
  BY DEF Branches!Init, Reports, Branches!ReportOfCommit
<1>5. QED
  BY <1>1, <1>2, <1>3, <1>4 DEF Branches!Init, BranchInv

(* A step of one call that leaves the tree alone.                            *)
LEMMA OneCall ==
  ASSUME BranchInv, NEW c \in Calls, NEW l \in CallRecords, CallOK(l, head),
         compare' = [compare EXCEPT ![c] = l], UNCHANGED head,
         reports' \in [Branches!Commits -> Reports], Branches!ReportOfCommit'
  PROVE  BranchInv'
<1>1. \A d \in Calls : compare'[d] = IF d = c THEN l ELSE compare[d]
  BY DEF BranchInv
<1>2. compare' \in [Calls -> CallRecords]
  BY DEF BranchInv
<1>3. ASSUME NEW d \in Calls PROVE CallOK(compare'[d], head')
  BY <1>1 DEF BranchInv
<1>4. QED
  BY <1>2, <1>3 DEF BranchInv

(* A step that moves the tree: every other call is disturbed.                *)
LEMMA OneMoves ==
  ASSUME BranchInv, NEW c \in Calls, NEW l \in CallRecords, NEW h \in Heads, CallOK(l, h),
         head' = h, compare' = Branches!Disturbing(c, [compare EXCEPT ![c] = l]),
         UNCHANGED reports
  PROVE  BranchInv'
<1> DEFINE other(d) == [compare[d] EXCEPT !.disturbed = @ \/ compare[d].at # "idle"]
<1>1. \A d \in Calls : compare'[d] = IF d = c THEN l ELSE other(d)
  BY DEF Branches!Disturbing, BranchInv
<1>2. ASSUME NEW d \in Calls
      PROVE  /\ other(d) \in CallRecords
             /\ CallOK(other(d), h)
  <2>1. compare[d] \in CallRecords /\ Prepared(compare[d])
    BY DEF BranchInv, CallOK
  <2>2. other(d).disturbed = (compare[d].disturbed \/ compare[d].at # "idle")
    BY <2>1 DEF CallRecords
  <2>3. other(d) \in CallRecords
    BY <2>1 DEF CallRecords
  <2>4. other(d).at = compare[d].at /\ Prepared(other(d))
    BY <2>1 DEF CallRecords, Prepared
  <2>5. ~Undisturbed(other(d))
    BY <2>2, <2>4 DEF Undisturbed
  <2>6. QED
    BY <2>3, <2>4, <2>5 DEF CallOK
<1> HIDE DEF other
<1>3. compare' \in [Calls -> CallRecords]
  <2>1. \A d \in Calls : compare'[d] \in CallRecords
    BY <1>1, <1>2
  <2>2. DOMAIN compare' = Calls /\ compare' = [d \in Calls |-> compare'[d]]
    BY DEF Branches!Disturbing
  <2>3. QED
    BY <2>1, <2>2
<1>4. \A d \in Calls : CallOK(compare'[d], head')
  BY <1>1, <1>2
<1>5. Branches!ReportOfCommit'
  BY DEF BranchInv, Branches!ReportOfCommit
<1>6. QED
  BY <1>3, <1>4, <1>5 DEF BranchInv

LEMMA CallTyped ==
  ASSUME BranchInv, NEW c \in Calls
  PROVE  compare[c] \in CallRecords /\ CallOK(compare[c], head) /\ head \in Heads
  BY DEF BranchInv

LEMMA CachesStay ==
  ASSUME BranchInv, UNCHANGED reports
  PROVE  reports' \in [Branches!Commits -> Reports] /\ Branches!ReportOfCommit'
  BY DEF BranchInv, Branches!ReportOfCommit

(* What is asked for is in the log, and nobody else runs when a call that    *)
(* is not disturbed begins.                                                  *)
LEMMA BeginKeeps ==
  ASSUME BranchInv, NEW c \in Calls, NEW each \in BOOLEAN, NEW refs \in Seq(Branches!Commits),
         Branches!Begin(c, each, refs)
  PROVE  BranchInv'
<1> DEFINE l == [Branches!Idle EXCEPT !.at = IF each THEN "lookup" ELSE "current",
                             !.each = each, !.refs = refs, !.begun = head,
                             !.disturbed = \E d \in Calls \ {c} : Branches!Running(d)]
<1>1. l \in CallRecords
  <2>1. head \in Heads
    BY CallTyped
  <2>2. Branches!Unread \in Reads
    BY DEF Branches!Unread, Reads
  <2>3. QED
    BY <2>1, <2>2 DEF Branches!Idle, CallRecords, Places
<1>2. CallOK(l, head)
  BY DEF Branches!Idle, CallOK, Prepared, Undisturbed, Scanning, Remembers, Returned
<1>3. compare' = [compare EXCEPT ![c] = l] /\ UNCHANGED <<head, reports>>
  BY DEF Branches!Begin
<1> HIDE DEF l
<1>4. QED
  BY <1>1, <1>2, <1>3, CachesStay, OneCall

LEMMA LookupKeeps ==
  ASSUME BranchInv, NEW c \in Calls,
         Branches!CacheHit(c) \/ Branches!CacheMiss(c) \/ Branches!Finish(c)
  PROVE  BranchInv'
<1> DEFINE k == compare[c]
<1>1. k \in CallRecords /\ CallOK(k, head)
  BY CallTyped
<1>2. CASE Branches!CacheHit(c)
  <2> DEFINE l == [k EXCEPT !.refs = Tail(@)]
  <2>1. l \in CallRecords
    <3>1. k.refs \in Seq(Branches!Commits) /\ Tail(k.refs) \in Seq(Branches!Commits)
      BY <1>1, <1>2 DEF CallRecords, Branches!CacheHit
    <3>2. QED
      BY <1>1, <3>1 DEF CallRecords
  <2>2. CallOK(l, head)
    BY <1>1, <1>2 DEF CallRecords, Branches!CacheHit, CallOK, Prepared, Undisturbed,
       Scanning,
         Remembers, Returned
  <2>3. compare' = [compare EXCEPT ![c] = l] /\ UNCHANGED <<head, reports>>
    BY <1>2 DEF Branches!CacheHit, BranchInv
  <2> HIDE DEF l
  <2>4. QED
    BY <2>1, <2>2, <2>3, CachesStay, OneCall
<1>3. CASE Branches!CacheMiss(c)
  <2> DEFINE l == [k EXCEPT !.at = IF k.each THEN "current" ELSE "checkout"]
  <2>1. l \in CallRecords
    BY <1>1, <1>3 DEF CallRecords, Branches!CacheMiss, Places
  <2>2. CallOK(l, head)
    BY <1>1, <1>3 DEF CallRecords, Branches!CacheMiss, CallOK, Prepared, Undisturbed,
       Scanning,
         Remembers, Returned
  <2>3. compare' = [compare EXCEPT ![c] = l] /\ UNCHANGED <<head, reports>>
    BY <1>3 DEF Branches!CacheMiss, Branches!Goto, BranchInv
  <2> HIDE DEF l
  <2>4. QED
    BY <2>1, <2>2, <2>3, CachesStay, OneCall
<1>4. CASE Branches!Finish(c)
  <2> DEFINE l == [k EXCEPT !.at = IF ~k.each /\ k.scans > 0 THEN "restore" ELSE "done"]
  <2>1. l \in CallRecords
    BY <1>1, <1>4 DEF CallRecords, Branches!Finish, Places
  <2>2. CallOK(l, head)
    BY <1>1, <1>4 DEF CallRecords, Branches!Finish, CallOK, Prepared, Undisturbed, Scanning,
         Remembers, Returned
  <2>3. compare' = [compare EXCEPT ![c] = l] /\ UNCHANGED <<head, reports>>
    BY <1>4 DEF Branches!Finish, Branches!Goto, BranchInv
  <2> HIDE DEF l
  <2>4. QED
    BY <2>1, <2>2, <2>3, CachesStay, OneCall
<1>5. QED
  BY <1>2, <1>3, <1>4

LEMMA GetCurrentBranchKeeps ==
  ASSUME BranchInv, NEW c \in Calls, Branches!GetCurrentBranch(c)
  PROVE  BranchInv'
<1> DEFINE k == compare[c]
           l == [k EXCEPT !.branch = head.name,
                          !.at = IF k.each THEN "checkout" ELSE "lookup"]
<1>1. k \in CallRecords /\ CallOK(k, head) /\ head.name \in Names
  BY CallTyped DEF Heads
<1>2. l \in CallRecords
  BY <1>1 DEF CallRecords, Places
<1>3. CallOK(l, head)
  <2>1. /\ l.branch = head.name /\ l.at = IF k.each THEN "checkout" ELSE "lookup"
        /\ l.scans = k.scans /\ l.begun = k.begun /\ l.each = k.each
        /\ l.disturbed = k.disturbed /\ l.refs = k.refs
    BY <1>1 DEF CallRecords
  <2>2. k.at = "current"
    BY DEF Branches!GetCurrentBranch
  <2>3. Prepared(l)
    BY <1>1, <2>1, <2>2 DEF CallOK, Prepared
  <2> HIDE DEF l
  <2>4. ASSUME Undisturbed(l)
        PROVE  Scanning(l, head) /\ Remembers(l) /\ Returned(l, head)
    <3>1. Remembers(k) /\ Returned(k, head) /\ Prepared(k)
      BY <1>1, <2>1, <2>2, <2>4 DEF CallOK, Undisturbed
    <3>2. k.scans = 0 => head = k.begun
      BY <2>2, <3>1 DEF Returned
    <3>3. Remembers(l)
      BY <2>1, <2>2, <3>1, <3>2 DEF Remembers, Prepared
    <3>4. Returned(l, head)
      BY <2>1, <2>2, <3>1 DEF Returned
    <3>5. QED
      BY <2>1, <3>3, <3>4 DEF Scanning
  <2>5. QED
    BY <2>3, <2>4 DEF CallOK
<1>4. compare' = [compare EXCEPT ![c] = l] /\ UNCHANGED <<head, reports>>
  BY DEF Branches!GetCurrentBranch, BranchInv
<1> HIDE DEF l
<1>5. QED
  BY <1>2, <1>3, <1>4, CachesStay, OneCall

(* A scan reads the tree it checked out, and its report is of that.          *)
LEMMA ScanKeeps ==
  ASSUME BranchInv, NEW c \in Calls,
         \/ \E p \in Pkgs : Branches!ReadPackage(c, p)
         \/ Branches!ScanFails(c) \/ Branches!CheckoutFails(c)
  PROVE  BranchInv'
<1> DEFINE k == compare[c]
<1>1. k \in CallRecords /\ CallOK(k, head) /\ head.commit \in Branches!Commits
  BY CallTyped DEF Heads
<1>2. ASSUME NEW p \in Pkgs, Branches!ReadPackage(c, p) PROVE BranchInv'
  <2> DEFINE l == [k EXCEPT !.read = [k.read EXCEPT ![p] = head.commit]]
  <2>1. l \in CallRecords /\ \A q \in Pkgs : l.read[q] = IF q = p THEN head.commit ELSE k.read[q]
    BY <1>1 DEF CallRecords, Reads
  <2>2. CallOK(l, head)
    BY <1>1, <1>2, <2>1 DEF CallRecords, Branches!ReadPackage, CallOK, Prepared,
       Undisturbed,
         Scanning, Remembers, Returned
  <2>3. compare' = [compare EXCEPT ![c] = l] /\ UNCHANGED <<head, reports>>
    BY <1>2 DEF Branches!ReadPackage, BranchInv
  <2> HIDE DEF l
  <2>4. QED
    BY <2>1, <2>2, <2>3, CachesStay, OneCall
<1>3. CASE Branches!ScanFails(c)
  <2> DEFINE l == [k EXCEPT !.at = "restore", !.failed = TRUE]
  <2>1. l \in CallRecords
    BY <1>1 DEF CallRecords, Places
  <2>2. CallOK(l, head)
    BY <1>1, <1>3 DEF CallRecords, Branches!ScanFails, CallOK, Prepared, Undisturbed,
       Scanning,
         Remembers, Returned
  <2>3. compare' = [compare EXCEPT ![c] = l] /\ UNCHANGED <<head, reports>>
    BY <1>3 DEF Branches!ScanFails, BranchInv
  <2> HIDE DEF l
  <2>4. QED
    BY <2>1, <2>2, <2>3, CachesStay, OneCall
<1>4. CASE Branches!CheckoutFails(c)
  <2> DEFINE l == [k EXCEPT !.at = IF k.each THEN "done" ELSE "restore", !.failed = TRUE]
  <2>1. l \in CallRecords
    BY <1>1 DEF CallRecords, Places
  <2>2. CallOK(l, head)
    BY <1>1, <1>4 DEF CallRecords, Branches!CheckoutFails, CallOK, Prepared, Undisturbed,
         Scanning, Remembers, Returned
  <2>3. compare' = [compare EXCEPT ![c] = l] /\ UNCHANGED <<head, reports>>
    BY <1>4 DEF Branches!CheckoutFails, BranchInv
  <2> HIDE DEF l
  <2>4. QED
    BY <2>1, <2>2, <2>3, CachesStay, OneCall
<1>5. QED
  BY <1>2, <1>3, <1>4

LEMMA PutReportKeeps ==
  ASSUME BranchInv, NEW c \in Calls, Branches!PutReport(c)
  PROVE  BranchInv'
<1> DEFINE k == compare[c]
           l == [k EXCEPT !.at = IF k.each THEN "restore" ELSE "lookup",
                          !.refs = IF k.each THEN @ ELSE Tail(@)]
           r == [of |-> k.read, mixed |-> k.disturbed]
<1>1. k \in CallRecords /\ CallOK(k, head) /\ k.at = "scan" /\ k.refs # <<>>
  BY CallTyped DEF Branches!PutReport, CallOK, Prepared
<1>2. l \in CallRecords
  <2>1. k.refs \in Seq(Branches!Commits) /\ Tail(k.refs) \in Seq(Branches!Commits)
    BY <1>1 DEF CallRecords
  <2>2. QED
    BY <1>1, <2>1 DEF CallRecords, Places
<1>3. CallOK(l, head)
  BY <1>1 DEF CallRecords, CallOK, Prepared, Undisturbed, Scanning, Remembers, Returned
<1>4. compare' = [compare EXCEPT ![c] = l] /\ UNCHANGED head
  BY DEF Branches!PutReport, BranchInv
<1>5. /\ reports' = [reports EXCEPT ![Branches!Ref(c)] = r]
      /\ Branches!Ref(c) \in Branches!Commits /\ r \in Reports
  BY <1>1 DEF Branches!PutReport, Branches!Ref, CallRecords, Reports
<1>6. ~r.mixed => \A p \in Pkgs : r.of[p] = Branches!Ref(c)
  BY <1>1 DEF Branches!PutReport, CallOK, Undisturbed, Scanning, Branches!Ref
<1>7. reports' \in [Branches!Commits -> Reports] /\ Branches!ReportOfCommit'
  BY <1>5, <1>6 DEF BranchInv, Branches!ReportOfCommit
<1> HIDE DEF l
<1>8. QED
  BY <1>2, <1>3, <1>4, <1>7, OneCall

(* What is checked out is a commit, and where it returns to is a name.       *)
LEMMA Resolved ==
  ASSUME SensibleLog, BranchInv
  PROVE  /\ \A ref \in Branches!Commits : Branches!ResolveRevision(ref) = ref
         /\ \A ref \in Names \cup Branches!Commits :
              [name |-> "HEAD", commit |-> Branches!ResolveRevision(ref)] \in Heads
         /\ \A h \in Heads : h.name # "HEAD" => Branches!ResolveRevision(h.name) = h.commit
         /\ Branches!ResolveRevision("HEAD") = head.commit
<1>1. head.commit \in Branches!Commits
  BY DEF BranchInv, Heads
<1>2. \A ref \in Branches!Commits : Branches!ResolveRevision(ref) = ref
  BY DEF SensibleLog, Branches!ResolveRevision
<1>3. Branches!ResolveRevision("HEAD") = head.commit
  BY DEF Branches!ResolveRevision
<1>4. \A ref \in DOMAIN Tip : /\ Branches!ResolveRevision(ref) = Tip[ref]
                               /\ Tip[ref] \in Branches!Commits
  BY DEF SensibleLog, Branches!ResolveRevision
<1>5. \A h \in Heads : h.name # "HEAD" => h.name \in DOMAIN Tip /\ h.commit = Tip[h.name]
  BY DEF Heads, Names
<1>6. \A ref \in Names \cup Branches!Commits : Branches!ResolveRevision(ref) \in Branches!Commits
  BY <1>1, <1>2, <1>3, <1>4 DEF Names
<1>7. \A x \in Branches!Commits : [name |-> "HEAD", commit |-> x] \in Heads
  BY DEF Heads, Names
<1>8. QED
  BY <1>2, <1>3, <1>4, <1>5, <1>6, <1>7

LEMMA CheckoutKeeps ==
  ASSUME SensibleLog, BranchInv, NEW c \in Calls, Branches!Checkout(c)
  PROVE  BranchInv'
<1> DEFINE k == compare[c]
           h == [name |-> "HEAD", commit |-> Branches!ResolveRevision(Head(k.refs))]
           l == [k EXCEPT !.at = "scan", !.read = Branches!Unread, !.scans = @ + 1]
<1>1. k \in CallRecords /\ CallOK(k, head) /\ k.at = "checkout" /\ k.refs # <<>>
  BY CallTyped DEF Branches!Checkout, CallOK, Prepared
<1>2. Head(k.refs) \in Branches!Commits
  BY <1>1 DEF CallRecords
<1>3. h \in Heads /\ h.commit = Head(k.refs)
  BY <1>2, Resolved
<1>4. l \in CallRecords /\ \A p \in Pkgs : l.read[p] = "unread"
  <2>1. Branches!Unread \in Reads /\ \A p \in Pkgs : Branches!Unread[p] = "unread"
    BY DEF Branches!Unread, Reads
  <2>2. k.scans + 1 \in Nat /\ l.read = Branches!Unread
    BY <1>1 DEF CallRecords
  <2>3. QED
    BY <1>1, <2>1, <2>2 DEF CallRecords, Places
<1>5. l.at = "scan" /\ l.scans = k.scans + 1 /\ k.scans \in Nat /\ l.refs = k.refs
  BY <1>1 DEF CallRecords
<1>6. CallOK(l, h)
  BY <1>1, <1>3, <1>4, <1>5 DEF CallRecords, CallOK, Prepared, Undisturbed, Scanning,
     Remembers,
       Returned
<1>7. /\ head' = h /\ UNCHANGED reports
      /\ compare' = Branches!Disturbing(c, [compare EXCEPT ![c] = l])
  BY DEF Branches!Checkout, Branches!CheckoutRef, Branches!Ref, BranchInv
<1> HIDE DEF l, h
<1>8. QED
  BY <1>3, <1>4, <1>6, <1>7, OneMoves

(* The name that was read is that of the head the call began with, and       *)
(* resolves to the commit it had.                                            *)
LEMMA RestoreKeeps ==
  ASSUME SensibleLog, BranchInv, NEW c \in Calls, Branches!Restore(c)
  PROVE  BranchInv'
<1> DEFINE k == compare[c]
           h == [name |-> "HEAD", commit |-> Branches!ResolveRevision(k.branch)]
           l == [k EXCEPT !.at = IF k.each /\ ~k.failed THEN "lookup" ELSE "done",
                          !.refs = IF @ = <<>> THEN @ ELSE Tail(@)]
<1>1. k \in CallRecords /\ CallOK(k, head) /\ k.at = "restore" /\ k.branch \in Names
  BY CallTyped DEF Branches!Restore, CallOK, Prepared
<1>2. h \in Heads
  BY <1>1, Resolved
<1>3. l \in CallRecords
  <2>1. /\ k.refs \in Seq(Branches!Commits)
        /\ k.refs # <<>> => Tail(k.refs) \in Seq(Branches!Commits)
    BY <1>1 DEF CallRecords
  <2>2. QED
    BY <1>1, <2>1 DEF CallRecords, Places
<1>4. /\ l.at = IF k.each /\ ~k.failed THEN "lookup" ELSE "done"
      /\ l.scans = k.scans /\ l.begun = k.begun /\ l.each = k.each
      /\ l.disturbed = k.disturbed /\ l.branch = k.branch
  BY <1>1 DEF CallRecords
<1>5. Prepared(l)
  BY <1>1, <1>4 DEF Prepared
<1>6. ASSUME ~k.disturbed
      PROVE  Scanning(l, h) /\ Remembers(l) /\ Returned(l, h)
  <2>1. Remembers(k) /\ Returned(k, head) /\ k.begun \in Heads /\ k.scans \in Nat
    BY <1>1, <1>6 DEF CallOK, Undisturbed, CallRecords
  <2>2. k.branch = k.begun.name /\ k.begun.name # "HEAD" => h.commit = k.begun.commit
    BY <2>1, Resolved
  <2>3. k.scans = 0 => ~k.each /\ k.branch = k.begun.name /\ head = k.begun
    BY <1>1, <2>1 DEF CallOK, Prepared, Remembers, Returned
  <2>4. k.scans = 0 => h.commit = k.begun.commit /\ l.at = "done"
    BY <1>4, <2>2, <2>3, Resolved
  <2>5. (k.each /\ k.scans = 1) \/ ~k.each => k.branch = k.begun.name
    BY <1>1, <2>1 DEF Remembers
  <2>6. Remembers(l) /\ Scanning(l, h)
    BY <1>4, <2>5 DEF Remembers, Scanning
  <2>7. Returned(l, h)
    BY <1>4, <2>2, <2>4, <2>5 DEF Returned
  <2>8. QED
    BY <2>6, <2>7
<1>7. CallOK(l, h)
  BY <1>4, <1>5, <1>6 DEF CallOK, Undisturbed
<1>8. /\ head' = h /\ UNCHANGED reports
      /\ compare' = Branches!Disturbing(c, [compare EXCEPT ![c] = l])
  BY DEF Branches!Restore, Branches!Restored, Branches!CheckoutRef, BranchInv
<1> HIDE DEF l, h
<1>9. QED
  BY <1>2, <1>3, <1>7, <1>8, OneMoves

(* What is known of every call, the tree and the reports, at any time.       *)
THEOREM BranchScansInvariant == Branches!Spec => []BranchInv
<1> SensibleLog
  BY SensibleServices
<1>1. Branches!Init => BranchInv
  BY InitBranchInv
<1>2. BranchInv /\ [Branches!Next]_Branches!vars => BranchInv'
  <2> SUFFICES ASSUME BranchInv, [Branches!Next]_Branches!vars PROVE BranchInv'
    OBVIOUS
  <2>1. CASE UNCHANGED Branches!vars
    BY <2>1 DEF Branches!vars, BranchInv, Branches!ReportOfCommit
  <2>2. ASSUME NEW c \in Calls, Branches!DiffBranches(c) PROVE BranchInv'
    BY <2>2, BeginKeeps DEF Branches!DiffBranches, SensibleLog
  <2>3. ASSUME NEW c \in Calls, Branches!Evolution(c) PROVE BranchInv'
    <3>1. PICK r \in Ranges :
            Branches!Begin(c, FALSE,
              Branches!SampleCommits(Branches!ListCommits(r.oldest, r.steps), r.stride))
      BY <2>3 DEF Branches!Evolution
    <3>2. r.steps \in Nat /\ r.stride \in Nat
      BY DEF SensibleLog
    <3>3. Branches!SampleCommits(Branches!ListCommits(r.oldest, r.steps), r.stride)
            \in Seq(Branches!Commits)
      BY <3>2, ListedAreCommits, SampledAreCommits
    <3>4. QED
      BY <3>1, <3>3, BeginKeeps
  <2>4. QED
    BY <2>1, <2>2, <2>3, LookupKeeps, GetCurrentBranchKeeps, ScanKeeps, PutReportKeeps,
       CheckoutKeeps, RestoreKeeps DEF Branches!Next
<1>3. QED
  BY <1>1, <1>2, PTL DEF Branches!Spec

(* The report that is cached under a commit is of that commit, whatever was  *)
(* scanned in between, unless another call moved the tree while it was made. *)
THEOREM ReportsAreOfTheirCommits == Branches!Spec => []ReportOfCommit
<1>1. BranchInv => ReportOfCommit
  BY DEF BranchInv, ReportOfCommit
<1>2. QED
  BY <1>1, BranchScansInvariant, PTL

(* An undisturbed Evolution, and an undisturbed DiffBranches that scans no   *)
(* more than one of its commits, leave the tree as they found it.            *)
THEOREM TreesAreRestored == Branches!Spec => []TreeRestored
<1>1. BranchInv => TreeRestored
  BY DEF BranchInv, CallOK, Undisturbed, Returned, TreeRestored, Branches!TreeRestored,
     CallRecords
<1>2. QED
  BY <1>1, BranchScansInvariant, PTL
-----------------------------------------------------------------------------

DesiredRecords == [rules : Sets \cup {None}, accepted : SUBSET Accepts]
WriterRecords == [at : {"idle", "put", "failed", "done"}, ds : DesiredRecords \cup {None}]

DesiredAssumed ==
    None \notin DesiredRecords /\ Accepts \cap Sets = {} /\ None \notin Desired!Writers

(* What a call stored is in a state.                                         *)
Holds(c, state) ==
    /\ state # None
    /\ c \in state.accepted \/ state.rules = c

StatesTyped ==
    /\ desired \in DesiredRecords \cup {None}
    /\ change \in [Desired!Writers -> WriterRecords]
    /\ unseen \in [Desired!Writers -> SUBSET Desired!Writers]

(* A call is about to store what it stands for.                              *)
OwnPut == \A c \in Desired!Writers : change[c].at = "put" => Holds(c, change[c].ds)

(* Somebody stored who had not seen what a call stored.                      *)
Overwritten(c) == \E d \in Desired!Writers : change[d].at = "done" /\ c \in unseen[d]

(* What has been stored, and not been overwritten, is in the state that a    *)
(* call is about to store, or the call did not see it; SetDesiredState sees  *)
(* nothing.                                                                  *)
SeenOrNot ==
    \A c, d \in Desired!Writers : change[c].at = "done" /\ ~Overwritten(c) =>
      /\ change[d].at = "put" => c \in unseen[d] \/ Holds(c, change[d].ds)
      /\ d \in Sets /\ change[d].at = "idle" => c \in unseen[d]

(* What has been stored is still there, or overwritten.                      *)
KeptOrUnseen ==
    \A c \in Desired!Writers :
      change[c].at = "done" => Holds(c, desired) \/ Overwritten(c)

DesiredInv == StatesTyped /\ OwnPut /\ SeenOrNot /\ KeptOrUnseen

LEMMA InitDesired == Desired!Init => DesiredInv
  BY DEF Desired!Init, DesiredInv, StatesTyped, WriterRecords, OwnPut, SeenOrNot,
     KeptOrUnseen

(* What a call reads, it stores again, save SetDesiredState.                 *)
LEMMA GetOK ==
  ASSUME DesiredAssumed, DesiredInv, NEW c \in Desired!Writers, Desired!GetDesiredState(c)
  PROVE  DesiredInv'
<1> DEFINE ds == IF c \in Accepts THEN Desired!Accepted(c) ELSE [rules |-> c, accepted |-> {}]
<1>1. Desired!DesiredOf(desired) \in DesiredRecords
  BY DEF DesiredInv, StatesTyped, Desired!DesiredOf, DesiredRecords
<1>2. ds \in DesiredRecords /\ Holds(c, ds)
  BY <1>1 DEF Desired!Accepted, DesiredRecords, Holds, Desired!Writers, DesiredAssumed
<1>3. \A d \in Desired!Writers : c \in Accepts /\ Holds(d, desired) => Holds(d, ds)
  BY <1>1, <1>2 DEF Desired!Accepted, DesiredRecords, Holds, Desired!DesiredOf
<1> HIDE DEF ds
<1>4. /\ change[c].at = "idle" /\ change' = [change EXCEPT ![c] = [at |-> "put", ds |-> ds]]
      /\ UNCHANGED <<desired, unseen>>
  BY DEF Desired!GetDesiredState, ds
<1>5. StatesTyped'
  BY <1>2, <1>4 DEF DesiredInv, StatesTyped, WriterRecords
<1>6. OwnPut'
  BY <1>2, <1>4 DEF DesiredInv, StatesTyped, OwnPut
<1>7. \A d \in Desired!Writers : /\ change'[d].at = "done" <=> change[d].at = "done"
                       /\ Overwritten(d)' <=> Overwritten(d)
  BY <1>4 DEF DesiredInv, StatesTyped, Overwritten
<1>8. SeenOrNot'
  <2> SUFFICES ASSUME NEW b \in Desired!Writers, NEW d \in Desired!Writers,
       change'[b].at = "done", ~Overwritten(b)
               PROVE  /\ change'[d].at = "put" => b \in unseen[d] \/ Holds(b, change'[d].ds)
                      /\ d \in Sets /\ change'[d].at = "idle" => b \in unseen[d]
    BY <1>4, <1>7 DEF SeenOrNot, Holds
  <2>1. CASE d # c
    BY <2>1, <1>4, <1>7 DEF DesiredInv, SeenOrNot, StatesTyped
  <2>2. CASE d = c /\ c \in Sets
    BY <2>2, <1>4, <1>7 DEF DesiredInv, SeenOrNot, StatesTyped
  <2>3. CASE d = c /\ c \in Accepts
    BY <2>3, <1>3, <1>4, <1>7 DEF DesiredInv, SeenOrNot, KeptOrUnseen, StatesTyped
  <2>4. QED
    BY <2>1, <2>2, <2>3 DEF Desired!Writers
<1>9. KeptOrUnseen'
  BY <1>4, <1>7 DEF DesiredInv, KeptOrUnseen, Holds
<1>10. QED
  BY <1>5, <1>6, <1>8, <1>9 DEF DesiredInv

LEMMA FailsOK ==
  ASSUME DesiredInv, NEW c \in Desired!Writers, Desired!Fails(c)
  PROVE  DesiredInv'
<1>1. /\ change[c].at = "put" /\ change' = [change EXCEPT ![c].at = "failed"]
      /\ UNCHANGED <<desired, unseen>>
  BY DEF Desired!Fails
<1>2. StatesTyped'
  BY <1>1 DEF DesiredInv, StatesTyped, WriterRecords
<1>3. \A d \in Desired!Writers : /\ change'[d].at = IF d = c THEN "failed" ELSE change[d].at
                       /\ change'[d].ds = change[d].ds
  BY <1>1 DEF DesiredInv, StatesTyped, WriterRecords
<1>4. \A d \in Desired!Writers : Overwritten(d)' <=> Overwritten(d)
  BY <1>1, <1>3 DEF Overwritten
<1>5. OwnPut' /\ SeenOrNot' /\ KeptOrUnseen'
  BY <1>1, <1>3, <1>4 DEF DesiredInv, OwnPut, SeenOrNot, KeptOrUnseen, Holds
<1>6. QED
  BY <1>2, <1>5 DEF DesiredInv

(* Whoever else is about to store has not seen what is stored now.           *)
LEMMA PutOK ==
  ASSUME DesiredAssumed, DesiredInv, NEW c \in Desired!Writers,
       Desired!PutDesiredState(c)
  PROVE  DesiredInv'
<1>1. /\ change[c].at = "put" /\ change' = [change EXCEPT ![c].at = "done"]
      /\ desired' = change[c].ds /\ Holds(c, change[c].ds)
  BY DEF Desired!PutDesiredState, DesiredInv, OwnPut
<1>2. StatesTyped'
  <2>1. unseen' \in [Desired!Writers -> SUBSET Desired!Writers]
    BY DEF Desired!PutDesiredState, DesiredInv, StatesTyped
  <2>2. QED
    BY <1>1, <2>1 DEF DesiredInv, StatesTyped, WriterRecords
<1>3. \A d \in Desired!Writers : /\ change'[d].at = IF d = c THEN "done" ELSE change[d].at
                       /\ change'[d].ds = change[d].ds
  BY <1>1 DEF DesiredInv, StatesTyped, WriterRecords
<1>4. \A d \in Desired!Writers :
        /\ unseen[d] \subseteq unseen'[d]
        /\ d # c /\ (change[d].at = "put" \/ (d \in Sets /\ change[d].at = "idle"))
             => c \in unseen'[d]
  BY DEF Desired!PutDesiredState
<1>5. \A d \in Desired!Writers : Overwritten(d) => Overwritten(d)'
  BY <1>3, <1>4 DEF Overwritten
<1>6. OwnPut'
  BY <1>3 DEF DesiredInv, OwnPut, Holds
<1>7. SeenOrNot'
  <2> SUFFICES ASSUME NEW b \in Desired!Writers, NEW d \in Desired!Writers,
                      change'[b].at = "done", ~Overwritten(b)'
               PROVE  /\ change'[d].at = "put" => b \in unseen'[d] \/ Holds(b, change'[d].ds)
                      /\ d \in Sets /\ change'[d].at = "idle" => b \in unseen'[d]
    BY DEF SeenOrNot, Holds
  <2>1. CASE b = c
    BY <2>1, <1>3, <1>4
  <2>2. CASE b # c
    BY <2>2, <1>3, <1>4, <1>5 DEF DesiredInv, SeenOrNot
  <2>3. QED
    BY <2>1, <2>2
<1>8. KeptOrUnseen'
  <2> SUFFICES ASSUME NEW b \in Desired!Writers, change'[b].at = "done", ~Overwritten(b)'
               PROVE  Holds(b, desired')
    BY DEF KeptOrUnseen, Holds
  <2>1. CASE b = c
    BY <2>1, <1>1
  <2>2. CASE b # c
    <3>1. b \notin unseen'[c]
      BY <1>3 DEF Overwritten
    <3>2. QED
      BY <2>2, <3>1, <1>1, <1>3, <1>4, <1>5 DEF DesiredInv, SeenOrNot
  <2>3. QED
    BY <2>1, <2>2
<1>9. QED
  BY <1>2, <1>6, <1>7, <1>8 DEF DesiredInv

(* An acceptance, and the rules that were set, are lost to concurrent        *)
(* writers and to SetDesiredState alone, however many calls there are        *)
(* (Engine.AcceptViolation).                                                 *)
THEOREM AcceptancesKept == Desired!Spec => []AcceptedKept
<1>1. DesiredInv /\ [Desired!Next]_Desired!vars => DesiredInv'
  <2> SUFFICES ASSUME DesiredInv, [Desired!Next]_Desired!vars PROVE DesiredInv'
    OBVIOUS
  <2>1. CASE UNCHANGED Desired!vars
    BY <2>1 DEF Desired!vars, DesiredInv, StatesTyped, OwnPut, SeenOrNot, KeptOrUnseen,
       Holds,
         Overwritten
  <2>2. CASE Desired!Next
    <3>1. DesiredAssumed
      BY SensibleServices DEF SensibleWriters, DesiredAssumed, DesiredRecords,
         Desired!Writers
    <3>2. QED
      BY <2>2, <3>1, GetOK, FailsOK, PutOK DEF Desired!Next
  <2>3. QED
    BY <2>1, <2>2
<1>2. DesiredInv => AcceptedKept
  BY DEF AcceptedKept, DesiredInv, StatesTyped, KeptOrUnseen, Holds, Overwritten,
     Desired!AcceptedKept,
       DesiredRecords, Desired!Writers
<1>3. QED
  BY <1>1, <1>2, InitDesired, PTL DEF Desired!Spec
-----------------------------------------------------------------------------

Waiters == [at : {"idle", "first", "settle", "done"}, began : Nat, prev : Nat, poll : Nat,
            stable : Nat,
            why : {"none", "cancelled", "deadline", "silence", "settled"}]

WaitTyped ==
    /\ now \in Nat /\ data \in Nat /\ count \in Nat
    /\ waiter \in Waiters
    /\ bumps \in [first : Nat \cup {Diagnosed!Never}, last : Nat \cup {Diagnosed!Never}]

(* Before the first change is seen: what was counted since the last poll is  *)
(* all that was counted since the wait began.                                *)
First ==
    waiter.at = "first" =>
      /\ count >= waiter.prev
      /\ now <= waiter.poll /\ waiter.poll <= now + PollSlow
      /\ count = waiter.prev <=> bumps.first = Diagnosed!Never
      /\ bumps.first # Diagnosed!Never => bumps.first + PollSlow >= waiter.poll
      /\ bumps.first = Diagnosed!Never <=> bumps.last = Diagnosed!Never

(* While it settles: what the last poll did not see would make it begin      *)
(* anew, and what it saw was there when the quiet time began.                *)
Settling ==
    waiter.at = "settle" =>
      /\ count >= waiter.prev
      /\ bumps.last # Diagnosed!Never
      /\ count = waiter.prev => bumps.last <= waiter.stable

SettleInv ==
    /\ WaitTyped
    /\ First /\ Settling
    /\ bumps.last <= now
    /\ waiter.at = "idle" => bumps.first = Diagnosed!Never /\ bumps.last = Diagnosed!Never
    /\ waiter.at # "done" => waiter.why = "none"
    /\ Diagnosed!WaitSettled

LEMMA NextTypeOK ==
  ASSUME SensibleTimes, WaitTyped, [Diagnosed!Next]_Diagnosed!vars
  PROVE  WaitTyped'
<1> USE DEF SensibleTimes, WaitTyped
<1>1. CASE Diagnosed!Set \/ Diagnosed!SetDone \/ Diagnosed!Tick
  BY <1>1 DEF Diagnosed!Set, Diagnosed!SetDone, Diagnosed!Tick, Diagnosed!Never
<1> now + PollSlow \in Nat /\ now + PollFast \in Nat
  OBVIOUS
<1>2. CASE Diagnosed!WaitForDiagnostics
  <2>1. waiter' \in Waiters
    BY <1>2 DEF Diagnosed!WaitForDiagnostics, Waiters
  <2>2. QED
    BY <1>2, <2>1 DEF Diagnosed!WaitForDiagnostics
<1>3. CASE \/ Diagnosed!CtxDone \/ Diagnosed!DeadlinePasses
          \/ Diagnosed!NothingCame \/ Diagnosed!Settled
  BY <1>3 DEF Diagnosed!CtxDone, Diagnosed!DeadlinePasses, Diagnosed!NothingCame,
       Diagnosed!Settled, Diagnosed!Return, Waiters
<1>4. CASE Diagnosed!PollFirst
  <2>1. waiter' \in Waiters
    BY <1>4 DEF Diagnosed!PollFirst, Waiters
  <2>2. QED
    BY <1>4, <2>1 DEF Diagnosed!PollFirst
<1>5. CASE Diagnosed!PollSettle
  <2>1. waiter' \in Waiters
    BY <1>5 DEF Diagnosed!PollSettle, Waiters
  <2>2. QED
    BY <1>5, <2>1 DEF Diagnosed!PollSettle
<1>6. CASE UNCHANGED Diagnosed!vars
  BY <1>6 DEF Diagnosed!vars
<1>7. QED
  BY <1>1, <1>2, <1>3, <1>4, <1>5, <1>6 DEF Diagnosed!Next

LEMMA NextSettleInv ==
  ASSUME SensibleTimes, SettleInv, [Diagnosed!Next]_Diagnosed!vars
  PROVE  SettleInv'
<1>1. WaitTyped /\ WaitTyped'
  BY NextTypeOK DEF SettleInv
<1>2. /\ now \in Nat /\ count \in Nat /\ PollSlow \in Nat /\ PollFast \in Nat /\ Settle \in Nat
      /\ waiter \in Waiters /\ waiter.prev \in Nat /\ waiter.poll \in Nat /\ waiter.stable \in Nat
      /\ waiter.at \in {"idle", "first", "settle", "done"}
      /\ bumps.first \in Nat \cup {Diagnosed!Never} /\ bumps.last \in Nat \cup {Diagnosed!Never}
      /\ Diagnosed!Never = 0 - 1
  BY <1>1 DEF WaitTyped, Waiters, SensibleTimes, Diagnosed!Never
<1> USE DEF SettleInv
<1>3. CASE Diagnosed!Set
  BY <1>1, <1>3 DEF Diagnosed!Set, First, Settling, Diagnosed!WaitSettled
<1>4. CASE Diagnosed!SetDone
  <2>1. CASE waiter.at \in {"idle", "done"}
    BY <1>1, <1>2, <1>4, <2>1 DEF Diagnosed!SetDone, First, Settling, Diagnosed!WaitSettled
  <2>2. CASE waiter.at \in {"first", "settle"}
    <3>1. /\ count' = count + 1 /\ bumps.last' = now /\ UNCHANGED <<now, data, waiter>>
          /\ bumps.first' = IF bumps.first = Diagnosed!Never THEN now ELSE bumps.first
      BY <1>4, <2>2 DEF Diagnosed!SetDone
    <3>2. First'
      BY <1>2, <2>2, <3>1 DEF First
    <3>3. Settling' /\ Diagnosed!WaitSettled'
      BY <1>2, <2>2, <3>1 DEF Settling, Diagnosed!WaitSettled
    <3>4. QED
      BY <1>1, <1>2, <2>2, <3>1, <3>2, <3>3
  <2>3. QED
    BY <1>2, <2>1, <2>2
<1>5. CASE Diagnosed!WaitForDiagnostics
  <2>1. /\ waiter.at' = "first" /\ waiter.prev' = count /\ waiter.poll' = now + PollSlow
        /\ waiter.why' = waiter.why /\ waiter.at = "idle" /\ UNCHANGED <<now, count, bumps>>
    BY <1>2, <1>5 DEF Diagnosed!WaitForDiagnostics, Waiters
  <2>2. QED
    BY <1>1, <1>2, <2>1 DEF First, Settling, Diagnosed!WaitSettled
<1>6. CASE \/ Diagnosed!CtxDone \/ Diagnosed!DeadlinePasses
          \/ Diagnosed!NothingCame \/ Diagnosed!Settled
  <2>1. PICK why : /\ Diagnosed!Return(why) /\ Diagnosed!Waiting
                   /\ why = "silence" => Diagnosed!NothingCame
                   /\ why = "settled" => Diagnosed!Settled
    BY <1>6 DEF Diagnosed!CtxDone, Diagnosed!DeadlinePasses, Diagnosed!NothingCame,
         Diagnosed!Settled, Diagnosed!Polls, Diagnosed!Waiting
  <2>2. waiter.at' = "done" /\ waiter.why' = why /\ UNCHANGED <<now, count, bumps>>
    BY <1>2, <2>1 DEF Diagnosed!Return, Waiters
  <2>3. why = "silence" /\ bumps.first # Diagnosed!Never => now - bumps.first <= PollSlow
    BY <1>2, <2>1 DEF Diagnosed!NothingCame, First
  <2>4. why = "settled" => bumps.last # Diagnosed!Never /\ now - bumps.last >= Settle
    BY <1>2, <2>1 DEF Diagnosed!Settled, Diagnosed!Polls, Diagnosed!Restarts, Settling
  <2>5. QED
    BY <1>1, <1>2, <2>2, <2>3, <2>4 DEF First, Settling, Diagnosed!WaitSettled
<1>7. CASE Diagnosed!PollFirst
  <2>1. waiter.at = "first" /\ now = waiter.poll /\ UNCHANGED <<now, count, bumps>>
    BY <1>7 DEF Diagnosed!PollFirst, Diagnosed!Polls
  <2>2. CASE count # waiter.prev
    <3>1. waiter.at' = "settle" /\ waiter.prev' = count /\ waiter.stable' = now
          /\ waiter.why' = waiter.why
      BY <1>2, <1>7, <2>2 DEF Diagnosed!PollFirst, Waiters
    <3>2. QED
      BY <1>1, <1>2, <2>1, <2>2, <3>1 DEF First, Settling, Diagnosed!WaitSettled
  <2>3. CASE count = waiter.prev
    <3>1. waiter.at' = "first" /\ waiter.prev' = waiter.prev /\ waiter.poll' = now + PollSlow
          /\ waiter.why' = waiter.why
      BY <1>2, <1>7, <2>1, <2>3 DEF Diagnosed!PollFirst, Waiters
    <3>2. QED
      BY <1>1, <1>2, <2>1, <2>3, <3>1 DEF First, Settling, Diagnosed!WaitSettled
  <2>4. QED
    BY <2>2, <2>3
<1>8. CASE Diagnosed!PollSettle
  <2>1. /\ waiter.at = "settle" /\ waiter.at' = "settle" /\ waiter.prev' = count
        /\ waiter.stable' = IF count # waiter.prev THEN now ELSE waiter.stable
        /\ waiter.why' = waiter.why /\ UNCHANGED <<now, count, bumps>>
    BY <1>2, <1>8 DEF Diagnosed!PollSettle, Diagnosed!Polls, Diagnosed!Restarts, Waiters
  <2>2. QED
    BY <1>1, <1>2, <2>1 DEF First, Settling, Diagnosed!WaitSettled
<1>9. CASE Diagnosed!Tick
  <2>1. now' = now + 1 /\ now < waiter.poll /\ UNCHANGED <<count, waiter, bumps>>
        /\ waiter.at \in {"first", "settle"}
    BY <1>9 DEF Diagnosed!Tick, Diagnosed!Waiting
  <2>2. QED
    BY <1>1, <1>2, <2>1 DEF First, Settling, Diagnosed!WaitSettled
<1>10. CASE UNCHANGED Diagnosed!vars
  BY <1>1, <1>10 DEF Diagnosed!vars, First, Settling, Diagnosed!WaitSettled
<1>11. QED
  BY <1>3, <1>4, <1>5, <1>6, <1>7, <1>8, <1>9, <1>10 DEF Diagnosed!Next

(* A wait that ends settled was quiet for the settling time, and one that    *)
(* ends because nothing came missed at most one slow interval.               *)
THEOREM WaitsSettle == Diagnosed!Spec => []WaitSettled
<1>1. Diagnosed!Init => SettleInv
  BY DEF Diagnosed!Init, SettleInv, WaitTyped, Waiters, Diagnosed!Never, First, Settling,
       Diagnosed!WaitSettled
<1>2. SettleInv /\ [Diagnosed!Next]_Diagnosed!vars => SettleInv'
  BY NextSettleInv, SensibleServices
<1>3. SettleInv => WaitSettled
  BY DEF SettleInv, WaitSettled
<1>4. QED
  BY <1>1, <1>2, <1>3, PTL DEF Diagnosed!Spec

------------------------------------------------------------------------------
(* The store of reports and graphs, and the log of scans.                    *)

(* The instance counts as this module does.                                  *)
LEMMA CountsAgree == \A S : History!Cardinality(S) = Cardinality(S)
  BY DEF History!Cardinality, Cardinality

(* The k-th line that parses: there is one for each number up to theirs,     *)
(* and each line is one of them.                                             *)
LEMMA LinesFinite ==
  ASSUME log \in Seq([of : Scans, whole : BOOLEAN])
  PROVE  /\ IsFiniteSet(History!Lines) /\ Cardinality(History!Lines) \in Nat
         /\ \A n : IsFiniteSet(History!UpTo(n)) /\ Cardinality(History!UpTo(n)) \in Nat
         /\ History!UpTo(0) = {} /\ History!UpTo(Len(log)) = History!Lines
         /\ History!Lines \subseteq 1..Len(log)
<1>1. DOMAIN log = 1..Len(log) /\ Len(log) \in Nat
  OBVIOUS
<1>2. IsFiniteSet(1..Len(log))
  BY <1>1, FS_Interval
<1>3. History!Lines \subseteq 1..Len(log)
  BY <1>1 DEF History!Lines
<1>4. \A n : History!UpTo(n) \subseteq History!Lines
  BY DEF History!UpTo
<1>5. History!UpTo(0) = {} /\ History!UpTo(Len(log)) = History!Lines
  <2>1. \A i \in History!Lines : i \in Nat /\ ~(i <= 0) /\ i <= Len(log)
    BY <1>1, <1>3
  <2>2. QED
    BY <2>1, Zenon DEF History!UpTo
<1>6. IsFiniteSet(History!Lines)
  BY <1>2, <1>3, FS_Subset
<1>7. QED
  BY <1>3, <1>4, <1>5, <1>6, FS_Subset, FS_CardinalityType

LEMMA LineOfNumber ==
  ASSUME log \in Seq([of : Scans, whole : BOOLEAN]), NEW k \in 1..Cardinality(History!Lines)
  PROVE  History!Line(k) \in History!Lines
<1> DEFINE howMany(n) == Cardinality(History!UpTo(n))
           enough == {n \in Nat : howMany(n) >= k}
<1>1. Len(log) \in enough
  BY LinesFinite
<1>2. PICK n \in enough : \A m \in enough : n <= m
  BY <1>1, LeastOf
<1>3. howMany(0) = 0 /\ n # 0
  BY <1>2, LinesFinite, FS_EmptySet
<1>4. n - 1 \in Nat /\ ~(howMany(n - 1) >= k)
  BY <1>2, <1>3
<1>5. n \in History!Lines
  <2>1. CASE n \notin History!Lines
    <3>1. History!UpTo(n) = History!UpTo(n - 1)
      BY <2>1, <1>4, LinesFinite DEF History!UpTo
    <3>2. QED
      BY <3>1, <1>2, <1>4
  <2>2. QED
    BY <2>1
<1>6. howMany(n) = howMany(n - 1) + 1
  <2>1. History!UpTo(n) = History!UpTo(n - 1) \cup {n} /\ n \notin History!UpTo(n - 1)
    <3>1. \A i \in History!Lines : i <= n <=> i <= n - 1 \/ i = n
      BY <1>4, LinesFinite
    <3>2. n <= n /\ ~(n <= n - 1)
      BY <1>4
    <3>3. QED
      BY <1>5, <3>1, <3>2, Zenon DEF History!UpTo
  <2>2. IsFiniteSet(History!UpTo(n - 1))
    BY LinesFinite
  <2>3. QED
    BY <2>1, <2>2, FS_AddElement, Zenon
<1>7. howMany(n) = k
  BY <1>2, <1>4, <1>6, LinesFinite
<1>8. \E m \in History!Lines : Cardinality(History!UpTo(m)) = k
  BY <1>5, <1>7
<1>9. QED
  <2>1. History!Line(k) = CHOOSE m \in History!Lines : howMany(m) = k
    BY CountsAgree DEF History!Line
  <2> HIDE DEF howMany
  <2>2. QED
    BY <2>1, <1>5, <1>7

LEMMA NumberOfLine ==
  ASSUME log \in Seq([of : Scans, whole : BOOLEAN]), NEW n \in History!Lines
  PROVE  \E k \in 1..Cardinality(History!Lines) : History!Line(k) = n
<1> DEFINE howMany(m) == Cardinality(History!UpTo(m))
<1>1. ASSUME NEW l \in History!Lines, NEW m \in History!Lines, l < m
      PROVE  howMany(l) < howMany(m)
  <2>1. l \in Nat /\ m \in Nat
    BY LinesFinite
  <2>2. History!UpTo(l) \subseteq History!UpTo(m) /\ m \in History!UpTo(m) \ History!UpTo(l)
    <3>1. \A i \in History!Lines : i <= l => i <= m
      BY <1>1, <2>1, LinesFinite
    <3>2. m <= m /\ ~(m <= l)
      BY <1>1, <2>1
    <3>3. QED
      BY <3>1, <3>2, Zenon DEF History!UpTo
  <2>3. QED
    BY <2>2, LinesFinite, FS_Subset
<1>2. \A m \in History!Lines : howMany(m) = howMany(n) => m = n
  <2>1. ASSUME NEW m \in History!Lines, howMany(m) = howMany(n), m # n
        PROVE  FALSE
    <3>1. m < n \/ n < m
      BY <2>1, LinesFinite
    <3>2. QED
      BY <3>1, <2>1, <1>1, LinesFinite
  <2>2. QED
    BY <2>1
<1>3. howMany(n) \in 1..Cardinality(History!Lines)
  <2>1. n \in History!UpTo(n) /\ History!UpTo(n) \subseteq History!Lines
    BY LinesFinite DEF History!UpTo
  <2>2. howMany(n) <= Cardinality(History!Lines)
    BY <2>1, LinesFinite, FS_Subset
  <2>3. howMany(n) # 0
    BY <2>1, LinesFinite, FS_EmptySet
  <2>4. QED
    BY <2>2, <2>3, LinesFinite
<1>4. History!Line(howMany(n)) = n
  <2> DEFINE m == History!Line(howMany(n))
  <2>1. m \in History!Lines /\ howMany(m) = howMany(n)
    <3>1. m = CHOOSE l \in History!Lines : howMany(l) = howMany(n)
      BY CountsAgree DEF History!Line
    <3> HIDE DEF howMany
    <3>2. QED
      BY <3>1
  <2>2. QED
    BY <2>1, <1>2
<1>5. QED
  BY <1>3, <1>4

ScanPlaces == {"idle", "temp", "stored", "recorded", "done", "failed"}
ScanRecords == [at : ScanPlaces, kind : History!Kinds, sha : Shas \cup {History!NoSha}]
Pieces == [of : Scans, whole : BOOLEAN]
Stores == [of : Scans, by : Versions]

HistoryTyped ==
    /\ version \in Versions
    /\ file \in [History!Paths -> Scans \cup {None}]
    /\ scan \in [Scans -> ScanRecords]
    /\ log \in Seq(Pieces)
    /\ puts \in Seq(Stores)

(* A call that has a commit; one that has stored is past its temporary file. *)
Dated(s) ==
    /\ scan[s].at \in {"temp", "stored", "recorded", "done"} => scan[s].sha \in Shas
    /\ scan[s].at = "stored" => scan[s].kind = "report"
IsPast(r) == r.at \notin {"idle", "temp"} /\ r.sha \in Shas
Past(s) == IsPast(scan[s])

(* What a file holds was put there by a call of its kind and commit.         *)
FilesAreOfTheirPaths ==
    \A p \in History!Paths : file[p] # None =>
      IsPast(scan[file[p]]) /\ p[1] = scan[file[p]].kind /\ p[2] = scan[file[p]].sha

(* Lines are of calls that stored a report; the torn ones of calls that did  *)
(* not record it.                                                            *)
OfReport(piece, r) ==
    /\ r.at \in {"recorded", "failed"} /\ r.sha \in Shas /\ r.kind = "report"
    /\ r.at = "recorded" <=> piece.whole

LinesAreOfReports == \A i \in DOMAIN log : OfReport(log[i], scan[log[i].of])

(* What has been stored since the last Invalidate is under its path, or what *)
(* was stored there later is.                                                *)
PathOf(r, v) == <<r.kind, r.sha, v>>

PutsAreKept ==
    \A i \in DOMAIN puts :
      /\ IsPast(scan[puts[i].of])
      /\ \E j \in DOMAIN puts :
           /\ i <= j /\ puts[j].by = puts[i].by
           /\ file[PathOf(scan[puts[i].of], puts[i].by)] = puts[j].of

HistoryInv ==
    /\ HistoryTyped /\ \A s \in Scans : Dated(s)
    /\ FilesAreOfTheirPaths /\ LinesAreOfReports /\ PutsAreKept

LEMMA InitHistory == History!Init => HistoryInv
  BY DEF History!Init, HistoryInv, HistoryTyped, History!Idle, ScanRecords, ScanPlaces,
       History!Kinds, Dated, FilesAreOfTheirPaths, LinesAreOfReports, PutsAreKept

LEMMA HistoryTypes ==
  ASSUME HistoryTyped
  PROVE  /\ DOMAIN log = 1..Len(log) /\ Len(log) \in Nat
         /\ \A i \in DOMAIN log : log[i] \in Pieces /\ log[i].of \in Scans
         /\ DOMAIN puts = 1..Len(puts) /\ Len(puts) \in Nat
         /\ \A i \in DOMAIN puts : puts[i] \in Stores /\ puts[i].of \in Scans
<1>1. /\ DOMAIN log = 1..Len(log) /\ Len(log) \in Nat
      /\ \A i \in 1..Len(log) : log[i] \in Pieces
  BY DEF HistoryTyped
<1>2. /\ DOMAIN puts = 1..Len(puts) /\ Len(puts) \in Nat
      /\ \A i \in 1..Len(puts) : puts[i] \in Stores
  BY DEF HistoryTyped
<1>3. QED
  BY <1>1, <1>2 DEF Pieces, Stores

(* A call that goes from a place to another, without a change of its commit, *)
(* touches nothing that is said of others, unless it was recorded.           *)
LEMMA ScansMove ==
  ASSUME HistoryInv, UNCHANGED <<file, puts>>, version' \in Versions,
         scan' \in [Scans -> ScanRecords],
         \A s \in Scans : Dated(s)',
         \A s \in Scans : Past(s) => Past(s)' /\ scan'[s].kind = scan[s].kind
                                     /\ scan'[s].sha = scan[s].sha,
         HistoryTyped', LinesAreOfReports'
  PROVE  HistoryInv'
<1>1. FilesAreOfTheirPaths'
  BY DEF HistoryInv, HistoryTyped, FilesAreOfTheirPaths, Past, IsPast
<1>2. PutsAreKept'
  <2> SUFFICES ASSUME NEW i \in DOMAIN puts
               PROVE  /\ IsPast(scan'[puts[i].of])
                      /\ \E j \in DOMAIN puts :
                           /\ i <= j /\ puts[j].by = puts[i].by
                           /\ file[PathOf(scan'[puts[i].of], puts[i].by)] = puts[j].of
    BY DEF PutsAreKept, PathOf, IsPast
  <2>1. puts[i].of \in Scans
    BY HistoryTypes DEF HistoryInv
  <2>2. QED
    BY <2>1 DEF HistoryInv, PutsAreKept, PathOf, Past
<1>3. QED
  BY <1>1, <1>2 DEF HistoryInv

(* A piece is added to the log by a call that has stored and moves on.       *)
LEMMA LineAdded ==
  ASSUME HistoryInv, NEW s \in Scans, NEW whole \in BOOLEAN, scan[s].at = "stored",
         scan[s].kind = "report", History!AddLine(s, whole),
         scan'[s] = [scan[s] EXCEPT !.at = IF whole THEN "recorded" ELSE "failed"],
         \A t \in Scans : /\ scan'[t].kind = scan[t].kind /\ scan'[t].sha = scan[t].sha
                          /\ t # s /\ scan[t].at \in {"recorded", "failed"}
                               => scan'[t].at = scan[t].at
  PROVE  log' \in Seq(Pieces) /\ LinesAreOfReports'
<1>1. log' = Append(log, [of |-> s, whole |-> whole]) /\ log' \in Seq(Pieces)
  BY DEF History!AddLine, HistoryInv, HistoryTyped, Pieces
<1>2. /\ Len(log) \in Nat /\ DOMAIN log = 1..Len(log)
      /\ DOMAIN log' = 1..(Len(log) + 1)
      /\ \A i \in 1..Len(log) : log'[i] = log[i]
      /\ log'[Len(log) + 1] = [of |-> s, whole |-> whole]
  BY <1>1, HistoryTypes DEF HistoryInv
<1>3. scan[s] \in ScanRecords /\ scan[s].sha \in Shas
  BY DEF HistoryInv, HistoryTyped, Dated
<1>4. ASSUME NEW i \in 1..Len(log)
      PROVE  OfReport(log[i], scan'[log[i].of])
  <2>1. log[i].of \in Scans /\ OfReport(log[i], scan[log[i].of])
    BY <1>2, HistoryTypes DEF HistoryInv, LinesAreOfReports
  <2>2. QED
    BY <2>1, <1>3 DEF OfReport, Past, ScanRecords
<1>5. OfReport([of |-> s, whole |-> whole], scan'[s])
  BY <1>3 DEF OfReport, ScanRecords
<1>6. LinesAreOfReports'
  <2>1. \A i \in 1..(Len(log) + 1) : OfReport(log'[i], scan'[log'[i].of])
    BY <1>2, <1>4, <1>5
  <2>2. QED
    BY <2>1, <1>2 DEF LinesAreOfReports
<1>7. QED
  BY <1>1, <1>6

(* The steps of one call.                                                    *)
LEMMA CreateTempKeeps ==
  ASSUME SensibleStore, HistoryInv, NEW s \in Scans, NEW kind \in History!Kinds,
         NEW sha \in Shas \cup {History!NoSha}, History!CreateTemp(s, kind, sha)
  PROVE  HistoryInv'
<1> DEFINE new == [at |-> IF sha = History!NoSha THEN "failed" ELSE "temp",
                   kind |-> kind, sha |-> sha]
<1>1. /\ scan[s].at = "idle" /\ scan' = [scan EXCEPT ![s] = new]
      /\ UNCHANGED <<version, file, log, puts>> /\ new \in ScanRecords
  BY DEF History!CreateTemp, ScanRecords, ScanPlaces
<1>2. HistoryTyped' /\ version' \in Versions
  BY <1>1 DEF HistoryInv, HistoryTyped
<1>3. \A t \in Scans : scan'[t] = IF t = s THEN new ELSE scan[t]
  BY <1>1 DEF HistoryInv, HistoryTyped
<1>4. \A t \in Scans : Dated(t)'
  BY <1>3 DEF HistoryInv, Dated, SensibleStore
<1>5. \A t \in Scans : Past(t) => t # s /\ scan'[t] = scan[t] /\ Past(t)'
  BY <1>1, <1>3 DEF Past, IsPast
<1>6. LinesAreOfReports'
  <2>1. \A i \in DOMAIN log : log[i].of \in Scans
    BY HistoryTypes DEF HistoryInv
  <2>2. QED
    BY <1>1, <1>5, <2>1 DEF HistoryInv, LinesAreOfReports, OfReport
<1>7. QED
  BY <1>1, <1>2, <1>4, <1>5, <1>6, ScansMove DEF HistoryInv, HistoryTyped

LEMMA EncodeFailsKeeps ==
  ASSUME HistoryInv, NEW s \in Scans, History!EncodeFails(s)
  PROVE  HistoryInv'
<1>1. /\ scan[s].at = "temp" /\ scan' = [scan EXCEPT ![s].at = "failed"]
      /\ UNCHANGED <<version, file, log, puts>>
  BY DEF History!EncodeFails, History!Goto
<1>2. HistoryTyped' /\ version' \in Versions
  BY <1>1 DEF HistoryInv, HistoryTyped, ScanRecords, ScanPlaces
<1>3. \A t \in Scans : scan'[t] = IF t = s THEN [scan[s] EXCEPT !.at = "failed"] ELSE scan[t]
  BY <1>1 DEF HistoryInv, HistoryTyped
<1>4. scan'[s].at = "failed"
  BY <1>3 DEF HistoryInv, HistoryTyped, ScanRecords
<1>5. \A t \in Scans : Dated(t)'
  BY <1>3, <1>4 DEF HistoryInv, Dated
<1>6. \A t \in Scans : Past(t) => t # s /\ scan'[t] = scan[t] /\ Past(t)'
  BY <1>1, <1>3 DEF Past, IsPast
<1>7. LinesAreOfReports'
  <2>1. \A i \in DOMAIN log : log[i].of \in Scans
    BY HistoryTypes DEF HistoryInv
  <2>2. QED
    BY <1>1, <1>6, <2>1 DEF HistoryInv, LinesAreOfReports, OfReport
<1>8. QED
  BY <1>1, <1>2, <1>5, <1>6, <1>7, ScansMove DEF HistoryInv, HistoryTyped

LEMMA RecordKeeps ==
  ASSUME HistoryInv, NEW s \in Scans, History!Record(s) \/ History!RecordFails(s)
  PROVE  HistoryInv'
<1>1. PICK whole \in BOOLEAN :
        /\ History!AddLine(s, whole)
        /\ scan' = [scan EXCEPT ![s].at = IF whole THEN "recorded" ELSE "failed"]
  BY DEF History!Record, History!RecordFails, History!Goto
<1>2. scan[s].at = "stored" /\ UNCHANGED <<version, file, puts>>
  BY DEF History!Record, History!RecordFails
<1>3. /\ \A t \in Scans : t # s => scan'[t] = scan[t]
      /\ scan'[s] = [scan[s] EXCEPT !.at = IF whole THEN "recorded" ELSE "failed"]
      /\ scan' \in [Scans -> ScanRecords]
  BY <1>1 DEF HistoryInv, HistoryTyped, ScanRecords, ScanPlaces
<1>4. /\ scan'[s].kind = scan[s].kind /\ scan'[s].sha = scan[s].sha
      /\ scan'[s].at \in {"recorded", "failed"} /\ scan[s].sha \in Shas
  BY <1>2, <1>3 DEF HistoryInv, HistoryTyped, ScanRecords, Dated
<1>5. scan[s].kind = "report"
  BY <1>2 DEF HistoryInv, Dated
<1>6. log' \in Seq(Pieces) /\ LinesAreOfReports'
  BY <1>1, <1>2, <1>3, <1>4, <1>5, LineAdded DEF Past, IsPast
<1>7. \A t \in Scans : Dated(t)' /\ (Past(t) => Past(t)')
  BY <1>3, <1>4 DEF HistoryInv, Dated, Past, IsPast
<1>8. QED
  BY <1>2, <1>3, <1>4, <1>6, <1>7, ScansMove DEF HistoryInv, HistoryTyped

(* The file under the path of a put is of a later one after a Rename to the  *)
(* same path, and as before after one to another.                            *)
LEMMA RenameKeeps ==
  ASSUME SensibleStore, HistoryInv, NEW s \in Scans, History!Rename(s)
  PROVE  HistoryInv'
<1> DEFINE path == PathOf(scan[s], version)
           put == [of |-> s, by |-> version]
           at == IF scan[s].kind = "report" THEN "stored" ELSE "done"
<1>1. /\ scan[s].at = "temp" /\ file' = [file EXCEPT ![path] = s]
      /\ puts' = Append(puts, put) /\ scan' = [scan EXCEPT ![s].at = at]
      /\ UNCHANGED <<version, log>>
  BY DEF History!Rename, History!Goto, History!Path, PathOf
<1>2. /\ scan[s] \in ScanRecords /\ scan[s].sha \in Shas /\ scan[s].kind \in History!Kinds
      /\ version \in Versions /\ path \in History!Paths /\ put \in Stores
  BY <1>1 DEF HistoryInv, HistoryTyped, Dated, ScanRecords, History!Paths, PathOf, Stores
<1>3. HistoryTyped'
  <2>1. scan' \in [Scans -> ScanRecords]
    BY <1>1 DEF HistoryInv, HistoryTyped, ScanRecords, ScanPlaces
  <2>2. file' \in [History!Paths -> Scans \cup {None}]
    BY <1>1, <1>2 DEF HistoryInv, HistoryTyped
  <2>3. puts' \in Seq(Stores)
    BY <1>1, <1>2 DEF HistoryInv, HistoryTyped
  <2>4. QED
    BY <1>1, <2>1, <2>2, <2>3 DEF HistoryInv, HistoryTyped
<1>4. /\ \A t \in Scans : t # s => scan'[t] = scan[t]
      /\ scan'[s] = [scan[s] EXCEPT !.at = at]
  BY <1>1 DEF HistoryInv, HistoryTyped
<1>5. /\ scan'[s].at = at /\ scan'[s].kind = scan[s].kind /\ scan'[s].sha = scan[s].sha
  BY <1>2, <1>4 DEF ScanRecords
<1>6. \A t \in Scans : Dated(t)'
  BY <1>2, <1>4, <1>5 DEF HistoryInv, Dated
<1>7. IsPast(scan'[s]) /\ \A t \in Scans : IsPast(scan[t]) => t # s /\ scan'[t] = scan[t]
  BY <1>1, <1>2, <1>4, <1>5 DEF IsPast
<1>8. FilesAreOfTheirPaths'
  <2> SUFFICES ASSUME NEW p \in History!Paths, file'[p] # None
               PROVE  /\ IsPast(scan'[file'[p]]) /\ p[1] = scan'[file'[p]].kind
                      /\ p[2] = scan'[file'[p]].sha
    BY DEF FilesAreOfTheirPaths, IsPast
  <2>1. CASE p = path
    BY <2>1, <1>1, <1>2, <1>5, <1>7 DEF PathOf, HistoryInv, HistoryTyped
  <2>2. CASE p # path
    <3>1. file'[p] = file[p] /\ file[p] \in Scans
      BY <2>2, <1>1 DEF HistoryInv, HistoryTyped
    <3>2. QED
      BY <3>1, <1>7 DEF HistoryInv, FilesAreOfTheirPaths
  <2>3. QED
    BY <2>1, <2>2
<1>9. LinesAreOfReports'
  <2>1. \A i \in DOMAIN log : log[i].of \in Scans
    BY HistoryTypes DEF HistoryInv
  <2>2. QED
    BY <1>1, <1>4, <2>1 DEF HistoryInv, LinesAreOfReports, OfReport
<1>10. PutsAreKept'
  <2>1. /\ DOMAIN puts = 1..Len(puts) /\ Len(puts) \in Nat
        /\ DOMAIN puts' = 1..(Len(puts) + 1)
        /\ \A i \in 1..Len(puts) : puts'[i] = puts[i]
        /\ puts'[Len(puts) + 1] = put
    BY <1>1, HistoryTypes DEF HistoryInv
  <2>2. file'[path] = s /\ \A p \in History!Paths : p # path => file'[p] = file[p]
    BY <1>1, <1>2 DEF HistoryInv, HistoryTyped
  <2> SUFFICES ASSUME NEW i \in 1..(Len(puts) + 1)
               PROVE  /\ IsPast(scan'[puts'[i].of])
                      /\ \E j \in 1..(Len(puts) + 1) :
                           /\ i <= j /\ puts'[j].by = puts'[i].by
                           /\ file'[PathOf(scan'[puts'[i].of], puts'[i].by)] = puts'[j].of
    BY <2>1 DEF PutsAreKept, IsPast, PathOf
  <2>3. CASE i = Len(puts) + 1
    BY <2>1, <2>2, <2>3, <1>5, <1>7 DEF PathOf
  <2>4. CASE i \in 1..Len(puts)
    <3> DEFINE t == puts[i].of
               v == puts[i].by
    <3>1. t \in Scans /\ v \in Versions /\ IsPast(scan[t])
      BY <2>1, <2>4, HistoryTypes DEF HistoryInv, PutsAreKept, Stores
    <3>2. puts'[i].of = t /\ puts'[i].by = v /\ scan'[t] = scan[t]
      BY <3>1, <1>7, <2>1, <2>4
    <3>3. PICK j \in 1..Len(puts) : i <= j /\ puts[j].by = v /\ file[PathOf(scan[t], v)] = puts[j].of
      BY <2>1, <2>4 DEF HistoryInv, PutsAreKept
    <3>4. scan[t].kind \in History!Kinds /\ PathOf(scan[t], v) \in History!Paths
      BY <3>1 DEF HistoryInv, HistoryTyped, ScanRecords, IsPast, PathOf, History!Paths
    <3>5. CASE PathOf(scan[t], v) = path
      <4>1. v = version
        BY <3>5 DEF PathOf
      <4>2. QED
        <5> DEFINE last == Len(puts) + 1
        <5>1. last \in 1..last /\ i <= last /\ puts'[last].by = v /\ puts'[last].of = s
          BY <4>1, <2>1, <2>4
        <5>2. file'[PathOf(scan'[puts'[i].of], puts'[i].by)] = s
          BY <3>2, <3>5, <2>2
        <5>3. QED
          BY <5>1, <5>2, <3>1, <3>2
    <3>6. CASE PathOf(scan[t], v) # path
      <4>1. file'[PathOf(scan'[puts'[i].of], puts'[i].by)] = puts[j].of
        BY <3>2, <3>3, <3>4, <3>6, <2>2
      <4>2. j \in 1..(Len(puts) + 1) /\ puts'[j] = puts[j] /\ puts'[i].by = v
        BY <3>2, <2>1
      <4>3. QED
        BY <4>1, <4>2, <3>1, <3>2, <3>3
    <3>7. QED
      BY <3>5, <3>6
  <2>5. QED
    BY <2>3, <2>4, <2>1
<1>11. QED
  BY <1>3, <1>6, <1>8, <1>9, <1>10 DEF HistoryInv

LEMMA InvalidateKeeps ==
  ASSUME SensibleStore, HistoryInv, History!Invalidate
  PROVE  HistoryInv'
<1>1. /\ file' = [p \in History!Paths |-> None] /\ puts' = <<>> /\ UNCHANGED <<version, log>>
      /\ \A t \in Scans : scan'[t] = IF scan[t].at = "temp"
                                     THEN [scan[t] EXCEPT !.at = "failed"] ELSE scan[t]
  BY DEF History!Invalidate
<1>2. \A t \in Scans : scan'[t] \in ScanRecords /\ Dated(t)'
  BY <1>1 DEF HistoryInv, HistoryTyped, ScanRecords, ScanPlaces, Dated
<1>3. HistoryTyped'
  <2>1. scan' \in [Scans -> ScanRecords]
    BY <1>2 DEF History!Invalidate
  <2>2. file' \in [History!Paths -> Scans \cup {None}] /\ puts' \in Seq(Stores)
    BY <1>1
  <2>3. QED
    BY <1>1, <2>1, <2>2 DEF HistoryInv, HistoryTyped
<1>4. LinesAreOfReports'
  <2>1. \A i \in DOMAIN log : log[i].of \in Scans
    BY HistoryTypes DEF HistoryInv
  <2>2. QED
    BY <1>1, <2>1 DEF HistoryInv, LinesAreOfReports, OfReport
<1>5. QED
  BY <1>1, <1>2, <1>3, <1>4 DEF HistoryInv, FilesAreOfTheirPaths, PutsAreKept

LEMMA RestartKeeps ==
  ASSUME SensibleStore, HistoryInv, NEW v \in Versions, History!Restart(v)
  PROVE  HistoryInv'
<1>1. /\ version' = v /\ UNCHANGED <<file, puts>>
      /\ scan' = [t \in Scans |-> IF scan[t].at \in {"temp", "stored"}
                                   THEN [scan[t] EXCEPT !.at = "failed"] ELSE scan[t]]
  BY DEF History!Restart
<1>2. \A t \in Scans : /\ scan[t] \in ScanRecords /\ scan'[t] \in ScanRecords /\ Dated(t)'
                       /\ scan'[t].kind = scan[t].kind /\ scan'[t].sha = scan[t].sha
                       /\ scan'[t].at = IF scan[t].at \in {"temp", "stored"}
                                        THEN "failed" ELSE scan[t].at
  BY <1>1 DEF HistoryInv, HistoryTyped, ScanRecords, ScanPlaces, Dated
<1>3. \A t \in Scans : Past(t) => Past(t)'
  BY <1>2 DEF Past, IsPast
<1>4. scan' \in [Scans -> ScanRecords]
  BY <1>1, <1>2
<1>5. log' \in Seq(Pieces) /\ LinesAreOfReports'
  <2>1. CASE UNCHANGED log
    <3>1. \A i \in DOMAIN log : log[i].of \in Scans
      BY HistoryTypes DEF HistoryInv
    <3>2. QED
      BY <2>1, <3>1, <1>2 DEF HistoryInv, HistoryTyped, LinesAreOfReports, OfReport
  <2>2. ASSUME NEW s \in Scans, scan[s].at = "stored", History!AddLine(s, FALSE)
        PROVE  log' \in Seq(Pieces) /\ LinesAreOfReports'
    <3>1. scan'[s] = [scan[s] EXCEPT !.at = "failed"] /\ scan[s].kind = "report"
      BY <2>2, <1>1 DEF HistoryInv, Dated
    <3>2. QED
      BY <2>2, <3>1, <1>2, LineAdded
  <2>3. QED
    BY <2>1, <2>2 DEF History!Restart
<1>6. QED
  BY <1>1, <1>2, <1>3, <1>4, <1>5, ScansMove DEF HistoryInv, HistoryTyped

(* Whatever processes stop, lines tear and versions change, each file holds  *)
(* what a call of its commit has stored, and each line is of a report.       *)
THEOREM HistoryInvariant == History!Spec => []HistoryInv
<1>1. ASSUME HistoryInv, [History!Next]_History!vars
      PROVE  HistoryInv'
  <2>1. CASE History!Next
    <3>1. ASSUME NEW s \in Scans, NEW kind \in History!Kinds,
                 NEW sha \in Shas \cup {History!NoSha}, History!CreateTemp(s, kind, sha)
          PROVE  HistoryInv'
      BY <1>1, <3>1, SensibleServices, CreateTempKeeps
    <3>2. ASSUME NEW s \in Scans, History!EncodeFails(s)
          PROVE  HistoryInv'
      BY <1>1, <3>2, EncodeFailsKeeps
    <3>3. ASSUME NEW s \in Scans, History!Rename(s)
          PROVE  HistoryInv'
      BY <1>1, <3>3, SensibleServices, RenameKeeps
    <3>4. ASSUME NEW s \in Scans, History!Record(s) \/ History!RecordFails(s)
          PROVE  HistoryInv'
      BY <1>1, <3>4, RecordKeeps
    <3>5. CASE History!Invalidate
      BY <1>1, <3>5, SensibleServices, InvalidateKeeps
    <3>6. ASSUME NEW v \in Versions, History!Restart(v)
          PROVE  HistoryInv'
      BY <1>1, <3>6, SensibleServices, RestartKeeps
    <3>7. QED
      BY <2>1, <3>1, <3>2, <3>3, <3>4, <3>5, <3>6 DEF History!Next
  <2>2. CASE UNCHANGED History!vars
    BY <1>1, <2>2 DEF History!vars, HistoryInv, HistoryTyped, Dated, FilesAreOfTheirPaths,
         LinesAreOfReports, OfReport, PutsAreKept, IsPast, PathOf
  <2>3. QED
    BY <1>1, <2>1, <2>2
<1>2. QED
  BY <1>1, InitHistory, PTL DEF History!Spec

(* The entries are the calls of the lines that parse.                        *)
LEMMA EntriesAreLines ==
  ASSUME HistoryInv
  PROVE  /\ Len(History!Entries) = Cardinality(History!Lines)
         /\ DOMAIN History!Entries = 1..Len(History!Entries)
         /\ Len(History!Entries) \in Nat
         /\ \A k \in DOMAIN History!Entries :
              /\ History!Line(k) \in History!Lines
              /\ History!Entries[k] = log[History!Line(k)].of
         /\ History!Entries \in Seq(Scans)
<1> DEFINE N == Cardinality(History!Lines)
<1>1. log \in Seq([of : Scans, whole : BOOLEAN])
  BY DEF HistoryInv, HistoryTyped, Pieces
<1>2. N \in Nat
  BY <1>1, LinesFinite
<1>3. History!Entries = [k \in 1..N |-> log[History!Line(k)].of]
  BY CountsAgree DEF History!Entries
<1>4. \A k \in 1..N : History!Line(k) \in History!Lines
  BY <1>1, LineOfNumber
<1>5. \A n \in History!Lines : log[n].of \in Scans
  BY HistoryTypes DEF HistoryInv, History!Lines
<1>6. History!Entries \in [1..N -> Scans]
  BY <1>3, <1>4, <1>5
<1> HIDE DEF N
<1>7. History!Entries \in Seq(Scans)
  <2>1. \E n \in Nat : History!Entries \in [1..n -> Scans]
    BY <1>2, <1>6
  <2>2. QED
    BY <2>1, SeqDef, Zenon
<1>8. Len(History!Entries) = N
  BY <1>2, <1>6, <1>7, LenProperties
<1>9. QED
  BY <1>2, <1>3, <1>4, <1>6, <1>7, <1>8 DEF N

LEMMA FromTheEnd == \A N, k \in Nat : k > 0 => -k < 0 /\ N + (-k) = N - k
  OBVIOUS

LEMMA NewestLines ==
  ASSUME HistoryInv, NEW k \in 1..Len(History!Entries)
  PROVE  /\ History!List(k)[1] = History!Entries[Len(History!Entries) - k + 1]
         /\ History!Position(-k) = Len(History!Entries) - k
         /\ History!Position(Len(History!Entries) - k) = Len(History!Entries) - k
         /\ Len(History!Entries) - k \in 0..(Len(History!Entries) - 1)
         /\ Len(History!Entries) - k + 1 \in DOMAIN History!Entries
<1> DEFINE N == Len(History!Entries)
<1>1. N \in Nat /\ DOMAIN History!Entries = 1..N /\ History!Entries \in Seq(Scans)
  BY EntriesAreLines
<1>2. k \in Nat /\ k > 0 /\ k <= N /\ -k < 0 /\ N + (-k) = N - k
  <2>1. k \in Nat /\ k > 0 /\ k <= N
    BY <1>1
  <2>2. QED
    BY <1>1, <2>1, FromTheEnd, Zenon
<1>3. CASE N > k
  <2>1. History!List(k) = SubSeq(History!Entries, N - k + 1, N)
    BY <1>1, <1>3 DEF History!List
  <2> HIDE DEF N
  <2>2. SubSeq(History!Entries, N - k + 1, N)[1] = History!Entries[N - k + 1]
    BY <1>1, <1>2, <1>3 DEF N
  <2>3. /\ History!Position(-k) = N - k /\ History!Position(N - k) = N - k
        /\ N - k \in 0..(N - 1) /\ N - k + 1 \in 1..N
    <3>1. ~(N - k < 0)
      BY <1>1, <1>2, <1>3
    <3>2. History!Position(-k) = N + (-k) /\ History!Position(N - k) = N - k
      BY <3>1, <1>2 DEF N, History!Position
    <3>3. QED
      BY <1>1, <1>2, <1>3, <3>1, <3>2
  <2>4. QED
    BY <1>1, <2>1, <2>2, <2>3 DEF N
<1>4. CASE N = k
  BY <1>1, <1>2, <1>4 DEF History!List, History!Position
<1>5. N > k \/ N = k
  <2> HIDE DEF N
  <2>1. QED
    BY <1>1, <1>2
<1>6. QED
  BY <1>3, <1>4, <1>5, Zenon

LEMMA FoundIsOfCommit ==
  ASSUME SensibleStore, HistoryInv, NEW n \in History!Lines
  PROVE  LET line == log[n].of
             of == History!Get("report", scan[line].sha)
         IN  /\ of # None => scan[of].sha = scan[line].sha /\ scan[of].kind = "report"
             /\ \A i \in History!Stored(line) :
                  of # None /\ \E j \in History!Stored(of) : i <= j
<1> DEFINE line == log[n].of
           of == History!Get("report", scan[line].sha)
           path == <<"report", scan[line].sha, version>>
<1>1. n \in DOMAIN log /\ log[n].whole
  BY DEF History!Lines, History!Parses
<1>2. line \in Scans /\ scan[line].sha \in Shas /\ scan[line].kind = "report"
  BY <1>1, HistoryTypes DEF HistoryInv, LinesAreOfReports, OfReport
<1>3. path \in History!Paths /\ of = file[path] /\ path = PathOf(scan[line], version)
  BY <1>2 DEF History!Get, History!Path, History!Paths, History!Kinds, PathOf,
     SensibleStore,
       HistoryInv, HistoryTyped
<1>4. path[1] = "report" /\ path[2] = scan[line].sha
  OBVIOUS
<1> HIDE DEF path, of, line
<1>5. of # None => scan[of].sha = scan[line].sha /\ scan[of].kind = "report"
  BY <1>3, <1>4 DEF HistoryInv, FilesAreOfTheirPaths
<1>6. ASSUME NEW i \in History!Stored(line)
      PROVE  of # None /\ \E j \in History!Stored(of) : i <= j
  <2>1. i \in DOMAIN puts /\ puts[i].of = line /\ puts[i].by = version
    BY DEF History!Stored
  <2>2. PICK j \in DOMAIN puts : i <= j /\ puts[j].by = version /\ of = puts[j].of
    BY <1>3, <2>1 DEF HistoryInv, PutsAreKept
  <2>3. puts[j] \in Stores /\ of \in Scans
    BY <2>2, HistoryTypes DEF HistoryInv
  <2>4. puts[j] = [of |-> of, by |-> version]
    BY <2>2, <2>3 DEF Stores
  <2>5. QED
    BY <2>2, <2>3, <2>4 DEF History!Stored, SensibleStore
<1>7. QED
  BY <1>5, <1>6 DEF line, of

(* List and GetReport: what was recorded is in the list unless the line      *)
(* before it was torn, and a line leads to a report of its commit, no older  *)
(* than the one that the running version stored for it.                      *)
THEOREM HistoryIsReadable == History!Spec => []HistoryReadable
<1>1. ASSUME HistoryInv
      PROVE  History!HistoryHasReports
  <2> SUFFICES ASSUME NEW k \in 1..Len(History!Entries)
               PROVE  LET got == History!GetReport(-k)
                          line == History!List(k)[1]
                      IN  /\ got.hit => /\ scan[got.of].sha = scan[line].sha
                                        /\ scan[got.of].kind = "report"
                          /\ \A i \in History!Stored(line) :
                               got.hit /\ \E j \in History!Stored(got.of) : i <= j
                          /\ History!GetReport(Len(History!Entries) - k) = got
    BY DEF History!HistoryHasReports
  <2> DEFINE m == Len(History!Entries) - k + 1
             line == log[History!Line(m)].of
             of == History!Get("report", scan[line].sha)
  <2>1. m \in DOMAIN History!Entries /\ Len(History!Entries) - k \in 0..(Len(History!Entries) - 1)
    BY <1>1, NewestLines
  <2>2. History!Line(m) \in History!Lines /\ History!Entries[m] = line
    BY <1>1, <2>1, EntriesAreLines
  <2>3. History!List(k)[1] = line
    BY <1>1, <2>2, NewestLines
  <2>4. /\ History!GetReport(-k) = [hit |-> of # None, of |-> of]
        /\ History!GetReport(Len(History!Entries) - k) = [hit |-> of # None, of |-> of]
    <3>1. /\ History!Position(-k) = Len(History!Entries) - k
          /\ History!Position(Len(History!Entries) - k) = Len(History!Entries) - k
      BY <1>1, NewestLines
    <3>2. QED
      BY <2>1, <2>2, <3>1 DEF History!GetReport
  <2>5. /\ of # None => scan[of].sha = scan[line].sha /\ scan[of].kind = "report"
        /\ \A i \in History!Stored(line) : of # None /\ \E j \in History!Stored(of) : i <= j
    BY <1>1, <2>2, SensibleServices, FoundIsOfCommit
  <2>6. History!GetReport(-k).hit = (of # None) /\ History!GetReport(-k).of = of
    BY <2>4
  <2> HIDE DEF line, of
  <2>7. QED
    BY <2>3, <2>4, <2>5, <2>6, Zenon
<1>2. ASSUME HistoryInv
      PROVE  History!RecordedListed
  <2> SUFFICES ASSUME NEW i \in DOMAIN log
               PROVE  /\ scan[log[i].of].at = "recorded" <=> log[i].whole
                      /\ log[i].whole =>
                           \/ \E k \in DOMAIN History!Entries : History!Entries[k] = log[i].of
                           \/ i > 1 /\ ~log[i - 1].whole
    BY DEF History!RecordedListed
  <2>1. scan[log[i].of].at = "recorded" <=> log[i].whole
    BY <1>2 DEF HistoryInv, LinesAreOfReports, OfReport
  <2>2. ASSUME log[i].whole, ~(i > 1 /\ ~log[i - 1].whole)
        PROVE  \E k \in DOMAIN History!Entries : History!Entries[k] = log[i].of
    <3>1. i \in History!Lines
      BY <1>2, <2>2, HistoryTypes DEF HistoryInv, History!Lines, History!Parses
    <3>2. PICK k \in 1..Cardinality(History!Lines) : History!Line(k) = i
      BY <1>2, <3>1, NumberOfLine DEF HistoryInv, HistoryTyped, Pieces
    <3>3. QED
      BY <1>2, <3>2, EntriesAreLines
  <2>3. QED
    BY <2>1, <2>2
<1>3. HistoryInv => HistoryReadable
  BY <1>1, <1>2 DEF HistoryReadable
<1>4. QED
  BY <1>3, HistoryInvariant, PTL

------------------------------------------------------------------------------
(* The edits of a rename.                                                    *)

(* A fact that each number passes on to the next holds of all.               *)
LEMMA Induction ==
  ASSUME NEW S, 0 \in S, \A n \in Nat : n \in S => n + 1 \in S
  PROVE  Nat \subseteq S
<1>1. SUFFICES ASSUME Nat \ S # {} PROVE FALSE
  OBVIOUS
<1>2. PICK n \in Nat \ S : \A m \in Nat \ S : n <= m
  BY <1>1, LeastOf
<1>3. n # 0 /\ n - 1 \in Nat /\ n - 1 \in S
  BY <1>2
<1>4. QED
  BY <1>2, <1>3

(* The instance counts as this module does.                                  *)
LEMMA EditsCounted == \A S : Edited!Cardinality(S) = Cardinality(S)
  BY DEF Edited!Cardinality, Cardinality

(* The offsets before one that are on its line, and the ends of lines.       *)
EndsTo(text, o) == {i \in 1..o : text[i] = Newline}
OnLine(text, o) == {p \in 0..(o - 1) : Edited!LineAt(text, p) = Edited!LineAt(text, o)}

LEMMA LinesAre ==
  ASSUME NEW text, NEW o \in Nat
  PROVE  /\ IsFiniteSet(EndsTo(text, o)) /\ Edited!LineAt(text, o) = Cardinality(EndsTo(text, o))
         /\ Edited!LineAt(text, o) \in Nat
         /\ IsFiniteSet(OnLine(text, o)) /\ Edited!CharAt(text, o) = Cardinality(OnLine(text, o))
         /\ Edited!CharAt(text, o) \in Nat
<1>1. IsFiniteSet(1..o)
  BY FS_Interval
<1>2. IsFiniteSet(0..(o - 1))
  <2> DEFINE p == o - 1
  <2>1. p \in Int
    OBVIOUS
  <2> HIDE DEF p
  <2>2. IsFiniteSet(0..p)
    BY <2>1, FS_Interval
  <2>3. QED
    BY <2>2 DEF p
<1>3. IsFiniteSet(EndsTo(text, o)) /\ IsFiniteSet(OnLine(text, o))
  <2>1. EndsTo(text, o) \in SUBSET (1..o) /\ OnLine(text, o) \in SUBSET (0..(o - 1))
    BY DEF EndsTo, OnLine
  <2>2. QED
    BY <1>1, <1>2, <2>1, FS_Subset
<1>4. /\ Edited!LineAt(text, o) = Cardinality(EndsTo(text, o))
      /\ Edited!CharAt(text, o) = Cardinality(OnLine(text, o))
  BY EditsCounted DEF EndsTo, OnLine, Edited!LineAt, Edited!CharAt
<1>5. QED
  BY <1>3, <1>4, FS_CardinalityType

(* Later offsets are on later lines, or farther to the right.                *)
LEMMA OffsetsApart ==
  ASSUME NEW text, NEW o \in Nat, NEW p \in Nat, o < p
  PROVE  /\ Edited!LineAt(text, o) <= Edited!LineAt(text, p)
         /\ Edited!LineAt(text, o) = Edited!LineAt(text, p) => Edited!CharAt(text, o) < Edited!CharAt(text, p)
<1>1. Edited!LineAt(text, o) <= Edited!LineAt(text, p)
  <2>1. EndsTo(text, o) \in SUBSET EndsTo(text, p)
    BY DEF EndsTo
  <2>2. QED
    BY <2>1, LinesAre, FS_Subset
<1>2. ASSUME Edited!LineAt(text, o) = Edited!LineAt(text, p)
      PROVE  Edited!CharAt(text, o) < Edited!CharAt(text, p)
  <2>1. OnLine(text, o) \in SUBSET OnLine(text, p)
    BY <1>2 DEF OnLine
  <2>2. o \in OnLine(text, p) /\ o \notin OnLine(text, o)
    BY <1>2 DEF OnLine
  <2>3. IsFiniteSet(OnLine(text, p))
    BY LinesAre
  <2>4. /\ Cardinality(OnLine(text, o)) <= Cardinality(OnLine(text, p))
        /\ Cardinality(OnLine(text, o)) = Cardinality(OnLine(text, p)) => OnLine(text, o) = OnLine(text, p)
    BY <2>1, <2>3, FS_Subset
  <2>5. Edited!CharAt(text, o) \in Nat /\ Edited!CharAt(text, p) \in Nat
    BY LinesAre
  <2>6. Edited!CharAt(text, o) <= Edited!CharAt(text, p) /\ Edited!CharAt(text, o) # Edited!CharAt(text, p)
    BY <2>2, <2>4, LinesAre
  <2>7. QED
    BY <2>5, <2>6
<1>3. QED
  BY <1>1, <1>2

(* A position is of one offset.                                              *)
LEMMA OffsetIs ==
  ASSUME NEW text, Len(text) \in Nat, NEW pos
  PROVE  /\ \A o \in 0..Len(text) :
              Edited!LineAt(text, o) = pos[1] /\ Edited!CharAt(text, o) = pos[2]
                => Edited!OffsetAt(text, pos) = o
         /\ Edited!OffsetAt(text, pos) # Edited!NoOffset =>
              /\ Edited!OffsetAt(text, pos) \in 0..Len(text)
              /\ Edited!LineAt(text, Edited!OffsetAt(text, pos)) = pos[1]
              /\ Edited!CharAt(text, Edited!OffsetAt(text, pos)) = pos[2]
         /\ \A o \in 0..Len(text) : o # Edited!NoOffset
<1> DEFINE fits == {o \in 0..Len(text) : Edited!LineAt(text, o) = pos[1] /\ Edited!CharAt(text, o) = pos[2]}
<1>1. Edited!OffsetAt(text, pos) = IF fits = {} THEN Edited!NoOffset ELSE CHOOSE o \in fits : TRUE
  BY DEF Edited!OffsetAt
<1>2. ASSUME NEW o \in fits, NEW p \in fits PROVE o = p
  <2>1. /\ o \in Nat /\ p \in Nat /\ Edited!LineAt(text, o) = Edited!LineAt(text, p)
        /\ Edited!CharAt(text, o) = Edited!CharAt(text, p)
    OBVIOUS
  <2>2. Edited!CharAt(text, o) \in Nat /\ Edited!CharAt(text, p) \in Nat
    BY <2>1, LinesAre
  <2>3. ~(o < p)
    BY <2>1, <2>2, OffsetsApart
  <2>4. ~(p < o)
    BY <2>1, <2>2, OffsetsApart
  <2>5. QED
    BY <2>1, <2>3, <2>4
<1>3. \A o : o \in fits
        <=> o \in 0..Len(text) /\ Edited!LineAt(text, o) = pos[1] /\ Edited!CharAt(text, o) = pos[2]
  OBVIOUS
<1>4. \A o \in 0..Len(text) : o # Edited!NoOffset
  BY DEF Edited!NoOffset
<1> HIDE DEF fits
<1>5. fits # {} => Edited!OffsetAt(text, pos) \in fits
  BY <1>1
<1>6. fits = {} => Edited!OffsetAt(text, pos) = Edited!NoOffset
  BY <1>1
<1>7. QED
  BY <1>2, <1>3, <1>4, <1>5, <1>6

(* An offset up to which two texts are the same is that of the same position *)
(* in both.                                                                  *)
LEMMA OffsetKept ==
  ASSUME NEW text, Len(text) \in Nat, NEW other, Len(other) \in Nat, NEW pos,
         NEW p \in Nat, p <= Len(text), p <= Len(other), \A i \in 1..p : text[i] = other[i],
         Edited!OffsetAt(text, pos) # Edited!NoOffset, Edited!OffsetAt(text, pos) <= p
  PROVE  Edited!OffsetAt(other, pos) = Edited!OffsetAt(text, pos)
<1> DEFINE o == Edited!OffsetAt(text, pos)
<1>1. o \in 0..Len(text) /\ Edited!LineAt(text, o) = pos[1] /\ Edited!CharAt(text, o) = pos[2] /\ o <= p
  BY OffsetIs
<1> HIDE DEF o
<1>2. ASSUME NEW q \in 0..p PROVE Edited!LineAt(other, q) = Edited!LineAt(text, q)
  <2>1. \A i \in 1..q : i \in 1..p
    OBVIOUS
  <2>2. EndsTo(other, q) = EndsTo(text, q)
    BY <2>1 DEF EndsTo
  <2>3. q \in Nat
    OBVIOUS
  <2>4. QED
    BY <2>2, <2>3, LinesAre
<1>3. Edited!CharAt(other, o) = Edited!CharAt(text, o)
  <2>1. o \in 0..p /\ \A q \in 0..(o - 1) : q \in 0..p
    BY <1>1
  <2>2. OnLine(other, o) = OnLine(text, o)
    BY <1>2, <2>1 DEF OnLine
  <2>3. o \in Nat
    BY <1>1
  <2>4. QED
    BY <2>2, <2>3, LinesAre
<1>4. o \in 0..Len(other) /\ o \in 0..p
  BY <1>1
<1>5. Edited!LineAt(other, o) = pos[1] /\ Edited!CharAt(other, o) = pos[2]
  BY <1>1, <1>2, <1>3, <1>4
<1>6. Edited!OffsetAt(other, pos) = o
  BY <1>4, <1>5, OffsetIs
<1>7. QED
  BY <1>6 DEF o

(* Edits whose offsets are in order are in the order of their positions.     *)
LEMMA BelowIs ==
  ASSUME NEW text, Len(text) \in Nat, NEW e, NEW f,
         Edited!OffsetAt(text, e.from) # Edited!NoOffset, Edited!OffsetAt(text, f.from) # Edited!NoOffset,
         Edited!OffsetAt(text, e.from) < Edited!OffsetAt(text, f.from)
  PROVE  Edited!Below(f, e)
<1> DEFINE o == Edited!OffsetAt(text, e.from)
           p == Edited!OffsetAt(text, f.from)
<1>1. /\ o \in 0..Len(text) /\ Edited!LineAt(text, o) = e.from[1] /\ Edited!CharAt(text, o) = e.from[2]
      /\ p \in 0..Len(text) /\ Edited!LineAt(text, p) = f.from[1] /\ Edited!CharAt(text, p) = f.from[2]
      /\ o < p
  BY OffsetIs
<1> HIDE DEF o, p
<1>2. o \in Nat /\ p \in Nat
  BY <1>1
<1>3. /\ Edited!LineAt(text, o) \in Nat /\ Edited!LineAt(text, p) \in Nat
      /\ Edited!CharAt(text, o) \in Nat /\ Edited!CharAt(text, p) \in Nat
  BY <1>2, LinesAre
<1>4. /\ Edited!LineAt(text, o) <= Edited!LineAt(text, p)
      /\ Edited!LineAt(text, o) = Edited!LineAt(text, p) => Edited!CharAt(text, o) < Edited!CharAt(text, p)
  BY <1>1, <1>2, OffsetsApart
<1>5. QED
  BY <1>1, <1>3, <1>4 DEF Edited!Below

(* Functions with a beginning and each step to the next.                     *)
Stepped(n, D, x, step) == {f \in [0..n -> D] : f[0] = x /\ \A k \in 1..n : f[k] = step[k, f[k - 1]]}

(* There is one.                                                             *)
LEMMA Stepwise ==
  ASSUME NEW N \in Nat, NEW D, NEW x \in D, NEW step \in [(1..N) \X D -> D]
  PROVE  Stepped(N, D, x, step) # {}
<1> DEFINE S == {n \in Nat : n <= N => Stepped(n, D, x, step) # {}}
<1>1. 0 \in S
  <2>1. [k \in 0..0 |-> x] \in Stepped(0, D, x, step)
    BY DEF Stepped
  <2>2. QED
    BY <2>1
<1>2. ASSUME NEW n \in Nat, Stepped(n, D, x, step) # {}, n + 1 <= N
      PROVE  Stepped(n + 1, D, x, step) # {}
  <2>2. PICK f \in [0..n -> D] : f[0] = x /\ \A k \in 1..n : f[k] = step[k, f[k - 1]]
    BY <1>2 DEF Stepped
  <2> DEFINE m == n + 1
             y == step[m, f[n]]
             g == [k \in 0..m |-> IF k = m THEN y ELSE f[k]]
  <2>3. y \in D
    <3>1. m \in 1..N
      BY <1>2
    <3>2. n \in 0..n
      OBVIOUS
    <3>3. f[n] \in D
      BY <2>2, <3>2
    <3> HIDE DEF m
    <3>4. QED
      BY <3>1, <3>3
  <2>4. g \in [0..m -> D]
    <3> HIDE DEF y
    <3>1. \A k \in 0..m : k # m => k \in 0..n
      OBVIOUS
    <3>2. QED
      BY <2>2, <2>3, <3>1
  <2>5. g[0] = x
    <3>1. 0 \in 0..m /\ 0 # m
      OBVIOUS
    <3> HIDE DEF y, m
    <3>2. QED
      BY <2>2, <3>1
  <2>6. ASSUME NEW k \in 1..m PROVE g[k] = step[k, g[k - 1]]
    <3>1. CASE k = m
      <4>1. m \in 0..m /\ n \in 0..m /\ n # m /\ k - 1 = n
        BY <3>1
      <4>2. g[m] = y /\ g[n] = f[n]
        <5> HIDE DEF y, m
        <5>1. QED
          BY <4>1
      <4>3. QED
        BY <3>1, <4>1, <4>2
    <3>2. CASE k # m
      <4>1. k \in 0..m /\ k \in 1..n /\ k - 1 \in 0..m /\ k - 1 # m
        BY <3>2
      <4>2. g[k] = f[k] /\ g[k - 1] = f[k - 1]
        <5> HIDE DEF y, m
        <5>1. QED
          BY <3>2, <4>1
      <4>3. QED
        BY <2>2, <4>1, <4>2
    <3>3. QED
      BY <3>1, <3>2
  <2>7. g \in Stepped(m, D, x, step)
    <3> HIDE DEF g, m
    <3>1. QED
      BY <2>4, <2>5, <2>6 DEF Stepped
  <2>8. QED
    BY <2>7
<1>3. \A n \in Nat : n \in S => n + 1 \in S
  <2>1. ASSUME NEW n \in Nat, n \in S, n + 1 <= N PROVE Stepped(n + 1, D, x, step) # {}
    <3>1. n <= N
      BY <2>1
    <3>2. QED
      BY <1>2, <2>1, <3>1
  <2>2. QED
    BY <2>1
<1>4. Nat \subseteq S
  <2> HIDE DEF S
  <2>1. QED
    BY <1>1, <1>3, Induction
<1>5. N \in S /\ N <= N
  BY <1>4
<1>6. QED
  BY <1>5

(* What AtOnce makes of an offset, and how it goes on from each of them.     *)
Piece(text, S, i) == Edited!NewAt(text, S, i) \o Edited!KeptAt(text, S, i)

IsFrom(text, S, from) ==
  from = [i \in 0..(Len(text) + 1) |->
            IF i = Len(text) + 1 THEN <<>>
            ELSE Edited!NewAt(text, S, i) \o Edited!KeptAt(text, S, i) \o from[i + 1]]

FromOn(text, S) == CHOOSE from : IsFrom(text, S, from)

LEMMA AtOnceIs ==
  ASSUME NEW text, NEW S
  PROVE  Edited!AtOnce(text, S) = FromOn(text, S)[0]
BY DEF Edited!AtOnce, FromOn, IsFrom

TextsOf(S) == \A e \in S : e.text \in Seq(Chars)

StartOf(text, e) == Edited!OffsetAt(text, e.from)
EndOf(text, e) == Edited!OffsetAt(text, e.to)
Here(text, S, i) == {e \in S : StartOf(text, e) = i}

OneOf(S) == CHOOSE e \in S : TRUE

LEMMA NewIs ==
  ASSUME NEW text, NEW S, NEW i
  PROVE  Edited!NewAt(text, S, i)
           = IF Here(text, S, i) = {} THEN <<>> ELSE OneOf(Here(text, S, i)).text
BY DEF Edited!NewAt, Here, StartOf, OneOf

LEMMA KeptIs ==
  ASSUME NEW text, NEW S, NEW i
  PROVE  Edited!KeptAt(text, S, i)
           = IF i = Len(text) \/ \E e \in S : StartOf(text, e) <= i /\ i < EndOf(text, e)
             THEN <<>> ELSE <<text[i + 1]>>
BY DEF Edited!KeptAt, StartOf, EndOf

LEMMA PiecesAre ==
  ASSUME NEW text \in Seq(Chars), NEW S, TextsOf(S), NEW i \in 0..Len(text)
  PROVE  /\ Edited!NewAt(text, S, i) \in Seq(Chars)
         /\ Edited!KeptAt(text, S, i) \in Seq(Chars)
         /\ Piece(text, S, i) \in Seq(Chars)
<1>1. Here(text, S, i) # {} => OneOf(Here(text, S, i)) \in S
  BY DEF Here, OneOf
<1>2. Edited!NewAt(text, S, i) \in Seq(Chars)
  <2> DEFINE e == OneOf(Here(text, S, i))
  <2>1. Here(text, S, i) # {} => e \in S
    BY <1>1
  <2>2. Edited!NewAt(text, S, i) = IF Here(text, S, i) = {} THEN <<>> ELSE e.text
    BY NewIs
  <2> HIDE DEF e
  <2>3. <<>> \in Seq(Chars)
    OBVIOUS
  <2>4. QED
    BY <2>1, <2>2, <2>3 DEF TextsOf
<1>3. Edited!KeptAt(text, S, i) \in Seq(Chars)
  <2>1. i # Len(text) => i + 1 \in 1..Len(text)
    OBVIOUS
  <2>2. i # Len(text) => <<text[i + 1]>> \in Seq(Chars)
    BY <2>1
  <2>3. QED
    BY <2>2 DEF Edited!KeptAt
<1>4. QED
  BY <1>2, <1>3 DEF Piece

LEMMA FromOnIs ==
  ASSUME NEW text \in Seq(Chars), NEW S, TextsOf(S)
  PROVE  /\ FromOn(text, S)[Len(text) + 1] = <<>>
         /\ \A i \in 0..Len(text) :
              /\ FromOn(text, S)[i] = Piece(text, S, i) \o FromOn(text, S)[i + 1]
              /\ FromOn(text, S)[i] \in Seq(Chars)
         /\ FromOn(text, S)[Len(text) + 1] \in Seq(Chars)
<1> DEFINE N == Len(text) + 1
           D == Seq(Chars)
           step == [kd \in (1..N) \X D |-> Piece(text, S, N - kd[1]) \o kd[2]]
<1>1. N \in Nat /\ <<>> \in D /\ \A k \in 1..N : N - k \in 0..Len(text)
  OBVIOUS
<1>2. step \in [(1..N) \X D -> D]
  <2>1. ASSUME NEW kd \in (1..N) \X D PROVE Piece(text, S, N - kd[1]) \o kd[2] \in D
    <3>1. N - kd[1] \in 0..Len(text) /\ kd[2] \in D
      OBVIOUS
    <3>2. Piece(text, S, N - kd[1]) \in D
      BY <3>1, PiecesAre
    <3> HIDE DEF N
    <3>3. QED
      BY <3>1, <3>2
  <2>2. QED
    BY <2>1
<1>3. PICK f \in Stepped(N, D, <<>>, step) : TRUE
  <2> HIDE DEF N, D, step
  <2>1. Stepped(N, D, <<>>, step) # {}
    BY <1>1, <1>2, Stepwise
  <2>2. QED
    BY <2>1
<1>4. f \in [0..N -> D] /\ f[0] = <<>> /\ \A k \in 1..N : f[k] = step[k, f[k - 1]]
  BY <1>3 DEF Stepped
<1> DEFINE g == [i \in 0..N |-> f[N - i]]
<1>5. g \in [0..N -> D] /\ g[N] = <<>>
  <2>1. N - N = 0 /\ N \in 0..N /\ \A i \in 0..N : N - i \in 0..N
    BY <1>1
  <2> HIDE DEF N, D
  <2>2. QED
    BY <1>4, <2>1
<1>6. ASSUME NEW i \in 0..Len(text) PROVE g[i] = Piece(text, S, i) \o g[i + 1]
  <2>1. i \in 0..N /\ i + 1 \in 0..N /\ N - i \in 1..N /\ N - (i + 1) = (N - i) - 1
        /\ N - i - 1 \in 0..N /\ N - (N - i) = i
    OBVIOUS
  <2>2. g[i] = f[N - i] /\ g[i + 1] = f[(N - i) - 1] /\ f[(N - i) - 1] \in D
    BY <1>4, <2>1
  <2>3. f[N - i] = step[N - i, f[(N - i) - 1]]
    BY <1>4, <2>1
  <2> DEFINE k == N - i
             d == f[k - 1]
  <2>4. step[k, d] = Piece(text, S, N - k) \o d
    BY <2>1, <2>2
  <2>5. N - k = i
    BY <2>1
  <2> HIDE DEF g, step, N
  <2>6. QED
    BY <2>2, <2>3, <2>4, <2>5
<1>7. ASSUME NEW i \in 0..Len(text)
      PROVE  Piece(text, S, i) \o g[i + 1] = Edited!NewAt(text, S, i) \o Edited!KeptAt(text, S, i) \o g[i + 1]
  BY DEF Piece
<1>8. IsFrom(text, S, g)
  <2> DEFINE h == [i \in 0..(Len(text) + 1) |->
                     IF i = Len(text) + 1 THEN <<>>
                     ELSE Edited!NewAt(text, S, i) \o Edited!KeptAt(text, S, i) \o g[i + 1]]
  <2>1. ASSUME NEW i \in 0..N PROVE g[i] = h[i]
    <3> HIDE DEF g
    <3>1. CASE i = N
      BY <1>5, <3>1
    <3>2. CASE i # N
      <4>1. i \in 0..Len(text)
        BY <3>2
      <4>2. QED
        BY <1>6, <1>7, <3>2, <4>1
    <3>3. QED
      BY <3>1, <3>2
  <2>2. DOMAIN h = 0..N /\ DOMAIN g = 0..N
    OBVIOUS
  <2>3. g = h
    <3>1. h = [i \in 0..N |-> h[i]] /\ g = [i \in 0..N |-> g[i]]
      OBVIOUS
    <3> HIDE DEF g, h, N
    <3>2. QED
      BY <2>1, <3>1
  <2>4. QED
    BY <2>3 DEF IsFrom
<1>9. IsFrom(text, S, FromOn(text, S))
  BY <1>8 DEF FromOn
<1> DEFINE from == FromOn(text, S)
<1>10. /\ from[Len(text) + 1] = <<>>
       /\ \A i \in 0..Len(text) : from[i] = Piece(text, S, i) \o from[i + 1]
  <2> HIDE DEF from
  <2>1. IsFrom(text, S, from)
    BY <1>9 DEF from
  <2>2. \A i \in 0..N : from[i] = IF i = N THEN <<>> ELSE Piece(text, S, i) \o from[i + 1]
    BY <2>1 DEF IsFrom, Piece
  <2>3. N \in 0..N /\ \A i \in 0..Len(text) : i \in 0..N /\ i # N
    OBVIOUS
  <2>4. from[N] = <<>>
    BY <2>2, <2>3
  <2>5. QED
    BY <2>2, <2>3, <2>4
<1>11. ASSUME NEW k \in Nat, k <= N PROVE from[N - k] \in D
  <2> DEFINE Q == {n \in Nat : n <= N => from[N - n] \in D}
  <2>1. 0 \in Q
    <3>1. N - 0 = N
      OBVIOUS
    <3>2. from[N] = <<>>
      BY <1>10
    <3> HIDE DEF from, N
    <3>3. QED
      BY <1>1, <3>1, <3>2
  <2>2. ASSUME NEW n \in Nat, n \in Q PROVE n + 1 \in Q
    <3>1. SUFFICES ASSUME n + 1 <= N PROVE from[N - (n + 1)] \in D
      OBVIOUS
    <3> DEFINE i == N - (n + 1)
    <3>2. i \in 0..Len(text) /\ i + 1 = N - n /\ n <= N
      BY <3>1
    <3>3. from[N - n] \in D
      BY <2>2, <3>2
    <3> HIDE DEF from, i, N
    <3>4. Piece(text, S, i) \in D
      BY <3>2, PiecesAre
    <3>5. from[i] = Piece(text, S, i) \o from[i + 1]
      BY <1>10, <3>2
    <3>6. QED
      BY <3>2, <3>3, <3>4, <3>5 DEF i
  <2>3. Nat \subseteq Q
    <3> HIDE DEF Q
    <3>1. QED
      BY <2>1, <2>2, Induction
  <2>4. QED
    BY <1>11, <2>3
<1>12. ASSUME NEW i \in 0..Len(text) PROVE from[i] \in D
  <2>1. N - i \in Nat /\ N - i <= N /\ N - (N - i) = i
    OBVIOUS
  <2> HIDE DEF from, N
  <2>2. QED
    BY <1>11, <2>1
<1>13. QED
  BY <1>10, <1>12

(* Where no edit has begun, a text goes on as it is.                         *)
LEMMA KeptBefore ==
  ASSUME NEW text \in Seq(Chars), NEW S, TextsOf(S), NEW t \in 0..Len(text),
         \A e \in S : StartOf(text, e) \in Int /\ t <= StartOf(text, e)
  PROVE  FromOn(text, S)[0] = SubSeq(text, 1, t) \o FromOn(text, S)[t]
<1> DEFINE from == FromOn(text, S)
           Same(i) == from[i] = SubSeq(text, i + 1, t) \o from[t]
           Q == {n \in Nat : n <= t => Same(t - n)}
<1>0. Len(text) \in Nat /\ t \in Nat /\ t <= Len(text)
  OBVIOUS
<1>1. \A i \in 0..Len(text) : from[i] = Piece(text, S, i) \o from[i + 1] /\ from[i] \in Seq(Chars)
  BY FromOnIs
<1> HIDE DEF from
<1>2. ASSUME NEW i \in 0..Len(text), i < t PROVE Piece(text, S, i) = <<text[i + 1]>>
  <2>1. Here(text, S, i) = {}
    BY <1>2 DEF Here
  <2>2. ~(\E e \in S : StartOf(text, e) <= i /\ i < EndOf(text, e))
    BY <1>2
  <2>3. i # Len(text)
    BY <1>0, <1>2
  <2>4. Edited!NewAt(text, S, i) = <<>> /\ Edited!KeptAt(text, S, i) = <<text[i + 1]>>
    BY <2>1, <2>2, <2>3, NewIs, KeptIs
  <2>5. i + 1 \in 1..Len(text)
    BY <1>2
  <2>6. <<text[i + 1]>> \in Seq(Chars)
    BY <2>5
  <2>7. QED
    BY <2>4, <2>6, ConcatEmptySeq DEF Piece
<1>3. 0 \in Q
  <2>1. t - 0 = t /\ t + 1 \in Int /\ t < t + 1
    OBVIOUS
  <2>2. SubSeq(text, t + 1, t) = <<>>
    BY <2>1, SubSeqEmpty
  <2>3. from[t] = <<>> \o from[t]
    BY <1>1, ConcatEmptySeq
  <2>4. Same(t)
    BY <2>2, <2>3
  <2> HIDE DEF Same
  <2>5. QED
    BY <2>1, <2>4
<1>4. ASSUME NEW n \in Nat, n <= t => Same(t - n), n + 1 <= t
      PROVE  Same(t - (n + 1))
  <2>1. n + 1 <= t
    BY <1>4
  <2> DEFINE i == t - (n + 1)
             m == i + 1
  <2>2. /\ i \in 0..Len(text) /\ i < t /\ i + 1 = m /\ m \in 1..Len(text) /\ t \in m..Len(text)
        /\ t - n = m /\ n <= t /\ i = t - (n + 1)
    BY <1>0, <2>1
  <2> DEFINE rest == SubSeq(text, m + 1, t)
  <2>3. from[m] = rest \o from[t]
    <3>1. Same(t - n)
      BY <1>4, <2>2
    <3>2. QED
      BY <2>2, <3>1
  <2> HIDE DEF i, m
  <2>4. from[i] = <<text[m]>> \o from[m]
    BY <1>1, <1>2, <2>2
  <2>5. SubSeq(text, m, t) = <<text[m]>> \o rest
    BY <2>2, SubSeqRecursiveFirst
  <2>6. <<text[m]>> \in Seq(Chars) /\ from[t] \in Seq(Chars)
    BY <1>1, <2>2
  <2>7. rest \in Seq(Chars)
    <3>1. m + 1 \in Int /\ t \in Int /\ \A j \in (m + 1)..t : j \in 1..Len(text)
      BY <2>2, <1>0
    <3>2. \A j \in (m + 1)..t : text[j] \in Chars
      BY <3>1, ElementOfSeq
    <3>3. QED
      BY <3>1, <3>2, SubSeqProperties
  <2> HIDE DEF rest
  <2> DEFINE c == <<text[m]>>
             r == from[t]
  <2>8. (c \o rest) \o r = c \o (rest \o r)
    <3>1. c \in Seq(Chars) /\ r \in Seq(Chars)
      BY <2>6
    <3> HIDE DEF c, r
    <3>2. QED
      BY <2>7, <3>1, ConcatAssociative
  <2>9. from[i] = SubSeq(text, i + 1, t) \o from[t]
    BY <2>2, <2>3, <2>4, <2>5, <2>8
  <2>10. QED
    BY <2>2, <2>9
<1>5. Nat \subseteq Q
  <2> HIDE DEF Same
  <2>1. \A n \in Nat : n \in Q => n + 1 \in Q
    BY <1>4
  <2> HIDE DEF Q
  <2>2. QED
    BY <1>3, <2>1, Induction
<1>6. Same(0)
  <2> HIDE DEF Same
  <2>1. t \in Nat /\ t <= t /\ t - t = 0
    BY <1>0
  <2>2. t \in Q
    BY <1>5, <2>1
  <2>3. QED
    BY <2>1, <2>2
<1>7. from[0] = SubSeq(text, 1, t) \o from[t]
  <2>1. 0 + 1 = 1
    OBVIOUS
  <2>2. QED
    BY <1>6, <2>1
<1>8. QED
  BY <1>7 DEF from

LEMMA NothingAtOnce ==
  ASSUME NEW text \in Seq(Chars)
  PROVE  Edited!AtOnce(text, {}) = text
<1> DEFINE t == Len(text)
           S == {}
<1>1. TextsOf(S) /\ \A e \in S : StartOf(text, e) \in Int /\ t <= StartOf(text, e)
  BY DEF TextsOf
<1>2. t \in 0..Len(text) /\ t + 1 = Len(text) + 1
  OBVIOUS
<1>3. FromOn(text, S)[0] = SubSeq(text, 1, t) \o FromOn(text, S)[t]
  <2> HIDE DEF t, S
  <2>1. QED
    BY <1>1, <1>2, KeptBefore
<1>4. FromOn(text, S)[t] = <<>>
  <2>1. Edited!NewAt(text, S, t) = <<>>
    BY NewIs DEF Here
  <2>2. Edited!KeptAt(text, S, t) = <<>>
    BY KeptIs
  <2>3. Piece(text, S, t) = <<>>
    BY <2>1, <2>2 DEF Piece
  <2> HIDE DEF t, S
  <2>4. FromOn(text, S)[t] = Piece(text, S, t) \o FromOn(text, S)[t + 1] /\ FromOn(text, S)[t + 1] = <<>>
    BY <1>1, <1>2, FromOnIs
  <2>5. QED
    BY <2>3, <2>4
<1>5. SubSeq(text, 1, t) = text
  BY SubSeqFull
<1>6. text \o <<>> = text
  BY ConcatEmptySeq
<1>7. FromOn(text, S)[0] = text
  BY <1>3, <1>4, <1>5, <1>6
<1>8. QED
  BY <1>7, AtOnceIs

(* An edit in front of all others, which neither overlaps nor begins with    *)
(* one.                                                                      *)
InFront(text, S, e) ==
  /\ TextsOf(S) /\ e.text \in Seq(Chars)
  /\ StartOf(text, e) # Edited!NoOffset /\ StartOf(text, e) <= EndOf(text, e)
  /\ \A d \in S : EndOf(text, e) <= StartOf(text, d) /\ StartOf(text, d) # StartOf(text, e)
  /\ \A d \in S : StartOf(text, d) # Edited!NoOffset

LEMMA OffsetsOf ==
  ASSUME NEW text \in Seq(Chars), NEW S, NEW e, InFront(text, S, e)
  PROVE  /\ StartOf(text, e) \in 0..Len(text) /\ EndOf(text, e) \in 0..Len(text)
         /\ Len(text) \in Nat
         /\ \A d \in S : StartOf(text, d) \in 0..Len(text)
         /\ TextsOf(S \cup {e})
<1>1. Len(text) \in Nat
  OBVIOUS
<1>2. \A d : StartOf(text, d) # Edited!NoOffset => StartOf(text, d) \in 0..Len(text)
  BY <1>1, OffsetIs DEF StartOf
<1>3. \A d : EndOf(text, d) # Edited!NoOffset => EndOf(text, d) \in 0..Len(text)
  BY <1>1, OffsetIs DEF EndOf
<1>4. StartOf(text, e) \in 0..Len(text)
  BY <1>2 DEF InFront
<1>5. EndOf(text, e) # Edited!NoOffset
  <2>1. ~(0 <= Edited!NoOffset)
    BY DEF Edited!NoOffset
  <2>2. \A m \in 0..Len(text) : ~(m <= Edited!NoOffset)
    BY DEF Edited!NoOffset
  <2>3. QED
    BY <1>4, <2>2 DEF InFront
<1>6. TextsOf(S \cup {e})
  BY DEF InFront, TextsOf
<1>7. QED
  BY <1>1, <1>2, <1>3, <1>4, <1>5, <1>6 DEF InFront

(* Behind it, all is as without it.                                          *)
LEMMA PieceBehind ==
  ASSUME NEW text \in Seq(Chars), NEW S, NEW e, InFront(text, S, e),
         NEW i \in 0..Len(text), EndOf(text, e) <= i, StartOf(text, e) # i
  PROVE  Piece(text, S \cup {e}, i) = Piece(text, S, i)
<1>1. Here(text, S \cup {e}, i) = Here(text, S, i)
  BY DEF Here
<1>2. Edited!NewAt(text, S \cup {e}, i) = Edited!NewAt(text, S, i)
  <2> DEFINE T == S \cup {e}
  <2>1. Here(text, T, i) = Here(text, S, i)
    BY <1>1
  <2> HIDE DEF T
  <2>2. Edited!NewAt(text, T, i) = Edited!NewAt(text, S, i)
    BY <2>1, NewIs
  <2>3. QED
    BY <2>2 DEF T
<1>3. ~(i < EndOf(text, e))
  <2>1. EndOf(text, e) \in 0..Len(text) /\ Len(text) \in Nat
    BY OffsetsOf
  <2>2. QED
    BY <2>1
<1>4. Edited!KeptAt(text, S \cup {e}, i) = Edited!KeptAt(text, S, i)
  BY <1>3, KeptIs
<1>5. QED
  BY <1>2, <1>4 DEF Piece

LEMMA FromBehind ==
  ASSUME NEW text \in Seq(Chars), NEW S, NEW e, InFront(text, S, e),
         NEW b \in 0..(Len(text) + 1), EndOf(text, e) <= b, StartOf(text, e) < b
  PROVE  FromOn(text, S \cup {e})[b] = FromOn(text, S)[b]
<1> DEFINE N == Len(text) + 1
           from == FromOn(text, S)
           more == FromOn(text, S \cup {e})
           Same(i) == more[i] = from[i]
           Q == {n \in Nat : n <= N - b => Same(N - n)}
<1>0. /\ N \in Nat /\ b \in 0..N /\ StartOf(text, e) \in 0..Len(text) /\ EndOf(text, e) \in 0..Len(text)
      /\ \A i \in 0..N : i # N => i \in 0..Len(text)
  <2>1. Len(text) \in Nat
    OBVIOUS
  <2>2. N \in Nat /\ b \in 0..N /\ \A i \in 0..N : i # N => i \in 0..Len(text)
    BY <2>1
  <2>3. StartOf(text, e) \in 0..Len(text) /\ EndOf(text, e) \in 0..Len(text)
    BY OffsetsOf
  <2>4. QED
    BY <2>2, <2>3
<1>1. /\ from[N] = <<>> /\ more[N] = <<>>
      /\ \A i \in 0..Len(text) : from[i] = Piece(text, S, i) \o from[i + 1]
      /\ \A i \in 0..Len(text) : more[i] = Piece(text, S \cup {e}, i) \o more[i + 1]
  <2>1. TextsOf(S) /\ TextsOf(S \cup {e})
    BY OffsetsOf DEF InFront
  <2> DEFINE T == S \cup {e}
  <2> HIDE DEF T
  <2>2. TextsOf(T)
    BY <2>1 DEF T
  <2>3. /\ FromOn(text, T)[N] = <<>>
        /\ \A i \in 0..Len(text) : FromOn(text, T)[i] = Piece(text, T, i) \o FromOn(text, T)[i + 1]
    BY <2>2, FromOnIs
  <2>4. /\ FromOn(text, S)[N] = <<>>
        /\ \A i \in 0..Len(text) : FromOn(text, S)[i] = Piece(text, S, i) \o FromOn(text, S)[i + 1]
    BY <2>1, FromOnIs
  <2>5. QED
    BY <2>3, <2>4 DEF T
<1> HIDE DEF from, more, N
<1>2. 0 \in Q
  <2>1. Same(N)
    BY <1>1
  <2> HIDE DEF Same
  <2>2. N - 0 = N
    BY <1>0
  <2>3. QED
    BY <2>1, <2>2
<1>3. ASSUME NEW n \in Nat, n <= N - b => Same(N - n), n + 1 <= N - b
      PROVE  Same(N - (n + 1))
  <2> DEFINE i == N - (n + 1)
  <2>1. i \in 0..N /\ i # N /\ i + 1 = N - n /\ n <= N - b /\ b <= i
    BY <1>0, <1>3
  <2> HIDE DEF i
  <2>2. i \in 0..Len(text) /\ EndOf(text, e) <= i /\ StartOf(text, e) # i
    BY <1>0, <2>1
  <2>3. Piece(text, S \cup {e}, i) = Piece(text, S, i)
    BY <2>2, PieceBehind
  <2>4. more[i + 1] = from[i + 1]
    <3>1. Same(N - n)
      BY <1>3, <2>1
    <3>2. QED
      BY <2>1, <3>1
  <2>5. Same(i)
    BY <1>1, <2>2, <2>3, <2>4
  <2> HIDE DEF Same
  <2>6. QED
    BY <2>5 DEF i
<1>4. Nat \subseteq Q
  <2> HIDE DEF Same
  <2>1. \A n \in Nat : n \in Q => n + 1 \in Q
    BY <1>3
  <2> HIDE DEF Q
  <2>2. QED
    BY <1>2, <2>1, Induction
<1>5. Same(b)
  <2> HIDE DEF Same
  <2>1. N - b \in Nat /\ N - b <= N - b /\ N - (N - b) = b
    BY <1>0
  <2>2. N - b \in Q
    BY <1>4, <2>1
  <2>3. QED
    BY <2>1, <2>2
<1>6. QED
  BY <1>5 DEF from, more

(* Its text stands where it begins, in place of what it covers.              *)
LEMMA FromStart ==
  ASSUME NEW text \in Seq(Chars), NEW S, NEW e, InFront(text, S, e)
  PROVE  FromOn(text, S \cup {e})[StartOf(text, e)] = e.text \o FromOn(text, S)[EndOf(text, e)]
<1> DEFINE s == StartOf(text, e)
           t == EndOf(text, e)
           T == S \cup {e}
<1>1. /\ s \in 0..Len(text) /\ t \in 0..Len(text) /\ Len(text) \in Nat /\ s <= t
      /\ \A d \in S : StartOf(text, d) \in 0..Len(text) /\ t <= StartOf(text, d) /\ StartOf(text, d) # s
      /\ TextsOf(S) /\ TextsOf(T) /\ e.text \in Seq(Chars)
  BY OffsetsOf DEF InFront
<1>2. Here(text, T, s) = {e} /\ Here(text, S, s) = {}
  BY <1>1 DEF Here
<1>3. Edited!NewAt(text, T, s) = e.text /\ Edited!NewAt(text, S, s) = <<>>
  <2>1. OneOf({e}) = e
    BY DEF OneOf
  <2>2. QED
    BY <1>2, <2>1, NewIs
<1>4. /\ \A i \in 0..Len(text) : FromOn(text, T)[i] = Piece(text, T, i) \o FromOn(text, T)[i + 1]
      /\ \A i \in 0..Len(text) : FromOn(text, T)[i] \in Seq(Chars)
      /\ FromOn(text, T)[Len(text) + 1] \in Seq(Chars)
  <2> HIDE DEF T
  <2>1. QED
    BY <1>1, FromOnIs
<1>5. /\ \A i \in 0..Len(text) : FromOn(text, S)[i] = Piece(text, S, i) \o FromOn(text, S)[i + 1]
      /\ \A i \in 0..Len(text) : FromOn(text, S)[i] \in Seq(Chars)
      /\ FromOn(text, S)[Len(text) + 1] \in Seq(Chars)
  BY <1>1, FromOnIs
<1>6. CASE s = t
  <2>1. Edited!KeptAt(text, T, s) = Edited!KeptAt(text, S, s)
    <3>1. ~(s < EndOf(text, e))
      BY <1>1, <1>6
    <3>2. QED
      BY <3>1, KeptIs
  <2> DEFINE b == s + 1
             kept == Edited!KeptAt(text, S, s)
             from == FromOn(text, S)
             more == FromOn(text, T)
  <2>2. b \in 0..(Len(text) + 1) /\ t <= b /\ s < b
    BY <1>1, <1>6
  <2>3. more[b] = from[b]
    <3> HIDE DEF b
    <3>1. QED
      BY <2>2, FromBehind
  <2>4. kept \in Seq(Chars)
    BY <1>1, PiecesAre
  <2>5. from[b] \in Seq(Chars)
    BY <1>1, <1>5
  <2>6. Piece(text, T, s) = e.text \o kept
    BY <1>3, <2>1 DEF Piece
  <2>7. Piece(text, S, s) = kept
    <3>1. Piece(text, S, s) = <<>> \o kept
      BY <1>3 DEF Piece
    <3> HIDE DEF kept
    <3>2. QED
      BY <2>4, <3>1, ConcatEmptySeq
  <2>8. more[s] = (e.text \o kept) \o from[b]
    <3> HIDE DEF kept, T, s
    <3>1. QED
      BY <1>1, <1>4, <2>3, <2>6
  <2>9. from[s] = kept \o from[b]
    <3> HIDE DEF kept, from, s
    <3>1. QED
      BY <1>1, <1>5, <2>7 DEF from
  <2>10. (e.text \o kept) \o from[b] = e.text \o (kept \o from[b])
    <3> DEFINE r == from[b]
               x == e.text
    <3>1. r \in Seq(Chars) /\ x \in Seq(Chars)
      BY <1>1, <2>5
    <3> HIDE DEF r, kept, x
    <3>2. (x \o kept) \o r = x \o (kept \o r)
      BY <2>4, <3>1, ConcatAssociative
    <3>3. QED
      BY <3>2 DEF r, x
  <2>11. QED
    BY <1>6, <2>8, <2>9, <2>10
<1>7. CASE s < t
  <2> DEFINE from == FromOn(text, S)
             more == FromOn(text, T)
             Same(i) == more[i] = from[t]
             Q == {n \in Nat : n <= t - (s + 1) => Same(t - n)}
  <2>1. more[t] = from[t]
    <3>1. t \in 0..(Len(text) + 1) /\ t <= t
      BY <1>1
    <3> HIDE DEF t
    <3>2. FromOn(text, S \cup {e})[t] = FromOn(text, S)[t]
      BY <1>7, <3>1, FromBehind DEF t
    <3>3. QED
      BY <3>2
  <2>2. ASSUME NEW i \in 0..Len(text), s < i, i < t PROVE more[i] = more[i + 1]
    <3>1. Here(text, T, i) = {}
      BY <1>1, <2>2 DEF Here
    <3>2. Edited!NewAt(text, T, i) = <<>>
      BY <3>1, NewIs
    <3>3. Edited!KeptAt(text, T, i) = <<>>
      <4>1. e \in T /\ StartOf(text, e) <= i /\ i < EndOf(text, e)
        BY <1>1, <2>2
      <4> HIDE DEF T
      <4>2. QED
        BY <4>1, KeptIs
    <3>4. Piece(text, T, i) = <<>>
      BY <3>2, <3>3 DEF Piece
    <3>5. more[i + 1] \in Seq(Chars)
      <4>1. i + 1 \in 0..Len(text) \/ i + 1 = Len(text) + 1
        BY <1>1
      <4> HIDE DEF T
      <4>2. QED
        BY <1>4, <4>1
    <3>6. more[i] = <<>> \o more[i + 1]
      <4> HIDE DEF T
      <4>1. QED
        BY <1>4, <3>4
    <3> HIDE DEF more
    <3>7. QED
      BY <3>5, <3>6, ConcatEmptySeq
  <2> HIDE DEF more, from
  <2>3. 0 \in Q
    <3>1. t - 0 = t
      BY <1>1
    <3>2. Same(t)
      BY <2>1
    <3> HIDE DEF Same
    <3>3. QED
      BY <3>1, <3>2
  <2>4. ASSUME NEW n \in Nat, n <= t - (s + 1) => Same(t - n), n + 1 <= t - (s + 1)
        PROVE  Same(t - (n + 1))
    <3> DEFINE i == t - (n + 1)
    <3>1. i \in 0..Len(text) /\ s < i /\ i < t /\ i + 1 = t - n /\ n <= t - (s + 1)
      <4>1. s \in Nat /\ t \in Nat /\ t <= Len(text) /\ Len(text) \in Nat
        BY <1>1
      <4> HIDE DEF s, t, Same
      <4>2. QED
        BY <2>4, <4>1
    <3> HIDE DEF i
    <3>2. more[i] = more[i + 1]
      BY <2>2, <3>1
    <3>3. Same(t - n)
      BY <2>4, <3>1
    <3>4. Same(i)
      BY <3>1, <3>2, <3>3
    <3> HIDE DEF Same
    <3>5. QED
      BY <3>4 DEF i
  <2>5. Nat \subseteq Q
    <3> HIDE DEF Same
    <3>1. \A n \in Nat : n \in Q => n + 1 \in Q
      BY <2>4
    <3> HIDE DEF Q
    <3>2. QED
      BY <2>3, <3>1, Induction
  <2>6. Same(s + 1)
    <3> HIDE DEF Same
    <3>1. t - (s + 1) \in Nat /\ t - (s + 1) <= t - (s + 1) /\ t - (t - (s + 1)) = s + 1
      BY <1>1, <1>7
    <3>2. t - (s + 1) \in Q
      BY <2>5, <3>1
    <3>3. QED
      BY <3>1, <3>2
  <2>7. Edited!KeptAt(text, T, s) = <<>>
    <3>1. e \in T /\ StartOf(text, e) <= s /\ s < EndOf(text, e)
      BY <1>1, <1>7
    <3> HIDE DEF T
    <3>2. QED
      BY <3>1, KeptIs
  <2>8. Piece(text, T, s) = e.text
    <3> DEFINE x == e.text
    <3>1. Piece(text, T, s) = x \o <<>>
      BY <1>3, <2>7 DEF Piece
    <3>2. x \in Seq(Chars)
      BY <1>1
    <3> HIDE DEF x
    <3>3. Piece(text, T, s) = x
      BY <3>1, <3>2, ConcatEmptySeq
    <3>4. QED
      BY <3>3 DEF x
  <2>9. more[s] = e.text \o more[s + 1]
    <3> HIDE DEF T, s
    <3>1. QED
      BY <1>1, <1>4, <2>8 DEF more
  <2>10. QED
    BY <2>6, <2>9 DEF more, from
<1>8. s = t \/ s < t
  BY <1>1
<1>9. QED
  BY <1>6, <1>7, <1>8

(* To apply an edit in front of all that have been applied is to apply all   *)
(* of them at once.                                                          *)
LEMMA AppliedAtOnce ==
  ASSUME NEW text \in Seq(Chars), NEW S, NEW e, InFront(text, S, e), "error" \notin Chars
  PROVE  /\ Edited!ApplyEdit(Edited!AtOnce(text, S), e) = Edited!AtOnce(text, S \cup {e})
         /\ Edited!AtOnce(text, S \cup {e}) \in Seq(Chars)
<1> DEFINE s == StartOf(text, e)
           t == EndOf(text, e)
           T == S \cup {e}
           edited == Edited!AtOnce(text, S)
           front == SubSeq(text, 1, t)
           rest == FromOn(text, S)[t]
<1>1. /\ s \in 0..Len(text) /\ t \in 0..Len(text) /\ Len(text) \in Nat /\ s <= t
      /\ \A d \in S : StartOf(text, d) \in 0..Len(text) /\ t <= StartOf(text, d)
      /\ TextsOf(S) /\ TextsOf(T) /\ e.text \in Seq(Chars)
  BY OffsetsOf DEF InFront
<1>2. \A d \in S : StartOf(text, d) \in Int /\ t <= StartOf(text, d)
  BY <1>1
<1>3. \A d \in T : StartOf(text, d) \in Int /\ s <= StartOf(text, d)
  BY <1>1
<1>4. edited = front \o rest
  <2> HIDE DEF t
  <2>1. QED
    BY <1>1, <1>2, KeptBefore, AtOnceIs
<1>5. Edited!AtOnce(text, T) = SubSeq(text, 1, s) \o (e.text \o rest)
  <2>1. FromOn(text, T)[s] = e.text \o rest
    BY FromStart
  <2> HIDE DEF s, T, rest
  <2>2. FromOn(text, T)[0] = SubSeq(text, 1, s) \o FromOn(text, T)[s]
    BY <1>1, <1>3, KeptBefore
  <2>3. QED
    BY <2>1, <2>2, AtOnceIs
<1>6. \A m \in 0..Len(text) : /\ SubSeq(text, 1, m) \in Seq(Chars) /\ Len(SubSeq(text, 1, m)) = m
                              /\ \A i \in 1..m : SubSeq(text, 1, m)[i] = text[i]
  <2>1. SUFFICES ASSUME NEW m \in 0..Len(text)
                 PROVE  /\ SubSeq(text, 1, m) \in Seq(Chars) /\ Len(SubSeq(text, 1, m)) = m
                        /\ \A i \in 1..m : SubSeq(text, 1, m)[i] = text[i]
    OBVIOUS
  <2>2. m \in Int /\ 1 \in Int /\ \A i \in 1..m : i \in 1..Len(text)
    BY <1>1
  <2>3. \A i \in 1..m : text[i] \in Chars
    BY <2>2, ElementOfSeq
  <2> DEFINE one == 1
  <2>4. /\ SubSeq(text, one, m) \in Seq(Chars)
        /\ Len(SubSeq(text, one, m)) = IF one <= m THEN m - one + 1 ELSE 0
        /\ \A i \in 1..(m - one + 1) : SubSeq(text, one, m)[i] = text[one + i - 1]
    <3>1. one \in Int /\ \A i \in one..m : text[i] \in Chars
      BY <2>3
    <3> HIDE DEF one
    <3>2. QED
      BY <2>2, <3>1, SubSeqProperties
  <2>5. m - one + 1 = m /\ \A i \in 1..m : one + i - 1 = i
    BY <2>2
  <2>6. (IF one <= m THEN m - one + 1 ELSE 0) = m
    BY <2>2
  <2>7. QED
    BY <2>4, <2>5, <2>6
<1>7. rest \in Seq(Chars)
  <2> HIDE DEF t
  <2>1. QED
    BY <1>1, FromOnIs
<1> DEFINE x == e.text
           start == SubSeq(text, 1, s)
<1>8. /\ front \in Seq(Chars) /\ Len(front) = t /\ start \in Seq(Chars) /\ Len(start) = s /\ x \in Seq(Chars)
      /\ \A i \in 1..t : front[i] = text[i]
      /\ \A i \in 1..s : start[i] = text[i]
  BY <1>1, <1>6
<1>9. /\ edited \in Seq(Chars) /\ Len(edited) = t + Len(rest) /\ Len(rest) \in Nat
      /\ \A i \in 1..t : edited[i] = text[i]
      /\ \A i \in 1..Len(rest) : edited[t + i] = rest[i]
  <2> HIDE DEF front, rest, edited, t
  <2>1. Len(rest) \in Nat
    BY <1>7
  <2>2. /\ front \o rest \in Seq(Chars) /\ Len(front \o rest) = Len(front) + Len(rest)
        /\ \A i \in 1..(Len(front) + Len(rest)) :
             (front \o rest)[i] = IF i <= Len(front) THEN front[i] ELSE rest[i - Len(front)]
    BY <1>7, <1>8, ConcatProperties
  <2>3. \A i \in 1..(t + Len(rest)) : edited[i] = IF i <= t THEN front[i] ELSE rest[i - t]
    BY <1>4, <1>8, <2>2
  <2>4. \A i \in 1..t : i \in 1..(t + Len(rest)) /\ i <= t
    BY <1>1, <2>1
  <2>5. \A i \in 1..Len(rest) : t + i \in 1..(t + Len(rest)) /\ ~(t + i <= t) /\ (t + i) - t = i
    BY <1>1, <2>1
  <2>6. edited \in Seq(Chars) /\ Len(edited) = t + Len(rest)
    BY <1>4, <1>8, <2>2
  <2>7. \A i \in 1..t : edited[i] = text[i]
    BY <1>8, <2>3, <2>4
  <2>8. \A i \in 1..Len(rest) : edited[t + i] = rest[i]
    BY <2>3, <2>5
  <2>9. QED
    BY <2>1, <2>6, <2>7, <2>8
<1>10. Edited!OffsetAt(edited, e.from) = s /\ Edited!OffsetAt(edited, e.to) = t
  <2>1. t <= Len(text) /\ t <= Len(edited) /\ t \in Nat /\ s <= t /\ t <= t /\ Len(edited) \in Nat
    BY <1>1, <1>9
  <2>2. \A i \in 1..t : text[i] = edited[i]
    BY <1>9
  <2>3. s # Edited!NoOffset /\ t # Edited!NoOffset
    BY <1>1 DEF Edited!NoOffset
  <2> DEFINE a == e.from
             b == e.to
  <2>4. Edited!OffsetAt(text, a) = s /\ Edited!OffsetAt(text, b) = t
    BY DEF StartOf, EndOf
  <2> HIDE DEF edited, s, t, a, b
  <2>5. Edited!OffsetAt(edited, a) = s
    BY <1>1, <2>1, <2>2, <2>3, <2>4, OffsetKept
  <2>6. Edited!OffsetAt(edited, b) = t
    BY <1>1, <2>1, <2>2, <2>3, <2>4, OffsetKept
  <2>7. QED
    BY <2>5, <2>6 DEF a, b
<1>11. edited # Edited!Failed
  <2>1. "error" \notin Chars
    OBVIOUS
  <2>2. Edited!Failed \notin Seq(Chars)
    <3>1. 1 \in 1..Len(Edited!Failed) /\ Edited!Failed[1] = "error"
      BY DEF Edited!Failed
    <3>2. SUFFICES ASSUME Edited!Failed \in Seq(Chars) PROVE FALSE
      OBVIOUS
    <3>3. Edited!Failed[1] \in Chars
      BY <3>1, <3>2, ElementOfSeq
    <3>4. QED
      BY <2>1, <3>1, <3>3
  <2>3. QED
    BY <1>9, <2>2
<1>12. SubSeq(edited, 1, s) = start
  <2> DEFINE one == 1
             cut == SubSeq(edited, one, s)
  <2>0. s \in Int /\ s \in Nat /\ one \in Int /\ \A i \in one..s : i \in 1..Len(edited) /\ i \in 1..t
    BY <1>1, <1>9
  <2>1. \A i \in one..s : edited[i] \in Chars
    <3> HIDE DEF edited, one, s
    <3>1. QED
      BY <1>9, <2>0, ElementOfSeq
  <2>2. /\ cut \in Seq(Chars) /\ Len(cut) = IF one <= s THEN s - one + 1 ELSE 0
        /\ \A i \in 1..(s - one + 1) : cut[i] = edited[one + i - 1]
    <3> HIDE DEF one, s, edited
    <3>1. QED
      BY <2>0, <2>1, SubSeqProperties
  <2>3. Len(cut) = s
    <3> HIDE DEF cut, s, edited
    <3>1. QED
      BY <2>0, <2>2
  <2>4. \A i \in 1..s : cut[i] = start[i]
    <3>1. s - one + 1 = s /\ \A i \in 1..s : one + i - 1 = i /\ i \in 1..t
      BY <2>0
    <3> HIDE DEF cut, s, edited, start, one, t
    <3>2. QED
      BY <1>8, <1>9, <2>2, <3>1
  <2>5. cut = start
    <3> HIDE DEF cut, start, s, edited
    <3>1. QED
      BY <1>8, <2>2, <2>3, <2>4, SeqEqual
  <2>6. QED
    BY <2>5
<1>13. SubSeq(edited, t + 1, Len(edited)) = rest
  <2> DEFINE m == t + 1
             n == Len(edited)
             cut == SubSeq(edited, m, n)
  <2>0. m \in Int /\ n \in Int /\ \A i \in m..n : i \in 1..Len(edited)
    BY <1>1, <1>9
  <2>1. \A i \in m..n : edited[i] \in Chars
    <3> HIDE DEF edited, m, n
    <3>1. QED
      BY <1>9, <2>0, ElementOfSeq
  <2>2. /\ cut \in Seq(Chars) /\ Len(cut) = IF m <= n THEN n - m + 1 ELSE 0
        /\ \A i \in 1..(n - m + 1) : cut[i] = edited[m + i - 1]
    <3> HIDE DEF m, n, edited
    <3>1. QED
      BY <2>0, <2>1, SubSeqProperties
  <2>3. n - m + 1 = Len(rest) /\ (IF m <= n THEN n - m + 1 ELSE 0) = Len(rest)
        /\ \A i \in 1..Len(rest) : m + i - 1 = t + i
    <3> HIDE DEF rest, edited, t
    <3>1. QED
      BY <1>1, <1>9
  <2>4. \A i \in 1..Len(rest) : cut[i] = rest[i]
    <3> HIDE DEF cut, rest, edited, t, m, n
    <3>2. QED
      BY <1>9, <2>2, <2>3
  <2>5. Len(cut) = Len(rest)
    BY <2>2, <2>3
  <2>6. cut = rest
    <3> HIDE DEF cut, rest, edited
    <3>1. QED
      BY <1>7, <2>2, <2>4, <2>5, SeqEqual
  <2>7. QED
    BY <2>6
<1>14. ~(t < s) /\ s # Edited!NoOffset /\ t # Edited!NoOffset
  BY <1>1 DEF Edited!NoOffset
<1>15. Edited!ApplyEdit(edited, e) = start \o x \o rest
  <2> HIDE DEF edited, s, t, rest, start
  <2>1. QED
    BY <1>10, <1>11, <1>12, <1>13, <1>14 DEF Edited!ApplyEdit
<1>16. start \o x \o rest = start \o (x \o rest) /\ start \o (x \o rest) \in Seq(Chars)
  <2> HIDE DEF start, x, rest
  <2>0. start \in Seq(Chars) /\ x \in Seq(Chars)
    BY <1>8
  <2>1. (start \o x) \o rest = start \o (x \o rest)
    BY <1>7, <2>0, ConcatAssociative
  <2>2. x \o rest \in Seq(Chars)
    BY <1>7, <1>8
  <2>3. QED
    BY <1>8, <2>1, <2>2
<1>17. QED
  BY <1>5, <1>15, <1>16

(* The edits up to one, and the texts after each.                            *)
FirstEdits(sorted, k) == {sorted[i] : i \in 1..k}

IsAfter(text, sorted, after) ==
  after = [k \in 0..Len(sorted) |-> IF k = 0 THEN text ELSE Edited!ApplyEdit(after[k - 1], sorted[k])]

AfterEach(text, sorted) == CHOOSE after : IsAfter(text, sorted, after)

LEMMA InTurnIs ==
  ASSUME NEW text, NEW sorted
  PROVE  Edited!ApplyInTurn(text, sorted) = AfterEach(text, sorted)[Len(sorted)]
BY DEF Edited!ApplyInTurn, AfterEach, IsAfter

(* Edits each of which is in front of those before are applied as all at     *)
(* once.                                                                     *)
LEMMA InTurnAtOnce ==
  ASSUME NEW text \in Seq(Chars), NEW sorted, Len(sorted) \in Nat, "error" \notin Chars,
         \A k \in 1..Len(sorted) : InFront(text, FirstEdits(sorted, k - 1), sorted[k])
  PROVE  /\ Edited!ApplyInTurn(text, sorted) = Edited!AtOnce(text, FirstEdits(sorted, Len(sorted)))
         /\ Edited!ApplyInTurn(text, sorted) \in Seq(Chars)
<1> DEFINE n == Len(sorted)
           Now(k) == Edited!AtOnce(text, FirstEdits(sorted, k))
           f == [k \in 0..n |-> Now(k)]
           after == AfterEach(text, sorted)
<1>1. Now(0) = text
  <2>1. FirstEdits(sorted, 0) = {}
    BY DEF FirstEdits
  <2>2. QED
    BY <2>1, NothingAtOnce
<1>2. ASSUME NEW k \in 1..n
      PROVE  Now(k) = Edited!ApplyEdit(Now(k - 1), sorted[k]) /\ Now(k) \in Seq(Chars)
  <2> DEFINE S == FirstEdits(sorted, k - 1)
             e == sorted[k]
  <2>1. FirstEdits(sorted, k) = S \cup {e}
    <3>1. \A i : i \in 1..k <=> i \in 1..(k - 1) \/ i = k
      OBVIOUS
    <3>2. QED
      BY <3>1 DEF FirstEdits
  <2>2. InFront(text, S, e)
    OBVIOUS
  <2> HIDE DEF S, e
  <2>3. /\ Edited!ApplyEdit(Edited!AtOnce(text, S), e) = Edited!AtOnce(text, S \cup {e})
        /\ Edited!AtOnce(text, S \cup {e}) \in Seq(Chars)
    BY <2>2, AppliedAtOnce
  <2>4. QED
    BY <2>1, <2>3 DEF S, e
<1>3. n \in Nat
  OBVIOUS
<1> HIDE DEF Now, n
<1>4. IsAfter(text, sorted, f)
  <2> DEFINE g == [k \in 0..n |-> IF k = 0 THEN text ELSE Edited!ApplyEdit(f[k - 1], sorted[k])]
  <2>1. ASSUME NEW k \in 0..n PROVE f[k] = g[k]
    <3>1. CASE k = 0
      BY <1>1, <3>1
    <3>2. CASE k # 0
      <4>1. k \in 1..n /\ k - 1 \in 0..n
        BY <1>3, <3>2
      <4>2. f[k - 1] = Now(k - 1) /\ f[k] = Now(k)
        BY <4>1
      <4>3. QED
        BY <1>2, <3>2, <4>1, <4>2
    <3>3. QED
      BY <3>1, <3>2
  <2>2. f = g
    <3>1. f = [k \in 0..n |-> f[k]] /\ g = [k \in 0..n |-> g[k]]
      OBVIOUS
    <3> HIDE DEF f, g
    <3>2. QED
      BY <2>1, <3>1
  <2>3. QED
    BY <2>2 DEF IsAfter, n
<1>5. IsAfter(text, sorted, after)
  BY <1>4 DEF AfterEach
<1> HIDE DEF after
<1>6. /\ \A k \in 0..n : after[k] = IF k = 0 THEN text ELSE Edited!ApplyEdit(after[k - 1], sorted[k])
  BY <1>5 DEF IsAfter, n
<1> DEFINE Same(k) == after[k] = Now(k)
           Q == {k \in Nat : k <= n => Same(k)}
<1>7. Same(0)
  <2>1. 0 \in 0..n
    BY <1>3
  <2>2. QED
    BY <1>1, <1>6, <2>1
<1>8. ASSUME NEW k \in Nat, k <= n => Same(k), k + 1 <= n PROVE Same(k + 1)
  <2> DEFINE m == k + 1
  <2>1. m \in 0..n /\ m \in 1..n /\ m # 0 /\ m - 1 = k /\ k <= n
    BY <1>3, <1>8
  <2> HIDE DEF m
  <2>2. after[m] = Edited!ApplyEdit(after[m - 1], sorted[m])
    BY <1>6, <2>1
  <2>3. after[m - 1] = Now(m - 1)
    BY <1>8, <2>1
  <2>4. after[m] = Now(m)
    BY <1>2, <2>1, <2>2, <2>3
  <2>5. QED
    BY <2>4 DEF m
<1>9. Nat \subseteq Q
  <2> HIDE DEF Same
  <2>1. \A k \in Nat : k \in Q => k + 1 \in Q
    BY <1>8
  <2>2. 0 \in Q
    BY <1>7
  <2> HIDE DEF Q
  <2>3. QED
    BY <2>1, <2>2, Induction
<1>10. Same(n)
  <2> HIDE DEF Same
  <2>1. n \in Q /\ n <= n
    BY <1>3, <1>9
  <2>2. QED
    BY <2>1
<1>11. Now(n) \in Seq(Chars)
  <2>1. CASE n = 0
    BY <1>1, <2>1
  <2>2. CASE n # 0
    <3>1. n \in 1..n
      BY <1>3, <2>2
    <3>2. QED
      BY <1>2, <3>1
  <2>3. QED
    BY <2>1, <2>2
<1>12. QED
  BY <1>10, <1>11, InTurnIs DEF Now, n, after

(* The edits of a file from the bottom up, if they are proper.               *)
LEMMA BottomUpInFront ==
  ASSUME NEW text \in Seq(Chars), NEW E, NEW edits \in Seq(E), TextsOf({edits[i] : i \in DOMAIN edits}),
         Edited!Proper(text, edits), NEW sorted \in Edited!BottomUp(edits)
  PROVE  /\ Len(sorted) \in Nat
         /\ FirstEdits(sorted, Len(sorted)) = {edits[i] : i \in DOMAIN edits}
         /\ \A k \in 1..Len(sorted) : InFront(text, FirstEdits(sorted, k - 1), sorted[k])
<1> DEFINE D == DOMAIN edits
<1>1. D = 1..Len(edits) /\ Len(edits) \in Nat
  OBVIOUS
<1>2. PICK p \in Edited!Bijection(D, D) :
        /\ \A i, j \in D : i < j => ~Edited!Below(edits[p[j]], edits[p[i]])
        /\ sorted = [i \in D |-> edits[p[i]]]
  BY DEF Edited!BottomUp
<1>3. /\ p \in [D -> D] /\ \A i, j \in D : p[i] = p[j] => i = j
      /\ \A j \in D : \E i \in D : p[i] = j
  BY <1>2 DEF Edited!Bijection, Edited!Injection, Edited!Surjection, Edited!IsInjective
<1>4. Len(sorted) = Len(edits) /\ \A i \in D : sorted[i] = edits[p[i]] /\ p[i] \in D
  BY <1>1, <1>2, <1>3
<1>5. \A i, j \in D : /\ Edited!NoOffset # StartOf(text, edits[i])
                      /\ StartOf(text, edits[i]) <= EndOf(text, edits[i])
                      /\ i # j => /\ StartOf(text, edits[i]) # StartOf(text, edits[j])
                                  /\ StartOf(text, edits[i]) < StartOf(text, edits[j])
                                       => EndOf(text, edits[i]) <= StartOf(text, edits[j])
  BY DEF Edited!Proper, StartOf, EndOf
<1>6. \A i \in D : StartOf(text, edits[i]) \in Int
  <2>1. \A i \in D : StartOf(text, edits[i]) \in 0..Len(text)
    <3>1. Len(text) \in Nat
      OBVIOUS
    <3>2. QED
      BY <1>5, <3>1, OffsetIs DEF StartOf
  <2>2. QED
    BY <2>1
<1> HIDE DEF D
<1>7. ASSUME NEW i \in D, NEW j \in D, i < j
      PROVE  /\ StartOf(text, sorted[j]) # StartOf(text, sorted[i])
             /\ EndOf(text, sorted[j]) <= StartOf(text, sorted[i])
  <2> DEFINE a == p[i]
             b == p[j]
  <2>1. a \in D /\ b \in D /\ i # j
    <3>1. i # j
      BY <1>1, <1>7
    <3>2. QED
      BY <1>3, <3>1
  <2>2. a # b
    BY <1>3, <2>1
  <2>3. ~Edited!Below(edits[b], edits[a])
    BY <1>2, <1>7
  <2> HIDE DEF a, b
  <2>4. /\ StartOf(text, edits[a]) # Edited!NoOffset /\ StartOf(text, edits[b]) # Edited!NoOffset
        /\ StartOf(text, edits[a]) # StartOf(text, edits[b])
        /\ StartOf(text, edits[b]) < StartOf(text, edits[a])
             => EndOf(text, edits[b]) <= StartOf(text, edits[a])
        /\ StartOf(text, edits[a]) \in Int /\ StartOf(text, edits[b]) \in Int
    <3>1. /\ StartOf(text, edits[a]) # Edited!NoOffset /\ StartOf(text, edits[b]) # Edited!NoOffset
          /\ StartOf(text, edits[a]) # StartOf(text, edits[b])
      BY <1>5, <2>1, <2>2
    <3>2. StartOf(text, edits[b]) < StartOf(text, edits[a])
            => EndOf(text, edits[b]) <= StartOf(text, edits[a])
      BY <1>5, <2>1, <2>2
    <3>3. QED
      BY <1>6, <2>1, <3>1, <3>2
  <2>5. ~(StartOf(text, edits[a]) < StartOf(text, edits[b]))
    <3> DEFINE e == edits[a]
               f == edits[b]
    <3>1. SUFFICES ASSUME StartOf(text, e) < StartOf(text, f) PROVE Edited!Below(f, e)
      BY <2>3
    <3>2. Len(text) \in Nat /\ StartOf(text, e) # Edited!NoOffset /\ StartOf(text, f) # Edited!NoOffset
      BY <2>4
    <3> HIDE DEF e, f
    <3>3. QED
      BY <3>1, <3>2, BelowIs DEF StartOf
  <2>6. StartOf(text, edits[b]) < StartOf(text, edits[a])
    BY <2>4, <2>5
  <2>7. sorted[i] = edits[a] /\ sorted[j] = edits[b]
    BY <1>4 DEF a, b
  <2>8. QED
    BY <2>4, <2>6, <2>7
<1>8. ASSUME NEW k \in 1..Len(sorted) PROVE InFront(text, FirstEdits(sorted, k - 1), sorted[k])
  <2>1. k \in D /\ \A i \in 1..(k - 1) : i \in D /\ i < k
    BY <1>1, <1>4
  <2>2. \A i \in D : /\ sorted[i].text \in Seq(Chars)
                     /\ StartOf(text, sorted[i]) # Edited!NoOffset
                     /\ StartOf(text, sorted[i]) <= EndOf(text, sorted[i])
    BY <1>4, <1>5 DEF TextsOf, D
  <2>3. \A d \in FirstEdits(sorted, k - 1) : \E i \in D : i < k /\ d = sorted[i]
    BY <2>1 DEF FirstEdits
  <2>4. QED
    BY <1>7, <2>1, <2>2, <2>3 DEF InFront, TextsOf
<1>9. FirstEdits(sorted, Len(sorted)) = {edits[i] : i \in D}
  <2>1. FirstEdits(sorted, Len(sorted)) = {sorted[i] : i \in D}
    BY <1>1, <1>4 DEF FirstEdits
  <2>2. ASSUME NEW i \in D PROVE sorted[i] \in {edits[j] : j \in D}
    BY <1>4
  <2>3. ASSUME NEW j \in D PROVE edits[j] \in {sorted[i] : i \in D}
    <3>1. PICK i \in D : p[i] = j
      BY <1>3
    <3>2. edits[j] = sorted[i]
      BY <1>4, <3>1
    <3>3. QED
      BY <3>2
  <2>4. QED
    BY <2>1, <2>2, <2>3
<1>10. QED
  BY <1>1, <1>4, <1>8, <1>9 DEF D

(* The edits of a file, in any order, are applied as all at once.            *)
LEMMA FileAtOnce ==
  ASSUME NEW text \in Seq(Chars), NEW E, NEW edits \in Seq(E), "error" \notin Chars,
         TextsOf(Edited!Range(edits)), Edited!Proper(text, edits),
         NEW result \in Edited!ApplyFileEdits(text, edits)
  PROVE  result = Edited!AtOnce(text, Edited!Range(edits)) /\ result # Edited!Failed
<1>1. Edited!Range(edits) = {edits[i] : i \in DOMAIN edits}
  BY DEF Edited!Range
<1>2. PICK sorted \in Edited!BottomUp(edits) : result = Edited!ApplyInTurn(text, sorted)
  BY DEF Edited!ApplyFileEdits
<1>3. /\ Len(sorted) \in Nat
      /\ FirstEdits(sorted, Len(sorted)) = Edited!Range(edits)
      /\ \A k \in 1..Len(sorted) : InFront(text, FirstEdits(sorted, k - 1), sorted[k])
  <2>1. TextsOf({edits[i] : i \in DOMAIN edits})
    BY <1>1
  <2>2. QED
    BY <1>1, <2>1, BottomUpInFront
<1>4. result = Edited!AtOnce(text, Edited!Range(edits)) /\ result \in Seq(Chars)
  BY <1>2, <1>3, InTurnAtOnce
<1>5. Edited!Failed \notin Seq(Chars)
  <2>1. 1 \in 1..Len(Edited!Failed) /\ Edited!Failed[1] = "error"
    BY DEF Edited!Failed
  <2>2. SUFFICES ASSUME Edited!Failed \in Seq(Chars) PROVE FALSE
    OBVIOUS
  <2>3. Edited!Failed[1] \in Chars
    BY <2>1, <2>2, ElementOfSeq
  <2>4. QED
    BY <2>1, <2>3
<1>6. QED
  BY <1>4, <1>5

(* The files of an answer, and how many of them come before one.             *)
FilesOf(a) == DOMAIN a.changes \cup DOMAIN a.documents
Rank(files, f) == Cardinality({g \in files : g < f})

LEMMA RankGrows ==
  ASSUME NEW files \in SUBSET Int, IsFiniteSet(files), NEW f \in files
  PROVE  /\ Rank(files, f) \in 0..(Cardinality(files) - 1) /\ Cardinality(files) \in Nat
         /\ \A g \in files : f < g => Rank(files, f) < Rank(files, g)
<1> DEFINE Less(g) == {h \in files : h < g}
<1>1. \A g : IsFiniteSet(Less(g)) /\ Cardinality(Less(g)) \in Nat /\ Less(g) \in SUBSET files
  BY FS_Subset, FS_CardinalityType
<1>2. Cardinality(files) \in Nat
  BY FS_CardinalityType
<1>3. Rank(files, f) < Cardinality(files)
  <2>1. f \in files /\ f \notin Less(f)
    OBVIOUS
  <2> DEFINE S == Less(f)
  <2>2. S \in SUBSET files /\ S # files
    BY <2>1
  <2> HIDE DEF S
  <2>3. Cardinality(S) <= Cardinality(files) /\ (Cardinality(S) = Cardinality(files) => S = files)
    BY <2>2, FS_Subset
  <2>4. Cardinality(S) \in Nat
    BY <1>1 DEF S
  <2>5. Cardinality(S) < Cardinality(files)
    BY <1>2, <2>2, <2>3, <2>4
  <2>6. QED
    BY <2>5 DEF S, Rank
<1>4. ASSUME NEW g \in files, f < g PROVE Rank(files, f) < Rank(files, g)
  <2> DEFINE S == Less(f)
             T == Less(g)
  <2>1. S \in SUBSET T /\ f \in T /\ f \notin S
    <3>1. \A h \in files : h < f => h < g
      BY <1>4
    <3>2. f < g /\ ~(f < f)
      BY <1>4
    <3>3. S \in SUBSET T
      BY <3>1
    <3>4. QED
      BY <3>2, <3>3
  <2>2. IsFiniteSet(T) /\ Cardinality(S) \in Nat /\ Cardinality(T) \in Nat
    BY <1>1
  <2> HIDE DEF S, T
  <2>3. Cardinality(S) <= Cardinality(T) /\ (Cardinality(S) = Cardinality(T) => S = T)
    BY <2>1, <2>2, FS_Subset
  <2>4. Cardinality(S) < Cardinality(T)
    BY <2>1, <2>2, <2>3
  <2>5. QED
    BY <2>4 DEF S, T, Rank
<1>5. Rank(files, f) \in Nat
  BY <1>1 DEF Rank
<1>6. QED
  BY <1>2, <1>3, <1>4, <1>5

LEMMA RanksAll ==
  ASSUME NEW files \in SUBSET Int, IsFiniteSet(files)
  PROVE  /\ Cardinality(files) \in Nat
         /\ \A f, g \in files : Rank(files, f) = Rank(files, g) => f = g
         /\ \A f \in files : Rank(files, f) \in 0..(Cardinality(files) - 1)
         /\ \A i \in 1..Cardinality(files) : \E f \in files : Rank(files, f) = i - 1
<1> DEFINE N == Cardinality(files)
           T == 1..N
           r == [f \in files |-> Rank(files, f) + 1]
<1>0. N \in Nat
  BY FS_CardinalityType
<1>1. \A f \in files : Rank(files, f) \in 0..(N - 1)
  BY RankGrows
<1>2. ASSUME NEW f \in files, NEW g \in files, Rank(files, f) = Rank(files, g) PROVE f = g
  <2>1. Rank(files, f) \in Int /\ Rank(files, g) \in Int
    BY <1>1
  <2>2. ~(f < g) /\ ~(g < f)
    <3>1. f < g => Rank(files, f) < Rank(files, g)
      BY RankGrows
    <3>2. g < f => Rank(files, g) < Rank(files, f)
      BY RankGrows
    <3>3. QED
      BY <1>2, <2>1, <3>1, <3>2
  <2>3. QED
    BY <2>2
<1> HIDE DEF N
<1>3. r \in Injection(files, T)
  <2>1. \A f \in files : Rank(files, f) + 1 \in T
    BY <1>0, <1>1
  <2>2. r \in [files -> T]
    BY <2>1
  <2>3. ASSUME NEW f \in files, NEW g \in files, r[f] = r[g] PROVE f = g
    <3>1. Rank(files, f) + 1 = Rank(files, g) + 1
      BY <2>3
    <3>2. Rank(files, f) = Rank(files, g)
      BY <1>1, <3>1
    <3>3. QED
      BY <1>2, <3>2
  <2> HIDE DEF r, T
  <2>4. QED
    BY <2>2, <2>3 DEF Injection, IsInjective
<1>4. IsFiniteSet(T) /\ Cardinality(T) = Cardinality(files)
  BY <1>0, FS_Interval DEF N
<1>5. r \in Surjection(files, T)
  <2> HIDE DEF r, T
  <2>1. QED
    BY <1>3, <1>4, FS_Injection
<1>6. ASSUME NEW i \in T PROVE \E f \in files : Rank(files, f) = i - 1
  <2>1. PICK f \in files : r[f] = i
    BY <1>5, <1>6 DEF Surjection
  <2>2. Rank(files, f) + 1 = i /\ Rank(files, f) \in Int
    BY <1>1, <2>1
  <2>3. Rank(files, f) = i - 1
    BY <1>0, <2>2
  <2>4. QED
    BY <2>3
<1>7. QED
  BY <1>0, <1>1, <1>2, <1>6 DEF N

(* The plan has each file of the answer once, with all its edits.            *)
LEMMA PlanIs ==
  ASSUME NEW a, FilesOf(a) \in SUBSET Int, IsFiniteSet(FilesOf(a))
  PROVE  LET plan == Edited!ParseWorkspaceEdit(a)
         IN  /\ DOMAIN plan = 1..Cardinality(FilesOf(a)) /\ Cardinality(FilesOf(a)) \in Nat
             /\ \A i \in DOMAIN plan :
                  plan[i].file \in FilesOf(a) /\ plan[i].edits = Edited!EditsOf(a, plan[i].file)
             /\ \A i, j \in DOMAIN plan : plan[i].file = plan[j].file => i = j
             /\ \A f \in FilesOf(a) : \E i \in DOMAIN plan : plan[i].file = f
<1> DEFINE files == FilesOf(a)
           N == Cardinality(files)
           File(i) == CHOOSE f \in files : Rank(files, f) = i - 1
           plan == [i \in 1..N |-> [file |-> File(i), edits |-> Edited!EditsOf(a, File(i))]]
<1>1. Edited!ParseWorkspaceEdit(a) = plan
  BY EditsCounted DEF Edited!ParseWorkspaceEdit, FilesOf, Rank
<1> HIDE DEF files
<1>2. files \in SUBSET Int /\ IsFiniteSet(files)
  BY DEF files
<1> HIDE DEF N
<1>3. /\ N \in Nat
      /\ \A f, g \in files : Rank(files, f) = Rank(files, g) => f = g
      /\ \A f \in files : Rank(files, f) \in 0..(N - 1)
      /\ \A i \in 1..N : \E f \in files : Rank(files, f) = i - 1
  BY <1>2, RanksAll DEF N
<1>4. \A i \in 1..N : File(i) \in files /\ Rank(files, File(i)) = i - 1
  BY <1>3
<1> HIDE DEF File
<1>5. \A i \in 1..N : plan[i].file = File(i) /\ plan[i].edits = Edited!EditsOf(a, File(i))
  OBVIOUS
<1>6. DOMAIN plan = 1..N
  OBVIOUS
<1> HIDE DEF plan
<1>7. ASSUME NEW i \in 1..N, NEW j \in 1..N, plan[i].file = plan[j].file PROVE i = j
  <2>1. i - 1 = j - 1
    BY <1>4, <1>5, <1>7
  <2>2. QED
    BY <2>1
<1>8. ASSUME NEW f \in files PROVE \E i \in 1..N : plan[i].file = f
  <2> DEFINE i == Rank(files, f) + 1
  <2>1. Rank(files, f) \in 0..(N - 1)
    BY <1>3
  <2>2. i \in 1..N /\ i - 1 = Rank(files, f)
    BY <1>3, <2>1
  <2> HIDE DEF i
  <2>3. File(i) = f
    BY <1>3, <1>4, <2>2
  <2>4. QED
    BY <1>5, <2>2, <2>3
<1>9. /\ DOMAIN plan = 1..Cardinality(files) /\ Cardinality(files) \in Nat
      /\ \A i \in DOMAIN plan : plan[i].file \in files /\ plan[i].edits = Edited!EditsOf(a, plan[i].file)
      /\ \A i, j \in DOMAIN plan : plan[i].file = plan[j].file => i = j
      /\ \A f \in files : \E i \in DOMAIN plan : plan[i].file = f
  <2>1. N = Cardinality(files) /\ DOMAIN plan = 1..N
    BY <1>6 DEF N
  <2>2. \A i \in 1..N : plan[i].file \in files /\ plan[i].edits = Edited!EditsOf(a, plan[i].file)
    BY <1>4, <1>5
  <2>3. QED
    BY <1>3, <1>7, <1>8, <2>1, <2>2
<1>10. QED
  BY <1>1, <1>9 DEF files

(* The edits of a file are a sequence of texts.                              *)
LEMMA EditsOfAre ==
  ASSUME SensibleEdits, NEW a \in Answers, NEW f
  PROVE  \E E : Edited!EditsOf(a, f) \in Seq(E) /\ TextsOf(Edited!Range(Edited!EditsOf(a, f)))
<1> DEFINE In(plan) == IF f \in DOMAIN plan THEN plan[f] ELSE <<>>
           Of(plan) == IF f \in DOMAIN plan THEN {plan[f][i] : i \in DOMAIN plan[f]} ELSE {}
           E == Of(a.changes) \cup Of(a.documents)
<1>1. ASSUME NEW plan \in {a.changes, a.documents}
      PROVE  In(plan) \in Seq(Of(plan)) /\ \A e \in Of(plan) : e.text \in Seq(Chars)
  <2>1. CASE f \notin DOMAIN plan
    BY <2>1
  <2>2. CASE f \in DOMAIN plan
    <3>1. /\ plan[f] \in Seq({plan[f][i] : i \in DOMAIN plan[f]})
          /\ \A i \in DOMAIN plan[f] : plan[f][i].text \in Seq(Chars)
      BY <1>1, <2>2 DEF SensibleEdits
    <3>2. In(plan) = plan[f] /\ Of(plan) = {plan[f][i] : i \in DOMAIN plan[f]}
      BY <2>2
    <3> HIDE DEF In, Of
    <3>3. QED
      BY <3>1, <3>2
  <2>3. QED
    BY <2>1, <2>2
<1>2. Edited!EditsOf(a, f) = In(a.changes) \o In(a.documents)
  BY DEF Edited!EditsOf
<1> DEFINE s == In(a.changes)
           t == In(a.documents)
<1>3. s \in Seq(Of(a.changes)) /\ t \in Seq(Of(a.documents)) /\ \A e \in E : e.text \in Seq(Chars)
  <2> HIDE DEF In, Of
  <2>1. QED
    BY <1>1
<1>4. s \in Seq(E) /\ t \in Seq(E)
  <2>1. Of(a.changes) \subseteq E /\ Of(a.documents) \subseteq E
    OBVIOUS
  <2> HIDE DEF s, t, E, Of
  <2>2. QED
    BY <1>3, <2>1, SeqMonotonic
<1>5. Edited!EditsOf(a, f) = s \o t
  BY <1>2
<1> HIDE DEF s, t, E
<1> DEFINE u == s \o t
<1>6. u \in Seq(E)
  BY <1>4, ConcatProperties
<1> HIDE DEF u
<1>7. \A i \in DOMAIN u : u[i] \in E
  BY <1>6
<1>8. TextsOf(Edited!Range(u))
  BY <1>3, <1>7 DEF TextsOf, Edited!Range
<1>9. QED
  BY <1>5, <1>6, <1>8 DEF u

------------------------------------------------------------------------------
(* What is still to do is of the plan, each file once; these files are as    *)
(* they were, the others have their edits; and a rename fails only over a    *)
(* file that is not there or whose edits are not proper.                     *)
ToDo(f) == \E i \in DOMAIN todo : todo[i].file = f

EditsInv ==
  /\ before \in Texts /\ answer \in Answers
  /\ DOMAIN disk = DOMAIN before
  /\ todo \in Seq({todo[i] : i \in DOMAIN todo})
  /\ \A i \in DOMAIN todo : todo[i].edits = Edited!EditsOf(answer, todo[i].file)
  /\ \A i, j \in DOMAIN todo : todo[i].file = todo[j].file => i = j
  /\ \A f \in DOMAIN disk : ToDo(f) => disk[f] = before[f]
  /\ \A f \in DOMAIN disk :
       ~ToDo(f) /\ Edited!Proper(before[f], Edited!EditsOf(answer, f))
         => disk[f] = Edited!AtOnce(before[f], Edited!Range(Edited!EditsOf(answer, f)))
  /\ outcome = "failed" =>
       /\ todo # <<>>
       /\ Head(todo).file \in DOMAIN disk
            => ~Edited!Proper(before[Head(todo).file], Edited!EditsOf(answer, Head(todo).file))

LEMMA InitEdits == SensibleEdits /\ Edited!Init => EditsInv
<1> SUFFICES ASSUME SensibleEdits, Edited!Init PROVE EditsInv
  OBVIOUS
<1>1. /\ before \in Texts /\ disk = before /\ answer \in Answers
      /\ todo = Edited!ParseWorkspaceEdit(answer) /\ outcome \in {"applying", "refused"}
  BY DEF Edited!Init
<1>2. FilesOf(answer) \in SUBSET Int /\ IsFiniteSet(FilesOf(answer))
  <2>1. \A files \in {DOMAIN answer.changes, DOMAIN answer.documents} :
          files \subseteq Int /\ IsFiniteSet(files)
    BY <1>1 DEF SensibleEdits
  <2>2. QED
    BY <2>1, FS_Union DEF FilesOf
<1>3. /\ DOMAIN todo = 1..Cardinality(FilesOf(answer)) /\ Cardinality(FilesOf(answer)) \in Nat
      /\ \A i \in DOMAIN todo : todo[i].edits = Edited!EditsOf(answer, todo[i].file)
      /\ \A i, j \in DOMAIN todo : todo[i].file = todo[j].file => i = j
      /\ \A f \in FilesOf(answer) : \E i \in DOMAIN todo : todo[i].file = f
  BY <1>1, <1>2, PlanIs
<1>4. todo \in Seq({todo[i] : i \in DOMAIN todo})
  <2> DEFINE n == Cardinality(FilesOf(answer))
             E == {todo[i] : i \in DOMAIN todo}
  <2>1. todo = [i \in 1..n |-> todo[i]]
    BY <1>1, <1>3 DEF Edited!ParseWorkspaceEdit
  <2>2. \A i \in 1..n : todo[i] \in E
    BY <1>3
  <2>3. n \in Nat
    BY <1>3
  <2> HIDE DEF E, n
  <2>4. todo \in [1..n -> E]
    BY <2>1, <2>2
  <2>5. todo \in Seq(E)
    BY <2>3, <2>4
  <2>6. QED
    BY <2>5 DEF E
<1>5. ASSUME NEW f \in DOMAIN disk, ~ToDo(f)
      PROVE  disk[f] = Edited!AtOnce(before[f], Edited!Range(Edited!EditsOf(answer, f)))
  <2>1. f \notin FilesOf(answer)
    BY <1>3, <1>5 DEF ToDo
  <2>2. Edited!EditsOf(answer, f) = <<>>
    BY <2>1 DEF FilesOf, Edited!EditsOf
  <2>3. Edited!Range(<<>>) = {}
    BY DEF Edited!Range
  <2>4. before[f] \in Seq(Chars)
    BY <1>1 DEF SensibleEdits
  <2>5. Edited!AtOnce(before[f], {}) = before[f]
    BY <2>4, NothingAtOnce
  <2>6. QED
    BY <1>1, <2>2, <2>3, <2>5
<1>6. QED
  BY <1>1, <1>3, <1>4, <1>5 DEF EditsInv

LEMMA ApplyFileKeeps ==
  ASSUME SensibleEdits, EditsInv, Edited!ApplyFile
  PROVE  EditsInv'
<1> DEFINE fe == Head(todo)
           E == {todo[i] : i \in DOMAIN todo}
<1>1. PICK text \in IF fe.file \in DOMAIN disk THEN Edited!ApplyFileEdits(disk[fe.file], fe.edits)
                    ELSE {Edited!Failed} :
        /\ disk' = IF text = Edited!Failed THEN disk ELSE [disk EXCEPT ![fe.file] = text]
        /\ outcome' = IF text = Edited!Failed THEN "failed" ELSE outcome
        /\ todo' = IF text = Edited!Failed THEN todo ELSE Tail(todo)
  BY DEF Edited!ApplyFile
<1>2. todo # <<>> /\ outcome = "applying" /\ before' = before /\ answer' = answer
  BY DEF Edited!ApplyFile
<1>3. todo \in Seq(E) /\ 1 \in DOMAIN todo /\ fe = todo[1] /\ fe.edits = Edited!EditsOf(answer, fe.file)
      /\ Len(todo) \in Nat /\ DOMAIN todo = 1..Len(todo)
  <2>1. todo \in Seq(E)
    BY DEF EditsInv
  <2> HIDE DEF E
  <2>2. Len(todo) \in Nat /\ DOMAIN todo = 1..Len(todo) /\ Len(todo) # 0
    BY <1>2, <2>1
  <2>3. 1 \in DOMAIN todo /\ fe = todo[1]
    BY <2>2
  <2>4. QED
    BY <2>1, <2>2, <2>3 DEF EditsInv
<1>4. ASSUME fe.file \in DOMAIN disk, Edited!Proper(before[fe.file], Edited!EditsOf(answer, fe.file))
      PROVE  /\ text = Edited!AtOnce(before[fe.file], Edited!Range(Edited!EditsOf(answer, fe.file)))
             /\ text # Edited!Failed
  <2> DEFINE f == fe.file
             edits == Edited!EditsOf(answer, f)
  <2>1. disk[f] = before[f]
    BY <1>3, <1>4 DEF EditsInv, ToDo
  <2>2. before[f] \in Seq(Chars) /\ "error" \notin Chars
    BY <1>4 DEF EditsInv, SensibleEdits
  <2>3. PICK S : edits \in Seq(S) /\ TextsOf(Edited!Range(edits))
    <3>1. answer \in Answers
      BY DEF EditsInv
    <3> HIDE DEF f
    <3>2. QED
      BY <3>1, EditsOfAre
  <2>4. text \in Edited!ApplyFileEdits(before[f], edits)
    BY <1>1, <1>3, <1>4, <2>1
  <2>5. Edited!Proper(before[f], edits)
    BY <1>4
  <2> HIDE DEF f, edits
  <2>6. text = Edited!AtOnce(before[f], Edited!Range(edits)) /\ text # Edited!Failed
    BY <2>2, <2>3, <2>4, <2>5, FileAtOnce
  <2>7. QED
    BY <2>6 DEF f, edits
<1>5. CASE text = Edited!Failed
  <2>1. disk' = disk /\ todo' = todo /\ outcome' = "failed"
    BY <1>1, <1>5
  <2>2. fe.file \in DOMAIN disk => ~Edited!Proper(before[fe.file], Edited!EditsOf(answer, fe.file))
    BY <1>4, <1>5
  <2>3. \A f : ToDo(f)' <=> ToDo(f)
    BY <2>1 DEF ToDo
  <2>4. QED
    BY <1>2, <2>1, <2>2, <2>3 DEF EditsInv
<1>6. CASE text # Edited!Failed
  <2>1. disk' = [disk EXCEPT ![fe.file] = text] /\ todo' = Tail(todo) /\ outcome' = "applying"
    BY <1>1, <1>2, <1>6
  <2>2. fe.file \in DOMAIN disk
    BY <1>1, <1>6
  <2>3. /\ DOMAIN todo' = 1..(Len(todo) - 1)
        /\ \A i \in 1..(Len(todo) - 1) : todo'[i] = todo[i + 1] /\ i + 1 \in DOMAIN todo
    <3> HIDE DEF E
    <3>1. /\ Tail(todo) \in Seq(E) /\ Len(Tail(todo)) = Len(todo) - 1
          /\ \A i \in 1..Len(Tail(todo)) : Tail(todo)[i] = todo[i + 1]
      BY <1>2, <1>3, HeadTailProperties
    <3>2. QED
      BY <1>3, <2>1, <3>1
  <2>4. todo' \in Seq({todo'[i] : i \in DOMAIN todo'})
    <3> DEFINE n == Len(todo) - 1
               T == {todo'[i] : i \in DOMAIN todo'}
    <3>1. n \in Nat
      BY <1>3
    <3>2. todo' = [i \in 1..n |-> todo'[i]]
      <4>1. Tail(todo) \in Seq(E) /\ DOMAIN Tail(todo) = 1..n
        BY <1>2, <1>3, <2>1, <2>3, HeadTailProperties
      <4> DEFINE u == Tail(todo)
      <4>2. u \in [1..Len(u) -> E]
        BY <4>1, LenProperties
      <4> HIDE DEF u, n
      <4>3. u = [i \in 1..n |-> u[i]]
        BY <4>1, <4>2 DEF u
      <4>4. QED
        BY <2>1, <4>3 DEF u
    <3>3. \A i \in 1..n : todo'[i] \in T
      BY <2>3
    <3> HIDE DEF n, T
    <3>4. todo' \in [1..n -> T]
      BY <3>2, <3>3
    <3>5. todo' \in Seq(T)
      BY <3>1, <3>4
    <3>6. QED
      BY <3>5 DEF T
  <2>5. \A i \in DOMAIN todo' : todo'[i].edits = Edited!EditsOf(answer, todo'[i].file)
    BY <2>3 DEF EditsInv
  <2>6. ASSUME NEW i \in DOMAIN todo', NEW j \in DOMAIN todo', todo'[i].file = todo'[j].file PROVE i = j
    <3>1. i + 1 \in DOMAIN todo /\ j + 1 \in DOMAIN todo /\ todo[i + 1].file = todo[j + 1].file
      BY <2>3, <2>6
    <3>2. i + 1 = j + 1
      BY <3>1 DEF EditsInv
    <3>3. i \in Int /\ j \in Int
      BY <2>3
    <3>4. QED
      BY <3>2, <3>3
  <2>7. \A f : ToDo(f)' <=> ToDo(f) /\ f # fe.file
    <3>1. ASSUME NEW f, ToDo(f)' PROVE ToDo(f) /\ f # fe.file
      <4>1. PICK i \in DOMAIN todo' : todo'[i].file = f
        BY <3>1 DEF ToDo
      <4>2. i + 1 \in DOMAIN todo /\ todo[i + 1].file = f /\ i + 1 # 1
        BY <1>3, <2>3, <4>1
      <4>3. todo[1].file # f
        BY <1>3, <4>2 DEF EditsInv
      <4>4. QED
        BY <1>3, <4>2, <4>3 DEF ToDo
    <3>2. ASSUME NEW f, ToDo(f), f # fe.file PROVE ToDo(f)'
      <4>1. PICK j \in DOMAIN todo : todo[j].file = f
        BY <3>2 DEF ToDo
      <4>2. j # 1
        BY <1>3, <3>2, <4>1
      <4> DEFINE i == j - 1
      <4>3. i \in 1..(Len(todo) - 1) /\ i + 1 = j
        BY <1>3, <4>1, <4>2
      <4> HIDE DEF i
      <4>4. i \in DOMAIN todo' /\ todo'[i].file = f
        BY <2>3, <4>1, <4>3
      <4>5. QED
        BY <4>4 DEF ToDo
    <3>3. QED
      BY <3>1, <3>2
  <2>8. DOMAIN disk' = DOMAIN disk /\ DOMAIN disk = DOMAIN before
        /\ disk'[fe.file] = text /\ \A f \in DOMAIN disk : f # fe.file => disk'[f] = disk[f]
    BY <2>1, <2>2 DEF EditsInv
  <2>9. \A f \in DOMAIN disk' : ToDo(f)' => disk'[f] = before[f]
    BY <2>7, <2>8 DEF EditsInv
  <2>10. ASSUME NEW f \in DOMAIN disk', ~ToDo(f)', Edited!Proper(before[f], Edited!EditsOf(answer, f))
         PROVE  disk'[f] = Edited!AtOnce(before[f], Edited!Range(Edited!EditsOf(answer, f)))
    <3>1. CASE f = fe.file
      BY <1>4, <2>2, <2>8, <2>10, <3>1
    <3>2. CASE f # fe.file
      <4>1. ~ToDo(f) /\ f \in DOMAIN disk /\ disk'[f] = disk[f]
        BY <2>7, <2>8, <2>10, <3>2
      <4>2. QED
        BY <2>10, <4>1 DEF EditsInv
    <3>3. QED
      BY <3>1, <3>2
  <2>11. before' \in Texts /\ answer' \in Answers /\ DOMAIN disk' = DOMAIN before'
    BY <1>2, <2>8 DEF EditsInv
  <2>12. QED
    BY <1>2, <2>1, <2>4, <2>5, <2>6, <2>9, <2>10, <2>11 DEF EditsInv
<1>7. QED
  BY <1>5, <1>6

LEMMA EditsInvKept == SensibleEdits /\ EditsInv /\ [Edited!Next]_Edited!vars => EditsInv'
<1> SUFFICES ASSUME SensibleEdits, EditsInv, [Edited!Next]_Edited!vars PROVE EditsInv'
  OBVIOUS
<1>1. CASE Edited!ApplyFile
  BY <1>1, ApplyFileKeeps
<1>2. CASE Edited!Applied
  <2>1. /\ outcome' = "applied" /\ before' = before /\ disk' = disk /\ answer' = answer /\ todo' = todo
    BY <1>2 DEF Edited!Applied
  <2>2. \A f : ToDo(f)' <=> ToDo(f)
    BY <2>1 DEF ToDo
  <2>3. QED
    BY <2>1, <2>2 DEF EditsInv
<1>3. CASE UNCHANGED Edited!vars
  <2>1. UNCHANGED <<before, disk, answer, todo, outcome>>
    BY <1>3 DEF Edited!vars
  <2>2. \A f : ToDo(f)' <=> ToDo(f)
    BY <2>1 DEF ToDo
  <2>3. QED
    BY <2>1, <2>2 DEF EditsInv
<1>4. QED
  BY <1>1, <1>2, <1>3 DEF Edited!Next

LEMMA EditsInvAtOnce == EditsInv => EditsAtOnce
<1> SUFFICES ASSUME EditsInv PROVE EditsAtOnce
  OBVIOUS
<1>1. SUFFICES ASSUME NEW f \in DOMAIN disk
               PROVE  IF \E i \in DOMAIN todo : todo[i].file = f
                      THEN /\ disk[f] = before[f]
                           /\ outcome = "failed" /\ f = Head(todo).file
                                => ~Edited!Proper(before[f], Edited!EditsOf(answer, f))
                      ELSE Edited!Proper(before[f], Edited!EditsOf(answer, f))
                             => disk[f] = Edited!AtOnce(before[f], Edited!Range(Edited!EditsOf(answer, f)))
  BY DEF EditsAtOnce, Edited!EditsAtOnce
<1>2. ToDo(f) <=> \E i \in DOMAIN todo : todo[i].file = f
  BY DEF ToDo
<1>3. CASE ToDo(f)
  BY <1>2, <1>3 DEF EditsInv
<1>4. CASE ~ToDo(f)
  BY <1>2, <1>4 DEF EditsInv
<1>5. QED
  BY <1>3, <1>4

(* Edits of a rename that do not touch one another are applied, to each file *)
(* that is done, as if all at once (lsp/edit.go), and none of them makes it  *)
(* fail: for any texts, any edits in any order, and files in any number.     *)
THEOREM EditsAreAtOnce == Edited!Spec => []EditsAtOnce
<1>1. Edited!Init => EditsInv
  BY SensibleServices, InitEdits
<1>2. EditsInv /\ [Edited!Next]_Edited!vars => EditsInv'
  BY SensibleServices, EditsInvKept
<1>3. EditsInv => EditsAtOnce
  BY EditsInvAtOnce
<1>4. QED
  BY <1>1, <1>2, <1>3, PTL DEF Edited!Spec
==============================================================================
