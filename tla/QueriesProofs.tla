----------------------------- MODULE QueriesProofs -----------------------------
(***************************************************************************)
(* Proofs about the scans and their cache (ScanEngine) and the queries     *)
(* that are answered with them (EngineQueries), as ScansAndQueries         *)
(* composes them.                                                          *)
(*                                                                         *)
(* ScanInv is an inductive invariant of the scans and their cache, for any *)
(* calls, packages and number of edits, and implies ScannerKept; without   *)
(* text that comes back it implies ScanFresh.                              *)
(***************************************************************************)
EXTENDS ScansAndQueries, TLAPS

------------------------------------------------------------------------------
(* What is known of the values a call starts from.                           *)
LEMMA Unreads ==
    /\ Unread \in Int /\ Unread \notin Nat
    /\ \A v \in Nat : Unread <= v
    /\ NotRead \in Partial
    /\ \A p \in Pkgs : NotRead[p] = Unread
    /\ Tree \subseteq Partial
BY DEF NotRead, Partial, Unread, Tree, Versions

(* A call that is not in progress, or begins, has nothing out of order.      *)
LEMMA IdleOK ==
    ASSUME NEW c \in AllCalls, NEW tree \in Tree
    PROVE  Idle \in Locals /\ CallOK(c, Idle, tree)
<1>1. Idle \in Locals
  BY Unreads DEF Idle, Locals, Places
<1>2. ReadsInOrder(Idle, tree)
  BY Unreads DEF Idle, ReadsInOrder, Tree, Versions
<1>3. QED
  BY <1>1, <1>2 DEF Idle, CallOK, MerkleWhole, Vouched, NewEnough

(* What is in order stays so while the tree is edited.                       *)
LEMMA LaterTree ==
    ASSUME NEW c \in AllCalls, NEW w \in Locals, NEW old \in Tree, NEW new \in Tree,
           \A p \in Pkgs : old[p] <= new[p], CallOK(c, w, old)
    PROVE  CallOK(c, w, new)
<1> DEFINE N == Nat \cup {Unread}
<1>1. ReadsInOrder(w, new)
  <2> SUFFICES ASSUME NEW p \in Pkgs
               PROVE  /\ w.since[p] <= new[p] /\ w.draft[p] <= new[p]
                      /\ w.merkle[p] # Unread => w.merkle[p] <= new[p]
    BY DEF CallOK, ReadsInOrder
  <2>1. w.since[p] \in N /\ w.draft[p] \in N /\ w.merkle[p] \in N
    BY DEF Locals, Partial, Versions
  <2>2. old[p] \in Nat /\ new[p] \in Nat /\ old[p] <= new[p]
    BY DEF Tree, Versions
  <2>3. QED
    BY <2>1, <2>2, Unreads DEF CallOK, ReadsInOrder
<1>2. ASSUME NEW r \in Reports \cup {NoReport}, Vouched(r, old)
      PROVE  Vouched(r, new)
  <2> SUFFICES ASSUME r # NoReport, NEW p \in Pkgs
               PROVE  r.model[p] <= new[p]
    BY <1>2 DEF Vouched
  <2>1. r.model[p] \in Nat /\ r.model[p] <= old[p]
    BY <1>2 DEF Reports, Tree, Versions, Vouched
  <2>2. QED
    BY <2>1 DEF Tree, Versions
<1>3. Vouched(w.prior, new) /\ Vouched(w.result, new)
  BY <1>2 DEF CallOK, Locals
<1>4. QED
  BY <1>1, <1>3 DEF CallOK

------------------------------------------------------------------------------
(* Steps of one call.                                                      *)

(* A step that gives one call a record that is in order, and keeps the slots *)
(* in order, preserves the invariant.                                        *)
LEMMA CallAndSlots ==
    ASSUME ScanInv, NEW c \in AllCalls, NEW w \in Locals, CallOK(c, w, content),
           Becomes(c, w), content' = content, dirty' \in BOOLEAN,
           slot' \in [Keys -> Reports \cup {NoReport}], SlotsOK'
    PROVE  ScanInv'
<1>1. call' \in [AllCalls -> Locals]
  BY DEF ScanInv, TypeOK, Becomes
<1>2. \A d \in AllCalls : CallOK(d, call'[d], content)
  BY DEF ScanInv, TypeOK, Becomes
<1>3. QED
  BY <1>1, <1>2 DEF ScanInv, TypeOK

LEMMA CallOnly ==
    ASSUME ScanInv, NEW c \in AllCalls, NEW w \in Locals, CallOK(c, w, content),
           Becomes(c, w), UNCHANGED <<content, dirty, slot>>
    PROVE  ScanInv'
<1>1. SlotsOK'
  BY DEF ScanInv, SlotsOK
<1>2. dirty' \in BOOLEAN /\ slot' \in [Keys -> Reports \cup {NoReport}] /\ content' = content
  BY DEF ScanInv, TypeOK
<1>3. QED
  BY <1>1, <1>2, CallAndSlots

(* Storing a report that vouches for what it shows, of the slot's scanner.   *)
LEMMA PutOK ==
    ASSUME ScanInv, NEW k \in Keys, NEW r \in Reports \cup {NoReport},
           Vouched(r, content), r # NoReport => r.scanner = SlotScanner(k),
           PutReport(k, r), content' = content
    PROVE  slot' \in [Keys -> Reports \cup {NoReport}] /\ SlotsOK'
<1>1. CASE slot' = slot
  BY <1>1 DEF ScanInv, TypeOK, SlotsOK
<1>2. CASE slot' = [slot EXCEPT ![k] = r]
  BY <1>2 DEF ScanInv, TypeOK, SlotsOK
<1>3. QED
  BY <1>1, <1>2 DEF PutReport

(* What the invariant says of one call.                                      *)
LEMMA Local ==
    ASSUME ScanInv, NEW c \in AllCalls
    PROVE  /\ call[c] \in Locals
           /\ CallOK(c, call[c], content)
           /\ content \in Tree
           /\ \A p \in Pkgs : content[p] \in Nat
BY DEF ScanInv, TypeOK, Tree, Versions

(* A call gives a report back.                                               *)
LEMMA Given ==
    ASSUME ScanInv, NEW c \in AllCalls, NEW r \in Reports \cup {NoReport},
           Vouched(r, content),
           r # NoReport => NewEnough(call[c], r) /\ r.scanner = ScannerOf(c),
           call[c].at \notin {"idle", "merkle"}
    PROVE  Returning(c, r) \in Locals /\ CallOK(c, Returning(c, r), content)
<1>1. CASE r = NoReport
  <2>1. Returning(c, r) = Idle
    BY <1>1 DEF Returning
  <2>2. QED
    BY <2>1, Local, IdleOK
<1>2. CASE r # NoReport
  <2> DEFINE w == Returning(c, r)
  <2>1. /\ w.at = "return" /\ w.since = call[c].since /\ w.merkle = call[c].merkle
        /\ w.prior = NoReport /\ w.draft = NotRead /\ w.result = r
        /\ w \in Locals
    BY <1>2, Local, Unreads DEF Returning, Idle, Locals, Places
  <2>2. ReadsInOrder(w, content)
    BY <2>1, Local, Unreads DEF CallOK, ReadsInOrder
  <2>3. MerkleWhole(w)
    BY <2>1, Local DEF CallOK, MerkleWhole
  <2>4. Vouched(w.prior, content)
    BY <2>1 DEF Vouched
  <2>5. w.result # NoReport => NewEnough(w, w.result) /\ w.result.scanner = ScannerOf(c)
    BY <2>1 DEF NewEnough
  <2> HIDE DEF w
  <2>6. CallOK(c, w, content)
    BY <2>1, <2>2, <2>3, <2>4, <2>5, Local DEF CallOK
  <2>7. QED
    BY <2>1, <2>6 DEF w
<1>3. QED
  BY <1>1, <1>2

------------------------------------------------------------------------------
(* ScanProject, step by step.                                              *)

LEMMA Members ==
    /\ Scans \subseteq AllCalls /\ Analyses \subseteq AllCalls
    /\ SharedScan \in AllCalls /\ Calls \subseteq AllCalls
    /\ Scans \cap Analyses = {} /\ SharedScan \notin Calls
    /\ Overriding \subseteq Scans
    /\ \A s \in AllCalls : ScannerOf(s) \in Keys /\ SlotScanner(ScannerOf(s)) = ScannerOf(s)
    /\ "plain" \in Keys /\ "auto" \in Keys
    /\ SlotScanner("plain") = "auto" /\ SlotScanner("auto") = "auto"
    /\ \A s \in AllCalls \ Overriding : ScannerOf(s) = "auto"
BY ScanEngineAssumption DEF AllCalls, Calls, Keys, ScannerOf, SlotScanner

LEMMA ScanProjectOK ==
    ASSUME ScanInv, NEW s \in Scans, ScanProject(s)
    PROVE  ScanInv'
<1> DEFINE w == [Idle EXCEPT !.at = "merkle", !.since = content]
<1>1. s \in AllCalls
  BY Members
<1>2. /\ w.at = "merkle" /\ w.since = content /\ w.merkle = NotRead /\ w.draft = NotRead
      /\ w.prior = NoReport /\ w.result = NoReport /\ w \in Locals
  BY <1>1, Local, Unreads DEF Idle, Locals, Places
<1>3. ReadsInOrder(w, content)
  BY <1>1, <1>2, Local, Unreads DEF ReadsInOrder
<1> HIDE DEF w
<1>4. CallOK(s, w, content)
  BY <1>2, <1>3 DEF CallOK, MerkleWhole, Vouched
<1>5. Becomes(s, w) /\ UNCHANGED <<content, dirty, slot>>
  BY DEF ScanProject, w
<1>6. QED
  BY <1>1, <1>2, <1>4, <1>5, CallOnly

LEMMA ReadLeafOK ==
    ASSUME ScanInv, NEW s \in Scans, NEW p \in Pkgs, ReadLeaf(s, p)
    PROVE  ScanInv'
<1> DEFINE read == [call[s] EXCEPT !.merkle[p] = content[p]]
           done == \A q \in Pkgs : read.merkle[q] # Unread
           w == IF done THEN [read EXCEPT !.at = "lookup"] ELSE read
<1>1. s \in AllCalls
  BY Members
<1>2. call[s] \in Locals /\ call[s].at = "merkle" /\ call[s].merkle[p] = Unread
  BY <1>1, Local DEF ReadLeaf, At
<1>3. /\ w.at = IF done THEN "lookup" ELSE "merkle"
      /\ w.since = call[s].since /\ w.draft = call[s].draft
      /\ w.merkle = [call[s].merkle EXCEPT ![p] = content[p]]
      /\ w.prior = call[s].prior /\ w.result = call[s].result
      /\ w \in Locals
  BY <1>1, <1>2, Local, Unreads DEF Locals, Places, Partial, Versions
<1>4. done <=> \A q \in Pkgs : w.merkle[q] # Unread
  BY <1>2 DEF Locals
<1>5. call[s].draft = NotRead /\ call[s].result = NoReport
  BY <1>1, <1>2, Local DEF CallOK
<1> HIDE DEF w, done
<1>6. ReadsInOrder(w, content)
  <2> SUFFICES ASSUME NEW q \in Pkgs
               PROVE  /\ w.since[q] <= content[q] /\ w.draft[q] = Unread
                      /\ w.draft[q] <= content[q]
                      /\ w.merkle[q] # Unread =>
                           w.since[q] <= w.merkle[q] /\ w.merkle[q] <= content[q]
    BY DEF ReadsInOrder
  <2>1. w.since[q] <= content[q] /\ w.draft[q] = Unread /\ w.draft[q] <= content[q]
    BY <1>1, <1>3, <1>5, Local, Unreads DEF CallOK, ReadsInOrder
  <2>2. CASE q = p
    BY <2>1, <2>2, <1>1, <1>2, <1>3, Local DEF Locals, Partial
  <2>3. CASE q # p
    <3>1. w.since[q] = call[s].since[q] /\ w.merkle[q] = call[s].merkle[q]
      BY <2>3, <1>2, <1>3 DEF Locals, Partial
    <3>2. QED
      BY <2>1, <3>1, <1>1, Local DEF CallOK, ReadsInOrder
  <2>4. QED
    BY <2>1, <2>2, <2>3
<1>7. MerkleWhole(w)
  BY <1>3, <1>4 DEF MerkleWhole
<1>8. CallOK(s, w, content)
  BY <1>1, <1>3, <1>5, <1>6, <1>7, Local DEF CallOK
<1>9. Becomes(s, w) /\ UNCHANGED <<content, dirty, slot>>
  BY DEF ReadLeaf, w, done
<1>10. QED
  BY <1>1, <1>3, <1>8, <1>9, CallOnly

LEMMA MerkleFailsOK ==
    ASSUME ScanInv, NEW s \in Scans, MerkleFails(s)
    PROVE  ScanInv'
<1> DEFINE w == [call[s] EXCEPT !.at = "lookup", !.merkle = NotRead]
<1>1. s \in AllCalls
  BY Members
<1>2. call[s] \in Locals /\ call[s].at = "merkle"
  BY <1>1, Local DEF MerkleFails, At
<1>3. call[s].draft = NotRead /\ call[s].result = NoReport
  BY <1>1, <1>2, Local DEF CallOK
<1>4. /\ w.at = "lookup" /\ w.since = call[s].since /\ w.draft = NotRead
      /\ w.merkle = NotRead /\ w.prior = call[s].prior /\ w.result = NoReport
      /\ w \in Locals
  BY <1>2, <1>3, Unreads DEF Locals, Places
<1> HIDE DEF w
<1>5. ReadsInOrder(w, content)
  BY <1>1, <1>4, Local, Unreads DEF CallOK, ReadsInOrder
<1>6. CallOK(s, w, content)
  BY <1>1, <1>4, <1>5, Local DEF CallOK, MerkleWhole, Vouched
<1>7. Becomes(s, w) /\ UNCHANGED <<content, dirty, slot>>
  BY DEF MerkleFails, w
<1>8. QED
  BY <1>1, <1>4, <1>6, <1>7, CallOnly

(* A step of a call that only changes its place, from one after the          *)
(* fingerprint to another one with no promise of its own.                    *)
LEMMA PlaceOnly ==
    ASSUME ScanInv, NEW c \in AllCalls, call[c].at \notin {"idle", "merkle"},
           NEW place \in Places \ {"idle", "merkle"},
           place \in {"decide", "warm"} => call[c].prior # NoReport,
           place \in {"warm", "putPlain"} => c \in Scans \ Overriding,
           place = "warm" => NewEnough(call[c], call[c].prior),
           place = "wait" => c \in Analyses,
           place = "deliver" => \A p \in Pkgs : call[c].draft[p] # Unread
    PROVE  /\ [call[c] EXCEPT !.at = place] \in Locals
           /\ CallOK(c, [call[c] EXCEPT !.at = place], content)
<1> DEFINE w == [call[c] EXCEPT !.at = place]
<1>1. /\ w.at = place /\ w.since = call[c].since /\ w.draft = call[c].draft
      /\ w.merkle = call[c].merkle /\ w.prior = call[c].prior /\ w.result = call[c].result
      /\ w \in Locals
  BY Local DEF Locals
<1> HIDE DEF w
<1>2. ReadsInOrder(w, content) /\ MerkleWhole(w)
  BY <1>1, Local DEF CallOK, ReadsInOrder, MerkleWhole
<1>3. CallOK(c, w, content)
  BY <1>1, <1>2, Local DEF CallOK, NewEnough
<1>4. QED
  BY <1>1, <1>3 DEF w

LEMMA LookupOK ==
    ASSUME ScanInv, NEW s \in Scans, Lookup(s)
    PROVE  ScanInv'
<1> DEFINE found == slot[ScannerOf(s)]
           w == [call[s] EXCEPT !.prior = found,
                                !.at = IF found = NoReport THEN "scan" ELSE "decide"]
<1>1. s \in AllCalls /\ ScannerOf(s) \in Keys
  BY Members
<1>2. call[s] \in Locals /\ call[s].at = "lookup"
  BY <1>1, Local DEF Lookup, At
<1>3. /\ found \in Reports \cup {NoReport}
      /\ Vouched(found, content)
      /\ found # NoReport => found.scanner = ScannerOf(s)
  BY <1>1, Members DEF ScanInv, TypeOK, SlotsOK
<1>4. /\ w.at \in {"scan", "decide"} /\ (w.at = "decide" => w.prior # NoReport)
      /\ w.since = call[s].since /\ w.draft = call[s].draft
      /\ w.merkle = call[s].merkle /\ w.prior = found /\ w.result = call[s].result
      /\ w \in Locals
  BY <1>2, <1>3 DEF Locals, Places
<1> HIDE DEF w, found
<1>5. ReadsInOrder(w, content) /\ MerkleWhole(w)
  BY <1>1, <1>2, <1>4, Local DEF CallOK, ReadsInOrder, MerkleWhole
<1>6. CallOK(s, w, content)
  BY <1>1, <1>3, <1>4, <1>5, Local DEF CallOK, NewEnough
<1>7. Becomes(s, w) /\ UNCHANGED <<content, dirty, slot>>
  BY DEF Lookup, w, found
<1>8. QED
  BY <1>1, <1>4, <1>6, <1>7, CallOnly

(* A report whose leaves match the fingerprint shows every package as it was *)
(* since the call began.                                                     *)
LEMMA MatchVouches ==
    ASSUME ScanInv, NEW c \in AllCalls, call[c].at = "decide", Changed(c) = {}
    PROVE  NewEnough(call[c], call[c].prior)
<1> DEFINE w == call[c]
<1> SUFFICES ASSUME ~Reverting, Stamped(w.prior), w.merkle # NotRead, NEW p \in Pkgs
             PROVE  w.since[p] <= w.prior.model[p]
  BY DEF NewEnough
<1>1. w \in Locals /\ CallOK(c, w, content) /\ w.prior \in Reports
  BY Local DEF CallOK, Locals
<1>2. w.prior.leaves[p] = w.merkle[p]
  BY DEF Changed, Differ, Leaf
<1>3. w.merkle[p] # Unread
  BY <1>1 DEF CallOK, MerkleWhole
<1>4. w.since[p] <= w.merkle[p]
  BY <1>1, <1>3 DEF CallOK, ReadsInOrder
<1>5. w.merkle[p] <= w.prior.model[p]
  BY <1>1, <1>2 DEF CallOK, Vouched
<1>6. w.since[p] \in Int /\ w.merkle[p] \in Int /\ w.prior.model[p] \in Int
  BY <1>1, Unreads DEF Locals, Reports, Partial, Tree, Versions
<1>7. QED
  BY <1>4, <1>5, <1>6

LEMMA HitOK ==
    ASSUME ScanInv, NEW s \in Scans, Hit(s)
    PROVE  ScanInv'
<1> DEFINE r == call[s].prior
           new == IF DefaultScanner(s) /\ slot["plain"] = NoReport
                  THEN [call[s] EXCEPT !.at = "warm"] ELSE Returning(s, r)
<1>1. s \in AllCalls /\ call[s] \in Locals /\ call[s].at = "decide" /\ Changed(s) = {}
  BY Members, Local DEF Hit, At, Moved
<1>2. /\ r \in Reports \cup {NoReport} /\ r # NoReport /\ Vouched(r, content)
      /\ NewEnough(call[s], r) /\ r.scanner = ScannerOf(s)
  BY <1>1, Local, MatchVouches DEF Locals, CallOK
<1>3. CASE DefaultScanner(s) /\ slot["plain"] = NoReport
  <2>1. [call[s] EXCEPT !.at = "warm"] \in Locals
        /\ CallOK(s, [call[s] EXCEPT !.at = "warm"], content)
    BY <1>1, <1>2, <1>3, PlaceOnly DEF Places, DefaultScanner
  <2>2. Becomes(s, [call[s] EXCEPT !.at = "warm"]) /\ UNCHANGED <<content, dirty, slot>>
    BY <1>3 DEF Hit, Goto
  <2>3. QED
    BY <1>1, <2>1, <2>2, CallOnly
<1>4. CASE ~(DefaultScanner(s) /\ slot["plain"] = NoReport)
  <2>1. Returning(s, r) \in Locals /\ CallOK(s, Returning(s, r), content)
    BY <1>1, <1>2, Given
  <2>2. Becomes(s, Returning(s, r)) /\ UNCHANGED <<content, dirty, slot>>
    BY <1>4 DEF Hit, GiveBack
  <2>3. QED
    BY <1>1, <2>1, <2>2, CallOnly
<1>5. QED
  BY <1>3, <1>4

LEMMA WarmPlainOK ==
    ASSUME ScanInv, NEW s \in Scans, WarmPlain(s)
    PROVE  ScanInv'
<1> DEFINE r == call[s].prior
<1>1. s \in AllCalls /\ call[s] \in Locals /\ call[s].at = "warm" /\ CallOK(s, call[s], content)
  BY Members, Local DEF WarmPlain, At
<1>2. /\ r \in Reports \cup {NoReport} /\ Vouched(r, content) /\ NewEnough(call[s], r)
      /\ r # NoReport => r.scanner = ScannerOf(s)
      /\ ScannerOf(s) = SlotScanner("plain")
  BY <1>1, Members DEF Locals, CallOK
<1>3. Returning(s, r) \in Locals /\ CallOK(s, Returning(s, r), content)
  BY <1>1, <1>2, Given
<1>4. slot' \in [Keys -> Reports \cup {NoReport}] /\ SlotsOK'
  BY <1>2, Members, PutOK DEF WarmPlain
<1>5. Becomes(s, Returning(s, r)) /\ content' = content /\ dirty' \in BOOLEAN
  BY DEF WarmPlain, GiveBack, ScanInv, TypeOK
<1>6. QED
  BY <1>1, <1>3, <1>4, <1>5, CallAndSlots

LEMMA RescanAllOK ==
    ASSUME ScanInv, NEW s \in Scans, RescanAll(s)
    PROVE  ScanInv'
<1> DEFINE w == [call[s] EXCEPT !.at = "scan", !.prior = NoReport]
<1>1. s \in AllCalls /\ call[s] \in Locals /\ call[s].at = "decide"
  BY Members, Local DEF RescanAll, At
<1>2. /\ w.at = "scan" /\ w.since = call[s].since /\ w.draft = call[s].draft
      /\ w.merkle = call[s].merkle /\ w.prior = NoReport /\ w.result = call[s].result
      /\ w \in Locals
  BY <1>1 DEF Locals, Places
<1> HIDE DEF w
<1>3. ReadsInOrder(w, content) /\ MerkleWhole(w)
  BY <1>1, <1>2, Local DEF CallOK, ReadsInOrder, MerkleWhole
<1>4. CallOK(s, w, content)
  BY <1>1, <1>2, <1>3, Local DEF CallOK, NewEnough, Vouched
<1>5. Becomes(s, w) /\ UNCHANGED <<content, dirty, slot>>
  BY DEF RescanAll, w
<1>6. QED
  BY <1>1, <1>2, <1>4, <1>5, CallOnly

(* What a merge takes over from the cached report was read after the leaf    *)
(* that still matches.                                                       *)
LEMMA RescanChangedOK ==
    ASSUME ScanInv, NEW s \in Scans, RescanChanged(s)
    PROVE  ScanInv'
<1> DEFINE kept == [p \in Pkgs |-> IF p \in Changed(s) THEN Unread ELSE call[s].prior.model[p]]
           w == [call[s] EXCEPT !.at = "scan", !.prior = NoReport, !.draft = kept]
<1>1. s \in AllCalls /\ call[s] \in Locals /\ call[s].at = "decide" /\ Changed(s) # {}
  BY Members, Local DEF RescanChanged, At
<1>2. /\ CallOK(s, call[s], content)
      /\ call[s].prior \in Reports /\ call[s].prior # NoReport
  BY <1>1, Local DEF CallOK, Locals
<1>3. call[s].merkle # NotRead
      /\ Changed(s) = Differ(call[s].prior.leaves, call[s].merkle)
  BY <1>1 DEF Changed
<1>4. kept \in Partial
  BY <1>2 DEF Reports, Tree, Partial, Versions
<1>5. /\ w.at = "scan" /\ w.since = call[s].since /\ w.draft = kept
      /\ w.merkle = call[s].merkle /\ w.prior = NoReport /\ w.result = call[s].result
      /\ w \in Locals
  BY <1>1, <1>4 DEF Locals, Places
<1>6. ASSUME NEW p \in Pkgs
      PROVE  /\ kept[p] <= content[p]
             /\ kept[p] # Unread =>
                  Reverting \/ (call[s].since[p] <= kept[p] /\ call[s].merkle[p] <= kept[p])
  <2>1. CASE p \in Changed(s)
    BY <2>1, <1>1, Local, Unreads
  <2>2. CASE p \notin Changed(s)
    <3>1. kept[p] = call[s].prior.model[p] /\ kept[p] <= content[p]
      BY <2>2, <1>2 DEF CallOK, Vouched
    <3>2. ASSUME ~Reverting
          PROVE  call[s].since[p] <= kept[p] /\ call[s].merkle[p] <= kept[p]
      <4>1. call[s].prior.leaves[p] = call[s].merkle[p]
        BY <2>2, <1>3, <3>2 DEF Differ, Leaf
      <4>2. call[s].merkle[p] # Unread
        BY <1>1, <1>2, <1>3 DEF CallOK, MerkleWhole
      <4>3. call[s].since[p] <= call[s].merkle[p] /\ call[s].merkle[p] <= kept[p]
        BY <1>2, <3>1, <3>2, <4>1, <4>2 DEF CallOK, ReadsInOrder, Vouched
      <4>4. call[s].since[p] \in Int /\ call[s].merkle[p] \in Int /\ kept[p] \in Int
        BY <1>1, <1>4, Unreads DEF Locals, Partial, Versions
      <4>5. QED
        BY <4>3, <4>4
    <3>3. QED
      BY <3>1, <3>2
  <2>3. QED
    BY <2>1, <2>2
<1> HIDE DEF w, kept
<1>7. ReadsInOrder(w, content)
  BY <1>2, <1>5, <1>6 DEF CallOK, ReadsInOrder
<1>8. CallOK(s, w, content)
  BY <1>1, <1>2, <1>5, <1>7 DEF CallOK, MerkleWhole, NewEnough, Vouched
<1>9. Becomes(s, w) /\ UNCHANGED <<content, dirty, slot>>
  BY DEF RescanChanged, w, kept
<1>10. QED
  BY <1>1, <1>5, <1>8, <1>9, CallOnly

LEMMA ReadPackageOK ==
    ASSUME ScanInv, NEW c \in AllCalls, NEW p \in Pkgs, ReadPackage(c, p)
    PROVE  ScanInv'
<1> DEFINE w == [call[c] EXCEPT !.draft[p] = content[p]]
<1>1. call[c] \in Locals /\ call[c].at = "scan" /\ CallOK(c, call[c], content)
  BY Local DEF ReadPackage, At
<1>2. /\ w.at = "scan" /\ w.since = call[c].since
      /\ w.draft = [call[c].draft EXCEPT ![p] = content[p]]
      /\ w.merkle = call[c].merkle /\ w.prior = call[c].prior /\ w.result = call[c].result
      /\ w \in Locals
  BY <1>1, Local DEF Locals, Partial, Versions
<1> HIDE DEF w
<1>3. ReadsInOrder(w, content)
  <2> SUFFICES ASSUME NEW q \in Pkgs
               PROVE  /\ w.since[q] <= content[q] /\ w.draft[q] <= content[q]
                      /\ w.merkle[q] # Unread =>
                           w.since[q] <= w.merkle[q] /\ w.merkle[q] <= content[q]
                      /\ w.draft[q] # Unread =>
                           Reverting \/ (w.since[q] <= w.draft[q] /\ w.merkle[q] <= w.draft[q])
    BY DEF ReadsInOrder
  <2>1. CASE q = p
    <3>1. w.draft[q] = content[q] /\ content[q] \in Nat
      BY <2>1, <1>1, <1>2, Local DEF Locals, Partial
    <3>2. w.merkle[q] <= content[q]
      BY <1>1, <1>2, Local, Unreads DEF CallOK, ReadsInOrder
    <3>3. QED
      BY <1>1, <1>2, <3>1, <3>2 DEF CallOK, ReadsInOrder
  <2>2. CASE q # p
    <3>1. w.draft[q] = call[c].draft[q]
      BY <2>2, <1>1, <1>2 DEF Locals, Partial
    <3>2. QED
      BY <1>1, <1>2, <3>1 DEF CallOK, ReadsInOrder
  <2>3. QED
    BY <2>1, <2>2
<1>4. CallOK(c, w, content)
  BY <1>1, <1>2, <1>3 DEF CallOK, MerkleWhole, NewEnough
<1>5. Becomes(c, w) /\ UNCHANGED <<content, dirty, slot>>
  BY DEF ReadPackage, w
<1>6. QED
  BY <1>2, <1>4, <1>5, CallOnly

(* Nothing is promised of no report.                                         *)
LEMMA GiveNothing ==
    ASSUME ScanInv, NEW c \in AllCalls, call[c].at \notin {"idle", "merkle"},
           GiveBack(c, NoReport), UNCHANGED <<content, dirty, slot>>
    PROVE  ScanInv'
<1>1. Returning(c, NoReport) \in Locals /\ CallOK(c, Returning(c, NoReport), content)
  BY Given DEF Vouched
<1>2. QED
  BY <1>1, CallOnly DEF GiveBack

LEMMA ScanFailsOK ==
    ASSUME ScanInv, NEW s \in Scans, ScanFails(s)
    PROVE  ScanInv'
BY Members, GiveNothing DEF ScanFails, At

(* The report of a finished scan vouches for what it shows.                  *)
LEMMA DoneReport ==
    ASSUME ScanInv, NEW s \in Scans, ScanDone(s)
    PROVE  /\ ReportOf(s) \in Reports
           /\ Vouched(ReportOf(s), content)
           /\ NewEnough(call[s], ReportOf(s))
           /\ ReportOf(s).scanner = ScannerOf(s)
<1> DEFINE w == call[s]
           r == ReportOf(s)
<1>1. /\ s \in AllCalls /\ w \in Locals /\ CallOK(s, w, content) /\ w.at = "scan"
      /\ \A p \in Pkgs : w.draft[p] # Unread
  BY Members, Local DEF ScanDone, At
<1>2. r.model = w.draft /\ r.leaves = w.merkle /\ r.scanner = ScannerOf(s)
  BY DEF ReportOf, Stamp
<1>3. w.draft \in Tree /\ w.merkle \in Partial /\ ScannerOf(s) \in {"auto", "mono"}
  BY <1>1 DEF Locals, Partial, Tree, ScannerOf
<1>4. r \in Reports
  BY <1>3 DEF ReportOf, Stamp, Reports
<1>5. \A p \in Pkgs :
        /\ w.draft[p] <= content[p]
        /\ Reverting \/ (w.since[p] <= w.draft[p] /\ w.merkle[p] <= w.draft[p])
  BY <1>1 DEF CallOK, ReadsInOrder
<1>6. QED
  BY <1>2, <1>4, <1>5 DEF Vouched, NewEnough

LEMMA PutOwnOK ==
    ASSUME ScanInv, NEW s \in Scans, PutOwn(s)
    PROVE  ScanInv'
<1> DEFINE r == ReportOf(s)
           w == [call[s] EXCEPT !.result = r,
                                !.at = IF DefaultScanner(s) THEN "putPlain" ELSE "clear"]
<1>1. s \in AllCalls /\ call[s] \in Locals /\ call[s].at = "scan" /\ CallOK(s, call[s], content)
  BY Members, Local DEF PutOwn, ScanDone, At
<1>2. /\ r \in Reports /\ Vouched(r, content) /\ NewEnough(call[s], r)
      /\ r.scanner = ScannerOf(s)
  BY DoneReport DEF PutOwn
<1>3. /\ w.at = IF DefaultScanner(s) THEN "putPlain" ELSE "clear"
      /\ w.since = call[s].since /\ w.draft = call[s].draft
      /\ w.merkle = call[s].merkle /\ w.prior = call[s].prior /\ w.result = r
      /\ w \in Locals
  BY <1>1, <1>2 DEF Locals, Places
<1> HIDE DEF w, r
<1>4. ReadsInOrder(w, content) /\ MerkleWhole(w)
  BY <1>1, <1>3 DEF CallOK, ReadsInOrder, MerkleWhole
<1>5. CallOK(s, w, content)
  BY <1>1, <1>2, <1>3, <1>4 DEF CallOK, NewEnough, DefaultScanner
<1>6. ScannerOf(s) \in Keys /\ SlotScanner(ScannerOf(s)) = ScannerOf(s)
  BY <1>1, Members
<1>7. PutReport(ScannerOf(s), r) /\ Becomes(s, w) /\ UNCHANGED <<content, dirty>>
  BY DEF PutOwn, w, r
<1>8. slot' \in [Keys -> Reports \cup {NoReport}] /\ SlotsOK'
  BY <1>2, <1>6, <1>7, PutOK
<1>9. dirty' \in BOOLEAN
  BY <1>7 DEF ScanInv, TypeOK
<1>10. QED
  BY <1>1, <1>3, <1>5, <1>7, <1>8, <1>9, CallAndSlots

LEMMA PutPlainOK ==
    ASSUME ScanInv, NEW s \in Scans, PutPlain(s)
    PROVE  ScanInv'
<1> DEFINE r == call[s].result
           w == [call[s] EXCEPT !.at = "clear"]
<1>1. s \in AllCalls /\ call[s] \in Locals /\ call[s].at = "putPlain" /\ CallOK(s, call[s], content)
  BY Members, Local DEF PutPlain, At
<1>2. /\ r \in Reports \cup {NoReport} /\ Vouched(r, content)
      /\ r # NoReport => r.scanner = SlotScanner("plain")
  BY <1>1, Members DEF Locals, CallOK
<1>3. w \in Locals /\ CallOK(s, w, content)
  BY <1>1, PlaceOnly DEF Places
<1>4. slot' \in [Keys -> Reports \cup {NoReport}] /\ SlotsOK'
  BY <1>2, Members, PutOK DEF PutPlain
<1>5. Becomes(s, w) /\ content' = content /\ dirty' \in BOOLEAN
  BY DEF PutPlain, Goto, ScanInv, TypeOK
<1> HIDE DEF w
<1>6. QED
  BY <1>1, <1>3, <1>4, <1>5, CallAndSlots

LEMMA ClearDirtyOK ==
    ASSUME ScanInv, NEW s \in Scans, ClearDirty(s)
    PROVE  ScanInv'
<1> DEFINE r == call[s].result
<1>1. s \in AllCalls /\ call[s] \in Locals /\ call[s].at = "clear" /\ CallOK(s, call[s], content)
  BY Members, Local DEF ClearDirty, At
<1>2. /\ r \in Reports \cup {NoReport} /\ Vouched(r, content)
      /\ r # NoReport => NewEnough(call[s], r) /\ r.scanner = ScannerOf(s)
  BY <1>1 DEF Locals, CallOK
<1>3. Returning(s, r) \in Locals /\ CallOK(s, Returning(s, r), content)
  BY <1>1, <1>2, Given
<1>4. slot' \in [Keys -> Reports \cup {NoReport}] /\ SlotsOK'
  BY DEF ClearDirty, ScanInv, TypeOK, SlotsOK
<1>5. Becomes(s, Returning(s, r)) /\ content' = content /\ dirty' \in BOOLEAN
  BY DEF ClearDirty, GiveBack
<1>6. QED
  BY <1>1, <1>3, <1>4, <1>5, CallAndSlots

------------------------------------------------------------------------------
(* getOrScan and the shared scan.                                          *)

LEMMA GetOrScanOK ==
    ASSUME ScanInv, NEW a \in Analyses, GetOrScan(a)
    PROVE  ScanInv'
<1> DEFINE w == [Idle EXCEPT !.at = "probe"]
<1>1. a \in AllCalls /\ CallOK(a, Idle, content)
  BY Members, Local, IdleOK
<1>2. /\ w.at = "probe" /\ w.since = NotRead /\ w.merkle = NotRead /\ w.draft = NotRead
      /\ w.prior = NoReport /\ w.result = NoReport /\ w \in Locals
  BY Unreads DEF Idle, Locals, Places
<1> HIDE DEF w
<1>3. ReadsInOrder(w, content)
  BY <1>1, <1>2, Local, Unreads DEF ReadsInOrder
<1>4. CallOK(a, w, content)
  BY <1>2, <1>3 DEF CallOK, MerkleWhole, Vouched
<1>5. Becomes(a, w) /\ UNCHANGED <<content, dirty, slot>>
  BY DEF GetOrScan, w
<1>6. QED
  BY <1>1, <1>2, <1>4, <1>5, CallOnly

LEMMA ProbeHitOK ==
    ASSUME ScanInv, NEW a \in Analyses, ProbeHit(a)
    PROVE  ScanInv'
<1>1. a \in AllCalls /\ a \notin Scans /\ call[a].at = "probe" /\ ScannerOf(a) = "auto"
  BY Members DEF ProbeHit, At
<1>2. PICK k \in {"plain", "auto"} : GiveBack(a, slot[k])
  BY DEF ProbeHit
<1>3. /\ slot[k] \in Reports \cup {NoReport} /\ Vouched(slot[k], content)
      /\ slot[k] # NoReport => slot[k].scanner = "auto"
  BY Members DEF ScanInv, TypeOK, SlotsOK
<1>4. NewEnough(call[a], slot[k])
  BY <1>1, Local DEF CallOK, NewEnough
<1>5. Returning(a, slot[k]) \in Locals /\ CallOK(a, Returning(a, slot[k]), content)
  BY <1>1, <1>3, <1>4, Given
<1>6. QED
  BY <1>1, <1>2, <1>5, CallOnly DEF ProbeHit, GiveBack

LEMMA StopWaitingOK ==
    ASSUME ScanInv, NEW a \in Analyses, StopWaiting(a)
    PROVE  ScanInv'
BY Members, GiveNothing DEF StopWaiting, At

(* A step that changes only the calls, several of them.                      *)
LEMMA CallsOnly ==
    ASSUME ScanInv, UNCHANGED <<content, dirty, slot>>,
           call' \in [AllCalls -> Locals], \A c \in AllCalls : CallOK(c, call'[c], content)
    PROVE  ScanInv'
BY DEF ScanInv, TypeOK, SlotsOK

LEMMA ProbeMissOK ==
    ASSUME ScanInv, NEW a \in Analyses, ProbeMiss(a)
    PROVE  ScanInv'
<1> DEFINE mine == [call[a] EXCEPT !.at = "wait"]
           shared == [call[SharedScan] EXCEPT !.at = IF @ = "idle" THEN "scan" ELSE @]
<1>1. a \in AllCalls /\ SharedScan \in AllCalls /\ a # SharedScan /\ call[a].at = "probe"
  BY Members DEF ProbeMiss, At, Calls
<1>2. mine \in Locals /\ CallOK(a, mine, content)
  BY <1>1, PlaceOnly DEF Places
<1>3. shared \in Locals /\ CallOK(SharedScan, shared, content)
  <2>1. CASE call[SharedScan].at # "idle"
    <3>1. shared = call[SharedScan]
      BY <2>1, <1>1, Local DEF Locals
    <3>2. QED
      BY <3>1, <1>1, Local
  <2>2. CASE call[SharedScan].at = "idle"
    <3>1. /\ shared.at = "scan" /\ shared.since = call[SharedScan].since
          /\ shared.draft = call[SharedScan].draft /\ shared.merkle = call[SharedScan].merkle
          /\ shared.prior = call[SharedScan].prior /\ shared.result = call[SharedScan].result
          /\ shared \in Locals
      BY <2>2, <1>1, Local DEF Locals, Places
    <3> HIDE DEF shared
    <3>2. shared.merkle = NotRead
      BY <3>1, <1>1, Local, Members DEF CallOK, Calls
    <3>3. ReadsInOrder(shared, content) /\ MerkleWhole(shared)
      BY <3>1, <3>2, <1>1, Local DEF CallOK, ReadsInOrder, MerkleWhole
    <3>4. CallOK(SharedScan, shared, content)
      BY <3>1, <3>2, <3>3, <1>1, Local DEF CallOK, NewEnough
    <3>5. QED
      BY <3>1, <3>4
  <2>3. QED
    BY <2>1, <2>2
<1>4. /\ call' \in [AllCalls -> Locals]
      /\ \A c \in AllCalls :
           call'[c] = IF c = a THEN mine ELSE IF c = SharedScan THEN shared ELSE call[c]
  BY <1>1, <1>2, <1>3, Local DEF ProbeMiss, ScanInv, TypeOK
<1> HIDE DEF mine, shared
<1>5. \A c \in AllCalls : CallOK(c, call'[c], content)
  BY <1>2, <1>3, <1>4, Local
<1>6. QED
  BY <1>4, <1>5, CallsOnly DEF ProbeMiss

(* The report of the shared scan shows packages of the tree.                 *)
LEMMA SharedReportOK ==
    ASSUME ScanInv, \A p \in Pkgs : call[SharedScan].draft[p] # Unread
    PROVE  /\ SharedReport \in Reports /\ Vouched(SharedReport, content)
           /\ SharedReport.scanner = "auto"
           /\ ~Stamped(SharedReport)
<1> DEFINE d == call[SharedScan].draft
<1>1. SharedScan \in AllCalls /\ call[SharedScan] \in Locals /\ ReadsInOrder(call[SharedScan], content)
  BY Members, Local DEF CallOK
<1>2. d \in Tree
  BY <1>1 DEF Locals, Partial, Tree
<1>3. SharedReport \in Reports
  BY <1>2, Unreads DEF SharedReport, Reports
<1>4. \A p \in Pkgs : NotRead[p] <= d[p] /\ d[p] <= content[p]
  BY <1>1, <1>2, Unreads DEF ReadsInOrder, Tree, Versions
<1>5. QED
  BY <1>3, <1>4 DEF SharedReport, Vouched, Stamped

LEMMA SharedStoreOK ==
    ASSUME ScanInv, SharedStore
    PROVE  ScanInv'
<1> DEFINE w == [call[SharedScan] EXCEPT !.at = "deliver"]
<1>1. /\ SharedScan \in AllCalls /\ call[SharedScan].at = "scan"
      /\ \A p \in Pkgs : call[SharedScan].draft[p] # Unread
  BY Members DEF SharedStore, ScanDone, At
<1>2. w \in Locals /\ CallOK(SharedScan, w, content)
  BY <1>1, PlaceOnly DEF Places
<1>3. slot' \in [Keys -> Reports \cup {NoReport}] /\ SlotsOK'
  BY <1>1, SharedReportOK, Members, PutOK DEF SharedStore
<1>4. Becomes(SharedScan, w) /\ content' = content /\ dirty' \in BOOLEAN
  BY DEF SharedStore, Goto, ScanInv, TypeOK
<1> HIDE DEF w
<1>5. QED
  BY <1>1, <1>2, <1>3, <1>4, CallAndSlots

LEMMA SharedEndsOK ==
    ASSUME ScanInv, NEW r \in Reports \cup {NoReport}, Vouched(r, content),
           r # NoReport => ~Stamped(r) /\ r.scanner = "auto", SharedEnds(r)
    PROVE  ScanInv'
<1>1. Idle \in Locals /\ CallOK(SharedScan, Idle, content)
  BY Members, Local, IdleOK
<1>2. ASSUME NEW c \in AllCalls, At(c, "wait")
      PROVE  Returning(c, r) \in Locals /\ CallOK(c, Returning(c, r), content)
  <2>1. c \in Analyses
    BY <1>2, Local DEF CallOK, At
  <2>2. ScannerOf(c) = "auto"
    BY <2>1, Members
  <2>3. r # NoReport => NewEnough(call[c], r) /\ r.scanner = ScannerOf(c)
    BY <2>2 DEF NewEnough
  <2>4. QED
    BY <1>2, <2>3, Given DEF At
<1>3. ASSUME NEW c \in AllCalls
      PROVE  call'[c] \in Locals /\ CallOK(c, call'[c], content)
  <2>1. call'[c] = IF c = SharedScan THEN Idle
                   ELSE IF At(c, "wait") THEN Returning(c, r) ELSE call[c]
    BY DEF SharedEnds
  <2>2. QED
    BY <1>1, <1>2, <2>1, Local
<1>4. call' \in [AllCalls -> Locals]
  BY <1>3 DEF SharedEnds
<1>5. QED
  BY <1>3, <1>4, CallsOnly DEF SharedEnds

LEMMA SharedDeliverOK ==
    ASSUME ScanInv, SharedDeliver
    PROVE  ScanInv'
<1>1. \A p \in Pkgs : call[SharedScan].draft[p] # Unread
  BY Members, Local DEF SharedDeliver, At, CallOK
<1>2. QED
  BY <1>1, SharedReportOK, SharedEndsOK DEF SharedDeliver

LEMMA SharedFailsOK ==
    ASSUME ScanInv, SharedFails
    PROVE  ScanInv'
BY SharedEndsOK DEF SharedFails, Vouched

------------------------------------------------------------------------------
(* The working tree and the process.                                       *)

LEMMA EditOK ==
    ASSUME ScanInv, NEW p \in Pkgs, Edit(p)
    PROVE  ScanInv'
<1>1. content \in Tree /\ content' = [content EXCEPT ![p] = content[p] + 1]
  BY DEF Edit, ScanInv, TypeOK
<1>2. content' \in Tree /\ \A q \in Pkgs : content[q] <= content'[q]
  BY <1>1 DEF Tree, Versions
<1>3. \A c \in AllCalls : CallOK(c, call[c], content')
  BY <1>1, <1>2, Local, LaterTree
<1>4. ASSUME NEW k \in Keys
      PROVE  Vouched(slot[k], content')
  <2> SUFFICES ASSUME slot[k] # NoReport, NEW q \in Pkgs
               PROVE  /\ Reverting \/ slot[k].leaves[q] <= slot[k].model[q]
                      /\ slot[k].model[q] <= content'[q]
    BY DEF Vouched
  <2>1. slot[k] \in Reports /\ Vouched(slot[k], content)
    BY DEF ScanInv, TypeOK, SlotsOK
  <2>2. slot[k].model[q] \in Nat /\ content[q] \in Nat /\ content'[q] \in Nat
    BY <1>1, <1>2, <2>1 DEF Reports, Tree, Versions
  <2>3. QED
    BY <1>2, <2>1, <2>2 DEF Vouched
<1>5. QED
  BY <1>2, <1>3, <1>4 DEF Edit, ScanInv, TypeOK, SlotsOK

LEMMA MarkDirtyOK ==
    ASSUME ScanInv, MarkDirty
    PROVE  ScanInv'
BY DEF MarkDirty, ScanInv, TypeOK, SlotsOK

LEMMA RestartOK ==
    ASSUME ScanInv, Restart
    PROVE  ScanInv'
<1>1. \A c \in AllCalls : Idle \in Locals /\ CallOK(c, Idle, content)
  BY Local, IdleOK
<1>2. call' = [c \in AllCalls |-> Idle] /\ dirty' \in BOOLEAN /\ UNCHANGED <<content, slot>>
  BY DEF Restart
<1>3. call' \in [AllCalls -> Locals] /\ \A c \in AllCalls : CallOK(c, call'[c], content)
  BY <1>1, <1>2
<1>4. SlotsOK'
  BY <1>2 DEF ScanInv, SlotsOK
<1>5. QED
  BY <1>2, <1>3, <1>4 DEF ScanInv, TypeOK

------------------------------------------------------------------------------

(* ScanInv holds in every state: whatever is edited, marked, restarted or    *)
(* lost, no report shows text from the future or claims to be newer than it  *)
(* is, and no call uses one that was made for another scanner.               *)
THEOREM ScansInvariant == Spec => []ScanInv
<1>1. Init => ScanInv
  <2> SUFFICES ASSUME Init PROVE ScanInv
    OBVIOUS
  <2>1. content \in Tree
    BY DEF Init, Tree, Versions
  <2>2. \A c \in AllCalls : Idle \in Locals /\ CallOK(c, Idle, content)
    BY <2>1, IdleOK
  <2>3. SlotsOK
    BY DEF Init, SlotsOK, Vouched
  <2>4. QED
    BY <2>1, <2>2, <2>3 DEF Init, ScanInv, TypeOK
<1>2. ScanInv /\ [Next]_vars => ScanInv'
  <2> SUFFICES ASSUME ScanInv, [Next]_vars PROVE ScanInv'
    OBVIOUS
  <2>1. ASSUME NEW s \in Scans, ScanStep(s) PROVE ScanInv'
    BY <2>1, ScanProjectOK, ReadLeafOK, MerkleFailsOK, LookupOK, HitOK, WarmPlainOK,
       RescanAllOK, RescanChangedOK, ScanFailsOK, PutOwnOK, PutPlainOK, ClearDirtyOK
       DEF ScanStep
  <2>2. ASSUME NEW a \in Analyses, AnalysisStep(a) PROVE ScanInv'
    BY <2>2, GetOrScanOK, ProbeHitOK, ProbeMissOK, StopWaitingOK DEF AnalysisStep
  <2>3. ASSUME NEW c \in Scans \cup {SharedScan}, NEW p \in Pkgs, ReadPackage(c, p)
        PROVE  ScanInv'
    BY <2>3, Members, ReadPackageOK
  <2>4. CASE SharedStore \/ SharedDeliver \/ SharedFails
    BY <2>4, SharedStoreOK, SharedDeliverOK, SharedFailsOK
  <2>5. ASSUME NEW p \in Pkgs, Edit(p) PROVE ScanInv'
    BY <2>5, EditOK
  <2>6. CASE MarkDirty \/ Restart
    BY <2>6, MarkDirtyOK, RestartOK
  <2>7. CASE UNCHANGED vars
    BY <2>7 DEF vars, ScanInv, TypeOK, SlotsOK
  <2>8. QED
    BY <2>1, <2>2, <2>3, <2>4, <2>5, <2>6, <2>7 DEF Next
<1>3. QED
  BY <1>1, <1>2, PTL DEF Spec

(* ScanProject gives back a report that is fresh since it was called, if     *)
(* text does not come back while it is scanned.                              *)
THEOREM ScansAreFresh ==
    ASSUME Reverting = FALSE
    PROVE  Spec => []ScanFresh
<1>1. ScanInv => ScanFresh
  <2> SUFFICES ASSUME ScanInv, NEW s \in Scans,
                      call[s].result # NoReport, Stamped(call[s].result),
                      call[s].merkle # NotRead, NEW p \in Pkgs
               PROVE  \E v \in call[s].since[p]..content[p] :
                        Leaf(call[s].result.model[p]) = Leaf(v)
    BY DEF ScanFresh, Fresh
  <2>1. s \in AllCalls /\ call[s] \in Locals /\ CallOK(s, call[s], content)
    BY Members, Local
  <2>2. call[s].result \in Reports
    BY <2>1 DEF Locals
  <2>3. call[s].since[p] <= call[s].result.model[p]
    BY <2>1 DEF CallOK, NewEnough
  <2>4. call[s].result.model[p] <= content[p]
    BY <2>1 DEF CallOK, Vouched
  <2>5. call[s].result.model[p] \in call[s].since[p]..content[p]
    BY <2>1, <2>2, <2>3, <2>4, Local, Unreads DEF Locals, Reports, Partial, Tree, Versions
  <2>6. QED
    BY <2>5
<1>2. QED
  BY <1>1, ScansInvariant, PTL

(* No call is given a report of another scanner than it asked for.           *)
THEOREM ScannersAreKept == Spec => []ScannerKept
<1>1. ScanInv => ScannerKept
  BY Members, Local DEF ScannerKept, CallOK
<1>2. QED
  BY <1>1, ScansInvariant, PTL

------------------------------------------------------------------------------
(* The queries.                                                              *)

(* The steps of a plan that are left when some of its first are dropped.     *)
LEMMA PlanRest ==
    ASSUME NEW plan \in Seq(Queried!Steps), NEW n \in DOMAIN plan,
           NEW rest, rest = SubSeq(plan, n + 1, Len(plan))
    PROVE  /\ rest \in Seq(Queried!Steps)
           /\ \A i \in DOMAIN rest : i + n \in DOMAIN plan /\ i + n # 1 /\ rest[i] = plan[i + n]
<1> DEFINE S == Queried!Steps
<1> HIDE DEF S
<1>1. plan \in Seq(S) /\ n \in 1 .. Len(plan) /\ Len(plan) \in Nat
  BY DEF S
<1> SUFFICES /\ rest \in Seq(S)
             /\ \A i \in DOMAIN rest : i + n \in DOMAIN plan /\ i + n # 1 /\ rest[i] = plan[i + n]
  BY DEF S
<1>2. rest \in Seq(S) /\ Len(rest) = Len(plan) - n
  BY <1>1
<1>3. \A i \in 1 .. Len(rest) : rest[i] = plan[i + n]
  BY <1>1, <1>2
<1> QED
  BY <1>1, <1>2, <1>3

LEMMA PlanTail ==
    ASSUME NEW plan \in Seq(Queried!Steps), plan # <<>>
    PROVE  1 \in DOMAIN plan /\ Tail(plan) = SubSeq(plan, 1 + 1, Len(plan)) /\ Head(plan) = plan[1]
<1> DEFINE S == Queried!Steps
<1> HIDE DEF S
<1>1. plan \in Seq(S)
  BY DEF S
<1> QED
  BY <1>1

(* Where a step reads, and the project whose tree it shows.                  *)
LEMMA Where ==
    ASSUME NEW q \in Queried!Queries, Queried!PathsFit(q), Queried!Reading(q)
    PROVE  /\ 1 \in DOMAIN q.plan /\ Queried!Step(q) = q.plan[1] /\ Queried!Step(q) \in Queried!Steps
           /\ Queried!Step(q).path \in DOMAIN q.paths /\ 1 \in DOMAIN q.paths
           /\ Queried!KeyOf(q) \in Queried!Paths /\ Queried!Source(q) \in Projects
           /\ ~Queried!IsRaw(Queried!Step(q)) \/ Queried!Path(q) # Empty =>
                /\ Queried!KeyOf(q) = Queried!Source(q)
                /\ Queried!Source(q) = Queried!ResolvePath(q.paths[Queried!Step(q).path])
           /\ Queried!IsRaw(Queried!Step(q)) /\ Queried!Path(q) = Empty =>
                Queried!KeyOf(q) = Empty /\ Queried!Source(q) = Cwd /\ q.paths[1] = Empty
<1>1. q.plan \in Seq(Queried!Steps) /\ q.plan # <<>> /\ q.paths \in Seq(Queried!Paths) /\ q.at = "reading"
  BY DEF Queried!Queries, Queried!Reading
<1>2. 1 \in DOMAIN q.plan /\ Queried!Step(q) = q.plan[1]
  BY <1>1, PlanTail DEF Queried!Step
<1>3. Queried!Step(q) \in Queried!Steps
  <2> DEFINE S == Queried!Steps
  <2> HIDE DEF S
  <2>1. q.plan \in Seq(S)
    BY <1>1 DEF S
  <2>2. q.plan[1] \in S
    BY <2>1, <1>2
  <2> QED
    BY <2>2, <1>2 DEF S
<1>4. Queried!Step(q).path \in DOMAIN q.paths /\ 1 \in DOMAIN q.paths
  BY <1>1, <1>2 DEF Queried!PathsFit
<1>5. /\ Queried!Path(q) \in Queried!Paths
      /\ Queried!Path(q) = q.paths[Queried!Step(q).path]
      /\ Queried!Path(q) = Empty => q.paths[1] = Empty
  BY <1>1, <1>4 DEF Queried!Path, Queried!PathsFit
<1> HIDE DEF Queried!Steps
<1> QED
  BY <1>2, <1>3, <1>4, <1>5, QueryConstants
     DEF SensibleQueries, Queried!KeyOf, Queried!Source, Queried!ResolvePath, Queried!Lies, Queried!Paths

(* What a query may no longer show is dropped without harm.                  *)
LEMMA KeptFits ==
    ASSUME NEW q \in Queried!Queries
    PROVE  /\ Queried!Kept(q) \in Queried!Queries
           /\ \A t, s, f : Queried!QueryOK(q, t, s, f) => Queried!QueryOK(Queried!Kept(q), t, s, f)
           /\ Queried!MayBuild(Queried!Kept(q)) = Queried!MayBuild(q)
           /\ Queried!Source(Queried!Kept(q)) = Queried!Source(q)
<1> DEFINE r == Queried!Kept(q)
<1>1. CASE q.settled \/ q.shares
  BY <1>1 DEF Queried!Kept
<1>2. CASE ~(q.settled \/ q.shares)
  <2>1. r \in Queried!Queries
    BY <1>2 DEF Queried!Kept, Queried!Queries
  <2>2. /\ r.plan = q.plan /\ r.paths = q.paths /\ r.at = q.at /\ r.draft = q.draft
        /\ ~r.settled /\ ~r.shares /\ r.got = {}
    BY <1>2 DEF Queried!Kept, Queried!Queries
  <2> HIDE DEF r
  <2>3. Queried!MayBuild(r) = Queried!MayBuild(q) /\ Queried!Source(r) = Queried!Source(q)
        /\ Queried!Step(r) = Queried!Step(q)
    BY <2>2 DEF Queried!MayBuild, Queried!Reading, Queried!Source, Queried!Step,
       Queried!Path
  <2>4. ASSUME NEW t, NEW s, NEW f, Queried!QueryOK(q, t, s, f) PROVE Queried!QueryOK(r, t, s, f)
    BY <2>2, <2>3, <2>4 DEF Queried!QueryOK, Queried!PathsFit, Queried!InOrder,
       Queried!NothingKeyed,
      Queried!DraftCurrent, Queried!SettledOK, Queried!SharesOK
  <2> QED
    BY <2>1, <2>3, <2>4 DEF r
<1> QED
  BY <1>1, <1>2

(* When steps are dropped from the front of a plan, no scan is left in it.   *)
LEMMA Dropped ==
    ASSUME NEW q \in Queried!Queries, Queried!PathsFit(q), Queried!InOrder(q), q.at = "reading",
           NEW n \in DOMAIN q.plan, NEW r \in Queried!Queries,
           r.plan = SubSeq(q.plan, n + 1, Len(q.plan)), r.paths = q.paths, r.at = "reading",
           r.draft = None
    PROVE  /\ Queried!PathsFit(r) /\ Queried!InOrder(r) /\ ~Queried!MayBuild(r)
<1>1. q.plan \in Seq(Queried!Steps)
  BY DEF Queried!Queries
<1>2. \A i \in DOMAIN r.plan : i + n \in DOMAIN q.plan /\ i + n # 1 /\ r.plan[i] = q.plan[i + n]
  BY <1>1, PlanRest
<1> HIDE DEF Queried!Steps
<1>3. ~Queried!MayBuild(r)
  BY DEF Queried!MayBuild
<1>4. Queried!PathsFit(r)
  BY <1>2 DEF Queried!PathsFit
<1>5. \A i \in DOMAIN r.plan :
        r.plan[i].piece # "scan" /\ (r.plan[i].piece = "keyed" => r.plan[i].path = 1)
  BY <1>2 DEF Queried!InOrder, Queried!PlanInOrder
<1> QED
  BY <1>3, <1>4, <1>5 DEF Queried!InOrder, Queried!PlanInOrder

(* A piece that is read joins the answer (version, of the tree its query is  *)
(* settled on and of the report it shares), and a scan decides what is       *)
(* shared.                                                                   *)
LEMMA Joins ==
    ASSUME NEW q \in Queried!Queries, NEW trees0, NEW slots, NEW phases,
           Queried!PathsFit(q), Queried!InOrder(q), Queried!SettledOK(q, trees0, phases),
           Queried!Step(q).piece = "scan" \/ Queried!SharesOK(q, slots), Queried!Reading(q),
           NEW version \in Nat, NEW stored \in BOOLEAN,
           q.settled => version = trees0[Queried!Source(q)]
                          \/ (Queried!IsRaw(Queried!Step(q)) /\ Queried!Path(q) = Empty),
           q.shares /\ Queried!Step(q).piece = "keyed" => version = q.scanned,
           Queried!Step(q).piece = "scan" /\ stored => slots[Queried!KeyOf(q)]["auto"] = version
    PROVE  LET r == Queried!Scanned(Queried!Step(q), Queried!Got(q, version), version, stored)
           IN  /\ r \in Queried!Queries
               /\ Queried!QueryOK(r, trees0, slots, phases)
               /\ ~Queried!MayBuild(r)
<1> DEFINE step == Queried!Step(q)
           g0 == [piece |-> step.piece, project |-> Queried!Source(q), version |-> version]
           r0 == IF step.piece = "scan"
                 THEN [Queried!Got(q, version) EXCEPT !.scanned = version, !.shares = stored]
                 ELSE Queried!Got(q, version)
           r == Queried!Scanned(step, Queried!Got(q, version), version, stored)
<1>1. /\ Queried!PathsFit(q) /\ Queried!InOrder(q) /\ Queried!SettledOK(q, trees0, phases)
      /\ step.piece = "scan" \/ Queried!SharesOK(q, slots)
  OBVIOUS
<1>2. /\ q.at = "reading" /\ q.plan \in Seq(Queried!Steps) /\ q.plan # <<>>
      /\ q.paths \in Seq(Queried!Paths)
  BY DEF Queried!Reading, Queried!Queries
<1>3. 1 \in DOMAIN q.plan /\ Tail(q.plan) = SubSeq(q.plan, 1 + 1, Len(q.plan)) /\ step = q.plan[1]
  BY <1>2, PlanTail DEF Queried!Step
<1>4. Tail(q.plan) \in Seq(Queried!Steps)
  BY <1>2, <1>3, PlanRest
<1>5. step \in Queried!Steps /\ step.piece \in Queried!Pieces
  BY <1>1, Where DEF Queried!Steps
<1>6. g0 \in Queried!Read
  BY <1>1, <1>5, Where DEF Queried!Read
<1>7. /\ r0.at = "reading" /\ r0.plan = Tail(q.plan) /\ r0.paths = q.paths /\ r0.draft = None
      /\ r0.got = q.got \cup {g0} /\ r0.settled = q.settled
      /\ r0.scanned = IF step.piece = "scan" THEN version ELSE q.scanned
      /\ r0.shares = IF step.piece = "scan" THEN stored ELSE q.shares
  BY <1>2 DEF Queried!Got, Queried!Queries
<1>8. r0 \in Queried!Queries
  <2> HIDE DEF Queried!Steps, Queried!Read, Queried!Paths
  <2>1. Queried!Got(q, version) \in Queried!Queries
    BY <1>4, <1>6 DEF Queried!Got, Queried!Queries, Queried!Versions
  <2> QED
    BY <2>1 DEF Queried!Queries, Queried!Versions
<1>9. r = Queried!Kept(r0)
  BY DEF Queried!Scanned
<1> HIDE DEF r, r0
<1>10. Queried!PathsFit(r0) /\ Queried!InOrder(r0) /\ ~Queried!MayBuild(r0)
  BY <1>1, <1>2, <1>3, <1>7, <1>8, Dropped
<1>11. Queried!SettledOK(r0, trees0, phases)
  <2> SUFFICES ASSUME q.settled
               PROVE  /\ \A i \in DOMAIN q.paths : phases[Queried!ResolvePath(q.paths[i])] = "settled"
                      /\ \A g \in q.got \cup {g0} : Queried!ShowsTree(r0, g, trees0)
    BY <1>7 DEF Queried!SettledOK
  <2>1. \A g \in q.got : Queried!ShowsTree(r0, g, trees0)
    BY <1>1, <1>7 DEF Queried!SettledOK, Queried!ShowsTree
  <2>2. Queried!ShowsTree(r0, g0, trees0)
    <3>1. CASE Queried!IsRaw(step) /\ Queried!Path(q) = Empty
      BY <3>1, <1>1, <1>7, Where DEF Queried!ShowsTree, Queried!IsRaw
    <3>2. CASE ~(Queried!IsRaw(step) /\ Queried!Path(q) = Empty)
      BY <3>2, <1>1, <1>7, Where DEF Queried!ShowsTree
    <3> QED
      BY <3>1, <3>2
  <2> QED
    BY <2>1, <2>2, <1>1 DEF Queried!SettledOK
<1>12. Queried!SharesOK(r0, slots)
  <2>1. CASE step.piece = "scan"
    <3>1. Queried!NothingKeyed(q)
      BY <1>1, <1>3, <2>1 DEF Queried!InOrder
    <3>2. step.path = 1
      BY <1>1, <1>3, <2>1 DEF Queried!InOrder, Queried!PlanInOrder
    <3>3. Queried!KeyOf(q) = Queried!ResolvePath(q.paths[1]) /\ 1 \in DOMAIN q.paths
      BY <3>2, <2>1, <1>1, Where DEF Queried!KeyOf, Queried!Path, Queried!IsRaw
    <3> QED
      BY <3>1, <3>3, <2>1, <1>7 DEF Queried!SharesOK, Queried!NothingKeyed
  <2>2. CASE step.piece # "scan"
    BY <2>2, <1>1, <1>7 DEF Queried!SharesOK
  <2> QED
    BY <2>1, <2>2
<1>13. Queried!QueryOK(r0, trees0, slots, phases)
  BY <1>10, <1>11, <1>12 DEF Queried!QueryOK, Queried!DraftCurrent
<1> QED
  BY <1>8, <1>9, <1>10, <1>13, KeptFits DEF r

(* A step of one query leaves the trees and what others share.               *)
LEMMA OneMoves ==
    ASSUME Queried!QueryInv, NEW c \in Askers, NEW r \in Queried!Queries,
           query' = [query EXCEPT ![c] = r], trees' = trees, phase' = phase,
           Queried!QueryOK(r, trees, reports', phase),
           reports' \in [Queried!Paths -> [Queried!Slots -> Queried!Versions]],
           \A p \in Queried!Paths : reports'[p]["auto"] = reports[p]["auto"],
           graphs' \in [Projects -> Queried!Versions],
           Queried!CachesCurrent'
    PROVE  Queried!QueryInv'
<1>1. query' \in [Askers -> Queried!Queries]
  BY DEF Queried!QueryInv, Queried!TypeOK
<1>2. Queried!TypeOK'
  BY <1>1 DEF Queried!QueryInv, Queried!TypeOK
<1>3. ASSUME NEW d \in Askers PROVE Queried!QueryOK(query'[d], trees', reports', phase')
  <2>1. CASE d = c
    BY <2>1 DEF Queried!QueryInv, Queried!TypeOK
  <2>2. CASE d # c
    <3>1. query'[d] = query[d] /\ query[d] \in Queried!Queries
          /\ Queried!QueryOK(query[d], trees, reports, phase)
      BY <2>2 DEF Queried!QueryInv, Queried!TypeOK
    <3>2. query[d].paths \in Seq(Queried!Paths)
      BY <3>1 DEF Queried!Queries
    <3>3. 1 \in DOMAIN query[d].paths => Queried!ResolvePath(query[d].paths[1]) \in Queried!Paths
      BY <3>2, QueryConstants DEF SensibleQueries, Queried!ResolvePath, Queried!Paths
    <3>4. Queried!SharesOK(query[d], reports')
      BY <3>1, <3>3 DEF Queried!QueryOK, Queried!SharesOK
    <3> QED
      BY <3>1, <3>4 DEF Queried!QueryOK
  <2> QED
    BY <2>1, <2>2
<1>4. (\A d \in Askers : Queried!QueryOK(query[d], trees, reports, phase))'
  BY <1>3
<1> QED
  BY <1>2, <1>4 DEF Queried!QueryInv

(* A query that is not asked shows nothing and shares nothing.               *)
LEMMA IdleFits ==
    /\ Queried!Idle \in Queried!Queries
    /\ \A t, s, f : Queried!QueryOK(Queried!Idle, t, s, f)
    /\ ~Queried!MayBuild(Queried!Idle)
<1>1. <<>> \in Seq(Queried!Steps) /\ <<>> \in Seq(Queried!Paths)
  OBVIOUS
<1> HIDE DEF Queried!Steps, Queried!Paths
<1>2. Queried!Idle \in Queried!Queries
  BY <1>1 DEF Queried!Idle, Queried!Queries, Queried!Versions
<1>3. /\ Queried!Idle.at = "idle" /\ Queried!Idle.plan = <<>> /\ Queried!Idle.paths = <<>>
      /\ ~Queried!Idle.settled /\ ~Queried!Idle.shares
  BY DEF Queried!Idle
<1> QED
  BY <1>2, <1>3 DEF Queried!QueryOK, Queried!PathsFit, Queried!InOrder, Queried!PlanInOrder,
    Queried!DraftCurrent, Queried!SettledOK, Queried!SharesOK, Queried!MayBuild, Queried!Reading

(* The caches stay current when no cache and no tree is touched.             *)
LEMMA SameCaches ==
    ASSUME Queried!QueryInv, UNCHANGED <<trees, marked, reports, graphs, phase>>
    PROVE  /\ Queried!CachesCurrent'
           /\ reports' \in [Queried!Paths -> [Queried!Slots -> Queried!Versions]]
           /\ \A p \in Queried!Paths : reports'[p]["auto"] = reports[p]["auto"]
           /\ graphs' \in [Projects -> Queried!Versions]
           /\ trees' = trees /\ phase' = phase /\ reports' = reports
  BY DEF Queried!QueryInv, Queried!TypeOK, Queried!CachesCurrent

LEMMA InitFits == Queried!Init => Queried!QueryInv
<1> SUFFICES ASSUME Queried!Init PROVE Queried!QueryInv
  OBVIOUS
<1>1. \A c \in Askers : query[c] = Queried!Idle
  BY DEF Queried!Init
<1>2. Queried!TypeOK
  BY IdleFits DEF Queried!Init, Queried!TypeOK, Queried!Versions
<1>3. Queried!CachesCurrent
  BY QueryConstants DEF SensibleQueries, Queried!Init, Queried!CachesCurrent, Queried!Paths
<1> QED
  BY <1>1, <1>2, <1>3, IdleFits DEF Queried!QueryInv

LEMMA AskFits ==
    ASSUME Queried!QueryInv, NEW c \in Askers, NEW plan \in Asked[c],
           NEW paths \in Queried!PathsOf(plan), Queried!Ask(c, plan, paths)
    PROVE  Queried!QueryInv'
<1> DEFINE r == [Queried!Idle EXCEPT !.at = "reading", !.plan = plan, !.paths = paths,
                   !.settled = \A i \in DOMAIN paths :
                                 phase[Queried!ResolvePath(paths[i])] = "settled"]
<1>1. query' = [query EXCEPT ![c] = r] /\ UNCHANGED <<trees, marked, reports, graphs, phase>>
  BY DEF Queried!Ask, Queried!Becomes
<1>2. plan \in Seq(Queried!Steps) /\ Queried!PlanInOrder(plan)
  BY QueryConstants DEF SensibleQueries, Queried!Plans
<1>3. \A i \in DOMAIN plan : plan[i].path \in {1, 2}
  <2> DEFINE S == Queried!Steps
  <2>1. \A s \in S : s.path \in {1, 2}
    BY DEF Queried!Steps
  <2> HIDE DEF S
  <2>2. plan \in Seq(S)
    BY <1>2 DEF S
  <2> QED
    BY <2>1, <2>2
<1>4. /\ paths \in Seq(Queried!Paths) /\ 1 \in DOMAIN paths
      /\ \A i \in DOMAIN paths : paths[i] = Empty => i = 1
      /\ \A i \in DOMAIN plan : plan[i].path \in DOMAIN paths
  <2>1. CASE \E i \in DOMAIN plan : plan[i].path = 2
    <3>1. PICK p \in WorkedOn, q \in Projects : paths = <<p, q>>
      BY <2>1 DEF Queried!PathsOf
    <3>2. p \in Projects /\ p # Empty /\ q # Empty /\ p \in Queried!Paths /\ q \in Queried!Paths
      BY <3>1, QueryConstants DEF SensibleQueries, Queried!Paths
    <3> HIDE DEF Queried!Paths
    <3> QED
      BY <3>1, <3>2, <1>3
  <2>2. CASE ~\E i \in DOMAIN plan : plan[i].path = 2
    <3>1. PICK p \in WorkedOn \cup {Empty} : paths = <<p>>
      BY <2>2 DEF Queried!PathsOf
    <3>2. p \in Queried!Paths
      BY <3>1, QueryConstants DEF SensibleQueries, Queried!Paths
    <3> HIDE DEF Queried!Paths
    <3>3. paths \in Seq(Queried!Paths) /\ DOMAIN paths = {1}
      BY <3>1, <3>2
    <3>4. \A i \in DOMAIN plan : plan[i].path = 1
      BY <2>2, <1>3
    <3> QED
      BY <3>3, <3>4
  <2> QED
    BY <2>1, <2>2
<1> HIDE DEF Queried!Steps, Queried!Paths
<1>5. /\ r.at = "reading" /\ r.plan = plan /\ r.paths = paths /\ r.draft = None /\ r.got = {}
      /\ r.settled = (\A i \in DOMAIN paths : phase[Queried!ResolvePath(paths[i])] = "settled")
      /\ r.shares = FALSE /\ r.scanned = None
  BY DEF Queried!Idle
<1>6. r \in Queried!Queries
  BY <1>2, <1>4, IdleFits DEF Queried!Queries
<1> HIDE DEF r
<1>7. Queried!QueryOK(r, trees, reports, phase)
  BY <1>2, <1>4, <1>5 DEF Queried!QueryOK, Queried!PathsFit, Queried!InOrder,
     Queried!DraftCurrent,
    Queried!SettledOK, Queried!SharesOK, Queried!MayBuild, Queried!NothingKeyed
<1> QED
  BY <1>1, <1>6, <1>7, SameCaches, OneMoves

LEMMA ReadOtherFits ==
    ASSUME Queried!QueryInv, NEW c \in Askers, Queried!ReadOther(c)
    PROVE  Queried!QueryInv'
<1> DEFINE q == query[c]
           r == [q EXCEPT !.plan = Tail(@)]
<1>1. query' = [query EXCEPT ![c] = r] /\ UNCHANGED <<trees, marked, reports, graphs, phase>>
      /\ Queried!Unread(q)
  BY DEF Queried!ReadOther, Queried!Becomes
<1>2. q \in Queried!Queries /\ Queried!QueryOK(q, trees, reports, phase)
  BY DEF Queried!QueryInv, Queried!TypeOK
<1> HIDE DEF q
<1>3. q.at = "reading" /\ q.plan \in Seq(Queried!Steps) /\ q.plan # <<>> /\ q.draft = None
  BY <1>1, <1>2 DEF Queried!Unread, Queried!Reading, Queried!Queries
<1>4. 1 \in DOMAIN q.plan /\ Tail(q.plan) = SubSeq(q.plan, 1 + 1, Len(q.plan))
      /\ Tail(q.plan) \in Seq(Queried!Steps)
  BY <1>3, PlanTail, PlanRest
<1> HIDE DEF Queried!Steps
<1>5. r \in Queried!Queries
  BY <1>2, <1>4 DEF Queried!Queries
<1>6. /\ r.at = "reading" /\ r.plan = Tail(q.plan) /\ r.paths = q.paths /\ r.draft = None
      /\ r.got = q.got /\ r.settled = q.settled /\ r.scanned = q.scanned /\ r.shares = q.shares
  BY <1>2, <1>3 DEF Queried!Queries
<1> HIDE DEF r
<1>7. Queried!PathsFit(r) /\ Queried!InOrder(r) /\ ~Queried!MayBuild(r)
  BY <1>2, <1>3, <1>4, <1>5, <1>6, Dropped DEF Queried!QueryOK
<1>8. Queried!QueryOK(r, trees, reports, phase)
  BY <1>2, <1>6, <1>7 DEF Queried!QueryOK, Queried!DraftCurrent, Queried!SettledOK,
    Queried!ShowsTree, Queried!SharesOK
<1> QED
  BY <1>1, <1>5, <1>8, SameCaches, OneMoves

LEMMA AnswerFits ==
    ASSUME Queried!QueryInv, NEW c \in Askers, Queried!Answer(c)
    PROVE  Queried!QueryInv'
<1>1. query' = [query EXCEPT ![c] = Queried!Idle]
      /\ UNCHANGED <<trees, marked, reports, graphs, phase>>
  BY DEF Queried!Answer, Queried!Becomes
<1> QED
  BY <1>1, SameCaches, OneMoves, IdleFits

LEMMA FailsFits ==
    ASSUME Queried!QueryInv, NEW c \in Askers, Queried!Fails(c)
    PROVE  Queried!QueryInv'
<1> DEFINE q == query[c]
<1>1. UNCHANGED <<trees, marked, reports, graphs, phase>> /\ Queried!Reading(q)
  BY DEF Queried!Fails
<1>2. q \in Queried!Queries /\ Queried!QueryOK(q, trees, reports, phase)
  BY DEF Queried!QueryInv, Queried!TypeOK
<1>3. q.at = "reading" /\ q.plan \in Seq(Queried!Steps) /\ q.plan # <<>>
  BY <1>1, <1>2 DEF Queried!Reading, Queried!Queries
<1>4. ASSUME NEW n \in DOMAIN q.plan,
             query' = [query EXCEPT ![c] =
               [q EXCEPT !.draft = None, !.plan = SubSeq(q.plan, n + 1, Len(q.plan))]]
      PROVE  Queried!QueryInv'
  <2> DEFINE r == [q EXCEPT !.draft = None, !.plan = SubSeq(q.plan, n + 1, Len(q.plan))]
  <2>1. SubSeq(q.plan, n + 1, Len(q.plan)) \in Seq(Queried!Steps)
    BY <1>3, PlanRest
  <2> HIDE DEF Queried!Steps, q
  <2>2. r \in Queried!Queries
    BY <1>2, <2>1 DEF Queried!Queries, Queried!Versions
  <2>3. /\ r.at = "reading" /\ r.plan = SubSeq(q.plan, n + 1, Len(q.plan)) /\ r.paths = q.paths
        /\ r.draft = None /\ r.got = q.got /\ r.settled = q.settled
        /\ r.scanned = q.scanned /\ r.shares = q.shares
    BY <1>2, <1>3 DEF Queried!Queries
  <2>4. query' = [query EXCEPT ![c] = r]
    BY <1>4
  <2> HIDE DEF r
  <2>5. Queried!PathsFit(r) /\ Queried!InOrder(r) /\ ~Queried!MayBuild(r)
    BY <1>2, <1>3, <2>2, <2>3, Dropped DEF Queried!QueryOK
  <2>6. Queried!QueryOK(r, trees, reports, phase)
    BY <1>2, <2>3, <2>5 DEF Queried!QueryOK, Queried!DraftCurrent, Queried!SettledOK,
      Queried!ShowsTree, Queried!SharesOK
  <2> QED
    BY <1>1, <2>2, <2>4, <2>6, SameCaches, OneMoves
<1>5. CASE Queried!Becomes(c, [q EXCEPT !.plan = Tail(@), !.draft = None])
  <2>1. 1 \in DOMAIN q.plan /\ Tail(q.plan) = SubSeq(q.plan, 1 + 1, Len(q.plan))
    BY <1>3, PlanTail
  <2> DEFINE rest == SubSeq(q.plan, 1 + 1, Len(q.plan))
  <2> HIDE DEF rest, q
  <2>2. [q EXCEPT !.plan = Tail(@), !.draft = None] = [q EXCEPT !.draft = None, !.plan = rest]
    BY <1>2, <2>1 DEF rest, Queried!Queries
  <2> QED
    BY <1>4, <1>5, <2>1, <2>2 DEF rest, Queried!Becomes
<1>6. CASE Queried!Becomes(c, Queried!Idle)
  BY <1>1, <1>6, SameCaches, OneMoves, IdleFits DEF Queried!Becomes
<1>7. CASE \E n \in DOMAIN q.plan :
             Queried!Becomes(c, [q EXCEPT !.draft = None, !.plan = SubSeq(@, n + 1, Len(@))])
  BY <1>4, <1>7 DEF Queried!Becomes
<1> QED
  BY <1>5, <1>6, <1>7 DEF Queried!Fails

(* What is found in a cache is a version, of the tree if its project is      *)
(* settled.                                                                  *)
LEMMA Found ==
    ASSUME Queried!QueryInv, NEW q \in Queried!Queries, Queried!PathsFit(q), Queried!Reading(q),
           Queried!CachedReport(q) # None
    PROVE  /\ Queried!CachedReport(q) \in Nat
           /\ phase[Queried!Source(q)] = "settled" =>
                \/ Queried!CachedReport(q) = trees[Queried!Source(q)]
                \/ (Queried!IsRaw(Queried!Step(q)) /\ Queried!Path(q) = Empty)
           /\ Queried!Step(q).piece \in {"keyed", "scan"} =>
                Queried!CachedReport(q) = reports[Queried!KeyOf(q)]["auto"]
<1> DEFINE k == Queried!KeyOf(q)
           p == Queried!Source(q)
           piece == Queried!Step(q).piece
           cached == Queried!CachedReport(q)
<1>1. k \in Queried!Paths /\ p \in Projects /\ Queried!Step(q) \in Queried!Steps
      /\ (~Queried!IsRaw(Queried!Step(q)) \/ Queried!Path(q) # Empty => k = p)
  BY Where
<1>2. /\ reports[k] \in [Queried!Slots -> Queried!Versions]
      /\ k \in Projects => graphs[k] \in Queried!Versions
  BY <1>1 DEF Queried!QueryInv, Queried!TypeOK
<1>3. /\ reports[k]["auto"] \in Queried!Versions /\ reports[k]["plain"] \in Queried!Versions
      /\ {"auto", "plain"} = Queried!Slots
  BY <1>2 DEF Queried!Slots
<1>4. /\ phase[p] # "edited" => graphs[p] \in {None, trees[p]}
      /\ phase[p] = "settled" => reports[p]["auto"] \in {None, trees[p]}
                                 /\ reports[p]["plain"] \in {None, trees[p]}
  BY <1>1, <1>3 DEF Queried!QueryInv, Queried!CachesCurrent
<1> HIDE DEF k, p
<1>5. CASE piece = "keyed"
  <2>1. cached = reports[k]["auto"]
    BY <1>5 DEF Queried!CachedReport, k
  <2> QED
    BY <2>1, <1>1, <1>3, <1>4, <1>5 DEF Queried!IsRaw, Queried!Versions, k, p
<1>6. CASE piece \in {"report", "raw report"}
  <2>1. cached = reports[k]["auto"] \/ cached = reports[k]["plain"]
    BY <1>6 DEF Queried!CachedReport, k
  <2>2. cached \in Nat /\ cached # None
    BY <2>1, <1>3 DEF Queried!Versions
  <2>3. (Queried!IsRaw(Queried!Step(q)) /\ Queried!Path(q) = Empty) \/ k = p
    BY <1>1 DEF k, p
  <2>4. phase[p] = "settled" =>
          cached = trees[p] \/ (Queried!IsRaw(Queried!Step(q)) /\ Queried!Path(q) = Empty)
    BY <2>1, <2>2, <2>3, <1>4
  <2> QED
    BY <2>2, <2>4, <1>6 DEF p
<1>7. CASE piece = "scan"
  <2>1. cached = reports[k]["auto"]
    BY <1>7 DEF Queried!CachedReport, k
  <2> QED
    BY <2>1, <1>1, <1>3, <1>4, <1>7 DEF Queried!IsRaw, Queried!Versions, k, p
<1>8. CASE piece = "graph"
  <2>1. cached = graphs[k]
    BY <1>8 DEF Queried!CachedReport, k
  <2> QED
    BY <2>1, <1>1, <1>2, <1>4, <1>8 DEF Queried!IsRaw, Queried!Versions, k, p
<1>9. CASE piece \notin {"keyed", "report", "raw report", "scan", "graph"}
  BY <1>9 DEF Queried!CachedReport
<1> QED
  BY <1>5, <1>6, <1>7, <1>8, <1>9

LEMMA ReadCachedFits ==
    ASSUME Queried!QueryInv, NEW c \in Askers, Queried!ReadCached(c)
    PROVE  Queried!QueryInv'
<1> DEFINE q == query[c]
           step == Queried!Step(q)
           k == Queried!KeyOf(q)
           p == Queried!Source(q)
           cached == Queried!CachedReport(q)
           r == Queried!Scanned(step, Queried!Got(q, cached), cached, TRUE)
<1>1. /\ Queried!Unread(q) /\ cached # None
      /\ query' = [query EXCEPT ![c] = r]
      /\ \/ reports' = reports
         \/ step.piece = "scan" /\ reports' = [reports EXCEPT ![k]["plain"] = cached]
      /\ UNCHANGED <<trees, marked, graphs, phase>>
  BY DEF Queried!ReadCached, Queried!Becomes
<1>2. /\ q \in Queried!Queries /\ Queried!QueryOK(q, trees, reports, phase) /\ Queried!Reading(q)
      /\ Queried!PathsFit(q)
  BY <1>1 DEF Queried!QueryInv, Queried!TypeOK, Queried!QueryOK, Queried!Unread
<1>3. /\ k \in Queried!Paths /\ p \in Projects /\ Queried!Step(q) = q.plan[1] /\ 1 \in DOMAIN q.plan
      /\ (~Queried!IsRaw(step) => k = p)
      /\ step.path \in DOMAIN q.paths
      /\ (~Queried!IsRaw(step) \/ Queried!Path(q) # Empty =>
            k = p /\ p = Queried!ResolvePath(q.paths[step.path]))
  BY <1>2, Where
<1>4. /\ cached \in Nat
      /\ phase[p] = "settled" => cached = trees[p] \/ (Queried!IsRaw(step) /\ Queried!Path(q) = Empty)
      /\ step.piece \in {"keyed", "scan"} => cached = reports[k]["auto"]
  <2> HIDE DEF q
  <2> QED
    BY <1>1, <1>2, Found
<1>5. q.settled => cached = trees[p] \/ (Queried!IsRaw(step) /\ Queried!Path(q) = Empty)
  BY <1>2, <1>3, <1>4 DEF Queried!QueryOK, Queried!SettledOK
<1>6. q.shares /\ step.piece = "keyed" => cached = q.scanned
  <2> SUFFICES ASSUME q.shares, step.piece = "keyed" PROVE cached = q.scanned
    OBVIOUS
  <2>1. step.path = 1
    BY <1>2, <1>3 DEF Queried!QueryOK, Queried!InOrder, Queried!PlanInOrder
  <2>2. k = Queried!ResolvePath(q.paths[1])
    BY <2>1, <1>3 DEF Queried!IsRaw
  <2> QED
    BY <2>2, <1>2, <1>4 DEF Queried!QueryOK, Queried!SharesOK
<1>7. reports \in [Queried!Paths -> [Queried!Slots -> Queried!Versions]]
      /\ Queried!Slots = {"auto", "plain"}
  BY DEF Queried!QueryInv, Queried!TypeOK, Queried!Slots
<1>8. /\ reports' \in [Queried!Paths -> [Queried!Slots -> Queried!Versions]]
      /\ \A x \in Queried!Paths : reports'[x]["auto"] = reports[x]["auto"]
      /\ \A x \in Queried!Paths : reports'[x]["plain"] = reports[x]["plain"]
                                  \/ (x = k /\ step.piece = "scan" /\ reports'[x]["plain"] = cached)
  <2> HIDE DEF cached, k, step
  <2>1. cached \in Queried!Versions
    BY <1>4 DEF Queried!Versions
  <2> HIDE DEF Queried!Versions, Queried!Paths
  <2>2. CASE reports' = reports
    BY <2>2, <1>7
  <2>3. CASE step.piece = "scan" /\ reports' = [reports EXCEPT ![k]["plain"] = cached]
    <3>1. \A x \in Queried!Paths : reports'[x] = IF x = k THEN [reports[x] EXCEPT !["plain"] = cached]
                                                   ELSE reports[x]
      BY <2>3, <1>7
    <3>2. \A x \in Queried!Paths : reports[x] \in [Queried!Slots -> Queried!Versions]
      BY <1>7
    <3>3. \A x \in Queried!Paths :
            /\ reports'[x]["auto"] = reports[x]["auto"]
            /\ reports'[x]["plain"] = IF x = k THEN cached ELSE reports[x]["plain"]
            /\ reports'[x] \in [Queried!Slots -> Queried!Versions]
      BY <3>1, <3>2, <2>1, <1>7
    <3>4. reports' \in [Queried!Paths -> [Queried!Slots -> Queried!Versions]]
      BY <3>3, <2>3, <1>7
    <3> QED
      BY <3>3, <3>4, <2>3
  <2> QED
    BY <2>2, <2>3, <1>1
<1> HIDE DEF q, k, p, cached
<1>9. r \in Queried!Queries /\ Queried!QueryOK(r, trees, reports', phase)
  <2>1. Queried!QueryOK(q, trees, reports', phase)
    <3>1. q.shares => Queried!ResolvePath(q.paths[1]) \in Queried!Paths
      BY <1>2, QueryConstants DEF SensibleQueries, Queried!QueryOK, Queried!SharesOK,
         Queried!Queries,
        Queried!ResolvePath, Queried!Paths
    <3> QED
      BY <3>1, <1>2, <1>8 DEF Queried!QueryOK, Queried!SharesOK
  <2>2. step.piece = "scan" => reports'[k]["auto"] = cached
    BY <1>3, <1>4, <1>8
  <2> QED
    BY <2>1, <2>2, <1>2, <1>4, <1>5, <1>6, Joins DEF k, p, Queried!QueryOK
<1>10. Queried!CachesCurrent'
  <2> SUFFICES ASSUME NEW x \in Projects
               PROVE  /\ phase'[x] # "edited" => graphs'[x] \in {None, trees'[x]}
                      /\ phase'[x] = "settled" =>
                           \A s \in Queried!Slots : reports'[x][s] \in {None, trees'[x]}
    BY DEF Queried!CachesCurrent
  <2>1. x \in Queried!Paths
    BY DEF Queried!Paths
  <2>2. /\ phase[x] # "edited" => graphs[x] \in {None, trees[x]}
        /\ phase[x] = "settled" =>
             \A s \in Queried!Slots : reports[x][s] \in {None, trees[x]}
    BY DEF Queried!QueryInv, Queried!CachesCurrent
  <2>3. x = k /\ step.piece = "scan" /\ phase[x] = "settled" => cached = trees[x]
    BY <1>3, <1>4 DEF Queried!IsRaw
  <2> QED
    BY <2>1, <2>2, <2>3, <1>1, <1>7, <1>8
<1>11. graphs' \in [Projects -> Queried!Versions]
  BY <1>1 DEF Queried!QueryInv, Queried!TypeOK
<1> HIDE DEF r
<1> QED
  BY <1>1, <1>8, <1>9, <1>10, <1>11, OneMoves

LEMMA ReadTreeFits ==
    ASSUME Queried!QueryInv, NEW c \in Askers, Queried!ReadTree(c)
    PROVE  Queried!QueryInv'
<1> DEFINE q == query[c]
           p == Queried!Source(q)
           r == [q EXCEPT !.draft = trees[p]]
<1>1. /\ Queried!Unread(q) /\ Queried!Step(q).piece \notin {"argument", "state", "keyed"}
      /\ query' = [query EXCEPT ![c] = r]
      /\ graphs' = graphs \/ graphs' = [x \in Projects |-> None]
      /\ UNCHANGED <<trees, marked, reports, phase>>
  BY DEF Queried!ReadTree, Queried!Becomes
<1>2. /\ q \in Queried!Queries /\ Queried!QueryOK(q, trees, reports, phase) /\ Queried!Reading(q)
      /\ Queried!PathsFit(q)
  BY <1>1 DEF Queried!QueryInv, Queried!TypeOK, Queried!QueryOK, Queried!Unread
<1> HIDE DEF q
<1>3. p \in Projects
  BY <1>2, Where
<1>4. trees[p] \in Nat
  BY <1>3 DEF Queried!QueryInv, Queried!TypeOK
<1> HIDE DEF Queried!Steps, Queried!Paths
<1>5. r \in Queried!Queries
  BY <1>2, <1>4 DEF Queried!Queries, Queried!Versions
<1>6. /\ r.at = q.at /\ r.plan = q.plan /\ r.paths = q.paths /\ r.draft = trees[p]
      /\ r.got = q.got /\ r.settled = q.settled /\ r.scanned = q.scanned /\ r.shares = q.shares
  BY <1>2 DEF Queried!Queries
<1> HIDE DEF r
<1>7. Queried!Step(r) = Queried!Step(q) /\ Queried!Source(r) = p
  BY <1>6 DEF Queried!Source, Queried!Step, Queried!Path
<1>8. Queried!QueryOK(r, trees, reports, phase)
  <2>1. Queried!PathsFit(r) /\ Queried!SettledOK(r, trees, phase) /\ Queried!SharesOK(r, reports)
    BY <1>2, <1>6 DEF Queried!QueryOK, Queried!PathsFit, Queried!SettledOK, Queried!ShowsTree,
      Queried!SharesOK
  <2>2. Queried!InOrder(r)
    BY <1>1, <1>2, <1>6, <1>7 DEF Queried!QueryOK, Queried!InOrder, Queried!NothingKeyed
  <2>3. Queried!DraftCurrent(r, trees, phase)
    BY <1>6, <1>7 DEF Queried!DraftCurrent
  <2>4. QED
    BY <2>1, <2>2, <2>3 DEF Queried!QueryOK
<1>9. graphs' \in [Projects -> Queried!Versions] /\ Queried!CachesCurrent'
  BY <1>1 DEF Queried!QueryInv, Queried!TypeOK, Queried!CachesCurrent, Queried!Versions
<1>10. reports' \in [Queried!Paths -> [Queried!Slots -> Queried!Versions]]
       /\ reports' = reports
  BY <1>1 DEF Queried!QueryInv, Queried!TypeOK
<1> QED
  BY <1>1, <1>5, <1>8, <1>9, <1>10, OneMoves

(* A tree moves on: the queries of it are no longer settled.                 *)
LEMMA EditFits ==
    ASSUME Queried!QueryInv, NEW p \in WorkedOn, Queried!Edit(p)
    PROVE  Queried!QueryInv'
<1>1. /\ trees' = [trees EXCEPT ![p] = @ + 1] /\ phase' = [phase EXCEPT ![p] = "edited"]
      /\ query' = [d \in Askers |-> IF Queried!Touches(query[d], p)
                                    THEN Queried!Kept([query[d] EXCEPT !.settled = FALSE])
                                    ELSE query[d]]
      /\ UNCHANGED <<marked, reports, graphs>> /\ p \in Projects
  BY QueryConstants DEF SensibleQueries, Queried!Edit
<1>2. trees \in [Projects -> Nat] /\ phase \in [Projects -> {"edited", "marked", "settled"}]
  BY DEF Queried!QueryInv, Queried!TypeOK
<1>3. /\ trees' \in [Projects -> Nat] /\ phase' \in [Projects -> {"edited", "marked", "settled"}]
      /\ phase'[p] = "edited"
      /\ \A x \in Projects : x # p => trees'[x] = trees[x] /\ phase'[x] = phase[x]
  BY <1>1, <1>2
<1>4. ASSUME NEW d \in Askers
      PROVE  query'[d] \in Queried!Queries /\ Queried!QueryOK(query'[d], trees', reports', phase')
  <2> DEFINE q == query[d]
             s == [q EXCEPT !.settled = FALSE]
  <2>1. q \in Queried!Queries /\ Queried!QueryOK(q, trees, reports, phase)
    BY DEF Queried!QueryInv, Queried!TypeOK
  <2>2. query'[d] = IF Queried!Touches(q, p) THEN Queried!Kept(s) ELSE q
    BY <1>1
  <2> HIDE DEF q
  <2>3. q.paths \in Seq(Queried!Paths) /\ Queried!PathsFit(q)
    BY <2>1 DEF Queried!Queries, Queried!QueryOK
  <2>4. \A i \in DOMAIN q.paths : Queried!ResolvePath(q.paths[i]) \in Projects
    BY <2>3, QueryConstants DEF SensibleQueries, Queried!ResolvePath, Queried!Paths
  <2>5. Queried!Reading(q) => Queried!Source(q) \in Projects
    BY <2>1, <2>3, Where
  <2>6. Queried!DraftCurrent(q, trees', phase')
    BY <2>1, <2>5, <1>3 DEF Queried!QueryOK, Queried!DraftCurrent, Queried!MayBuild
  <2>7. CASE Queried!Touches(q, p)
    <3> HIDE DEF Queried!Paths
    <3>1. s \in Queried!Queries
      BY <2>1 DEF Queried!Queries
    <3>2. /\ s.at = q.at /\ s.plan = q.plan /\ s.paths = q.paths /\ s.draft = q.draft
          /\ s.got = q.got /\ ~s.settled /\ s.scanned = q.scanned /\ s.shares = q.shares
      BY <2>1 DEF Queried!Queries
    <3> HIDE DEF s
    <3>3. /\ Queried!MayBuild(s) = Queried!MayBuild(q) /\ Queried!Step(s) = Queried!Step(q)
          /\ Queried!Source(s) = Queried!Source(q)
      BY <3>2 DEF Queried!MayBuild, Queried!Reading, Queried!Source, Queried!Step,
         Queried!Path
    <3>4. Queried!QueryOK(s, trees', reports', phase')
      BY <2>1, <2>6, <3>2, <3>3, <1>1 DEF Queried!QueryOK, Queried!PathsFit,
         Queried!InOrder,
        Queried!NothingKeyed, Queried!DraftCurrent, Queried!SettledOK, Queried!SharesOK
    <3> QED
      BY <2>2, <2>7, <3>1, <3>4, KeptFits
  <2>8. CASE ~Queried!Touches(q, p)
    <3>1. Queried!SettledOK(q, trees', phase')
      BY <2>1, <2>4, <2>8, <1>3 DEF Queried!QueryOK, Queried!SettledOK, Queried!ShowsTree,
         Queried!Touches
    <3> QED
      BY <2>1, <2>2, <2>6, <2>8, <3>1, <1>1 DEF Queried!QueryOK
  <2> QED
    BY <2>7, <2>8
<1>5. Queried!TypeOK'
  <2>1. query' \in [Askers -> Queried!Queries]
    BY <1>1, <1>4
  <2> QED
    BY <2>1, <1>1, <1>3 DEF Queried!QueryInv, Queried!TypeOK
<1>6. Queried!CachesCurrent'
  BY <1>1, <1>3 DEF Queried!QueryInv, Queried!CachesCurrent
<1>7. (\A d \in Askers : Queried!QueryOK(query[d], trees, reports, phase))'
  BY <1>4
<1> QED
  BY <1>5, <1>6, <1>7 DEF Queried!QueryInv

(* The mark drops every symbol graph, and counts once no read of the tree    *)
(* from before it is under way.                                              *)
LEMMA MarkDirtyFits ==
    ASSUME Queried!QueryInv, NEW p \in WorkedOn, Queried!MarkDirty(p)
    PROVE  Queried!QueryInv'
<1>1. /\ graphs' = [x \in Projects |-> None] /\ UNCHANGED <<trees, reports, query>>
      /\ phase' = phase \/ ( /\ phase' = [phase EXCEPT ![p] = "marked"] /\ phase[p] = "edited"
                            /\ \A d \in Askers : Queried!MayBuild(query[d]) =>
                                                   Queried!Source(query[d]) # p)
      /\ p \in Projects
  BY QueryConstants DEF SensibleQueries, Queried!MarkDirty, Queried!SGCacheFlush,
     Queried!Flushed
<1>2. phase \in [Projects -> {"edited", "marked", "settled"}]
  BY DEF Queried!QueryInv, Queried!TypeOK
<1>3. /\ phase' \in [Projects -> {"edited", "marked", "settled"}]
      /\ \A x \in Projects : phase[x] = "settled" <=> phase'[x] = "settled"
      /\ \A x \in Projects : phase'[x] # "edited" /\ phase[x] = "edited" =>
           \A d \in Askers : Queried!MayBuild(query[d]) => Queried!Source(query[d]) # x
  BY <1>1, <1>2
<1>4. ASSUME NEW d \in Askers PROVE Queried!QueryOK(query'[d], trees', reports', phase')
  <2>1. query'[d] = query[d] /\ query[d] \in Queried!Queries
        /\ Queried!QueryOK(query[d], trees, reports, phase)
    BY <1>1 DEF Queried!QueryInv, Queried!TypeOK
  <2>2. \A i \in DOMAIN query[d].paths : Queried!ResolvePath(query[d].paths[i]) \in Projects
    BY <2>1, QueryConstants DEF SensibleQueries, Queried!Queries, Queried!ResolvePath,
       Queried!Paths
  <2>3. Queried!Reading(query[d]) => Queried!Source(query[d]) \in Projects
    BY <2>1, Where DEF Queried!QueryOK
  <2>4. Queried!DraftCurrent(query[d], trees', phase')
    BY <2>1, <2>3, <1>1, <1>3 DEF Queried!QueryOK, Queried!DraftCurrent, Queried!MayBuild
  <2>5. Queried!SettledOK(query[d], trees', phase')
    BY <2>1, <2>2, <1>1, <1>3 DEF Queried!QueryOK, Queried!SettledOK
  <2> QED
    BY <2>1, <2>4, <2>5, <1>1 DEF Queried!QueryOK
<1>5. Queried!TypeOK'
  BY <1>1, <1>3 DEF Queried!QueryInv, Queried!TypeOK, Queried!Versions
<1>6. Queried!CachesCurrent'
  BY <1>1, <1>3 DEF Queried!QueryInv, Queried!CachesCurrent
<1>7. (\A d \in Askers : Queried!QueryOK(query[d], trees, reports, phase))'
  BY <1>4
<1> QED
  BY <1>5, <1>6, <1>7 DEF Queried!QueryInv

(* A query that no longer shares a report keeps the rest.                    *)
LEMMA Unshared ==
    ASSUME NEW q \in Queried!Queries
    PROVE  LET u == [q EXCEPT !.shares = FALSE]
           IN  /\ u \in Queried!Queries
               /\ \A t, s, f :
                    /\ Queried!PathsFit(q) /\ Queried!InOrder(q)
                    /\ Queried!DraftCurrent(q, t, f) /\ Queried!SettledOK(q, t, f)
                    => Queried!QueryOK(u, t, s, f)
<1> DEFINE u == [q EXCEPT !.shares = FALSE]
<1> HIDE DEF Queried!Paths, Queried!Steps
<1>1. u \in Queried!Queries
  BY DEF Queried!Queries
<1>2. /\ u.at = q.at /\ u.plan = q.plan /\ u.paths = q.paths /\ u.draft = q.draft
      /\ u.got = q.got /\ u.settled = q.settled /\ u.scanned = q.scanned /\ ~u.shares
  BY DEF Queried!Queries
<1> HIDE DEF u
<1>3. /\ Queried!MayBuild(u) = Queried!MayBuild(q) /\ Queried!Step(u) = Queried!Step(q)
      /\ Queried!Source(u) = Queried!Source(q)
  BY <1>2 DEF Queried!MayBuild, Queried!Reading, Queried!Source, Queried!Step, Queried!Path
<1>4. ASSUME NEW t, NEW s, NEW f, Queried!PathsFit(q), Queried!InOrder(q),
             Queried!DraftCurrent(q, t, f), Queried!SettledOK(q, t, f)
      PROVE  Queried!QueryOK(u, t, s, f)
  BY <1>2, <1>3, <1>4 DEF Queried!QueryOK, Queried!PathsFit, Queried!InOrder,
     Queried!NothingKeyed,
    Queried!DraftCurrent, Queried!SettledOK, Queried!ShowsTree, Queried!SharesOK
<1> QED
  BY <1>1, <1>4 DEF u

LEMMA FlushCacheFits ==
    ASSUME Queried!QueryInv, NEW ps \in SUBSET Projects, Queried!FlushCache(ps)
    PROVE  Queried!QueryInv'
<1>1. /\ reports' = [x \in Queried!Paths |-> IF x \in ps THEN [s \in Queried!Slots |-> None]
                                             ELSE reports[x]]
      /\ query' = [d \in Askers |-> IF \E p \in ps : Queried!Touches(query[d], p)
                                    THEN Queried!Kept([query[d] EXCEPT !.shares = FALSE])
                                    ELSE query[d]]
      /\ UNCHANGED <<trees, graphs, phase>>
  BY DEF Queried!FlushCache
<1>2. reports' \in [Queried!Paths -> [Queried!Slots -> Queried!Versions]]
  BY <1>1 DEF Queried!QueryInv, Queried!TypeOK, Queried!Versions
<1>3. ASSUME NEW d \in Askers
      PROVE  query'[d] \in Queried!Queries /\ Queried!QueryOK(query'[d], trees', reports', phase')
  <2> DEFINE q == query[d]
             s == [q EXCEPT !.shares = FALSE]
  <2>1. q \in Queried!Queries /\ Queried!QueryOK(q, trees, reports, phase)
    BY DEF Queried!QueryInv, Queried!TypeOK
  <2>2. query'[d] = IF \E p \in ps : Queried!Touches(q, p) THEN Queried!Kept(s) ELSE q
    BY <1>1
  <2> HIDE DEF q
  <2>3. CASE \E p \in ps : Queried!Touches(q, p)
    <3>1. s \in Queried!Queries /\ Queried!QueryOK(s, trees', reports', phase')
      BY <2>1, <1>1, Unshared DEF Queried!QueryOK
    <3> QED
      BY <2>2, <2>3, <3>1, KeptFits
  <2>4. CASE ~\E p \in ps : Queried!Touches(q, p)
    <3>1. 1 \in DOMAIN q.paths => Queried!ResolvePath(q.paths[1]) \in Queried!Paths \ ps
      BY <2>1, <2>4, QueryConstants DEF SensibleQueries, Queried!Queries,
         Queried!ResolvePath,
        Queried!Paths, Queried!Touches
    <3>2. Queried!SharesOK(q, reports')
      BY <2>1, <3>1, <1>1 DEF Queried!QueryOK, Queried!SharesOK
    <3> QED
      BY <2>1, <2>2, <2>4, <3>2, <1>1 DEF Queried!QueryOK
  <2> QED
    BY <2>3, <2>4
<1>4. Queried!TypeOK'
  <2>1. query' \in [Askers -> Queried!Queries]
    BY <1>1, <1>3
  <2> QED
    BY <2>1, <1>1, <1>2 DEF Queried!QueryInv, Queried!TypeOK
<1>5. Queried!CachesCurrent'
  BY <1>1 DEF Queried!QueryInv, Queried!CachesCurrent, Queried!Paths
<1>6. (\A d \in Askers : Queried!QueryOK(query[d], trees, reports, phase))'
  BY <1>3
<1> QED
  BY <1>4, <1>5, <1>6 DEF Queried!QueryInv

LEMMA RestartFits ==
    ASSUME Queried!QueryInv, Queried!Restart
    PROVE  Queried!QueryInv'
<1>1. /\ graphs' = [x \in Projects |-> None] /\ query' = [d \in Askers |-> Queried!Idle]
      /\ UNCHANGED <<trees, reports, phase>>
  BY DEF Queried!Restart, Queried!Flushed
<1>2. Queried!TypeOK' /\ Queried!CachesCurrent'
  BY <1>1, IdleFits DEF Queried!QueryInv, Queried!TypeOK, Queried!CachesCurrent,
     Queried!Versions
<1>3. (\A d \in Askers : Queried!QueryOK(query[d], trees, reports, phase))'
  BY <1>1, IdleFits
<1> QED
  BY <1>2, <1>3 DEF Queried!QueryInv

(* What was built joins the answer and reaches the caches, or some of them;  *)
(* a scan takes the report away that others shared.                          *)
LEMMA FinishFits ==
    ASSUME Queried!QueryInv, NEW c \in Askers, Queried!Finish(c)
    PROVE  Queried!QueryInv'
<1> DEFINE q == query[c]
           step == Queried!Step(q)
           k == Queried!KeyOf(q)
           p == Queried!Source(q)
           version == q.draft
<1>1. PICK stored \in SUBSET Queried!Written(step.piece) :
        /\ reports' = [reports EXCEPT ![k] =
                         [s \in Queried!Slots |-> IF s \in stored THEN version ELSE @[s]]]
        /\ phase' = IF step.piece = "scan" /\ phase[k] = "marked" /\ stored = Queried!Slots
                    THEN [phase EXCEPT ![k] = "settled"] ELSE phase
        /\ query' = [d \in Askers |->
             IF d = c
             THEN Queried!Scanned(step, Queried!Got(q, version), version, "auto" \in stored)
             ELSE IF "auto" \in stored /\ Queried!Touches(query[d], k)
                  THEN Queried!Kept([query[d] EXCEPT !.shares = FALSE])
             ELSE query[d]]
  BY DEF Queried!Finish
<1>2. /\ Queried!MayBuild(q) /\ trees' = trees
      /\ graphs' = IF step.piece = "graph" THEN [graphs EXCEPT ![k] = version] ELSE graphs
  BY DEF Queried!Finish
<1>3. /\ q \in Queried!Queries /\ Queried!QueryOK(q, trees, reports, phase) /\ Queried!Reading(q)
      /\ Queried!PathsFit(q)
  BY <1>2 DEF Queried!QueryInv, Queried!TypeOK, Queried!QueryOK, Queried!MayBuild
<1>4. /\ k \in Queried!Paths /\ p \in Projects /\ step = q.plan[1] /\ 1 \in DOMAIN q.plan
      /\ step.path \in DOMAIN q.paths
      /\ (~Queried!IsRaw(step) \/ Queried!Path(q) # Empty =>
            k = p /\ p = Queried!ResolvePath(q.paths[step.path]))
      /\ (Queried!IsRaw(step) /\ Queried!Path(q) = Empty => k = Empty)
  BY <1>3, Where
<1>5. version \in Nat /\ (phase[p] # "edited" => version = trees[p]) /\ step.piece # "keyed"
  BY <1>2, <1>3 DEF Queried!MayBuild, Queried!QueryOK, Queried!DraftCurrent,
     Queried!InOrder,
    Queried!Queries, Queried!Versions
<1>6. k \in Projects => k = p
  BY <1>4, QueryConstants DEF SensibleQueries
<1>7. /\ stored \subseteq Queried!Slots /\ Queried!Slots = {"auto", "plain"}
      /\ "auto" \in stored => step.piece = "scan"
      /\ step.piece \in {"scan", "graph"} => k = p
  BY <1>1, <1>4 DEF Queried!Written, Queried!Slots, Queried!IsRaw
<1>8. /\ reports \in [Queried!Paths -> [Queried!Slots -> Queried!Versions]]
      /\ phase \in [Projects -> {"edited", "marked", "settled"}]
      /\ graphs \in [Projects -> Queried!Versions]
  BY DEF Queried!QueryInv, Queried!TypeOK
<1> HIDE DEF q, step, k, p, version
<1>9. /\ phase' \in [Projects -> {"edited", "marked", "settled"}]
      /\ \A x \in Projects : phase[x] = "edited" <=> phase'[x] = "edited"
      /\ \A x \in Projects : phase[x] = "settled" => phase'[x] = "settled"
      /\ \A x \in Projects : phase'[x] = "settled" =>
           phase[x] = "settled" \/ (x = k /\ stored = Queried!Slots)
  BY <1>1, <1>8
<1>10. /\ \A x \in Queried!Paths : x # k => reports'[x] = reports[x]
       /\ \A s \in Queried!Slots : reports'[k][s] = IF s \in stored THEN version ELSE reports[k][s]
       /\ reports' \in [Queried!Paths -> [Queried!Slots -> Queried!Versions]]
  <2>1. version \in Queried!Versions
    BY <1>5 DEF Queried!Versions
  <2>2. [s \in Queried!Slots |-> IF s \in stored THEN version ELSE reports[k][s]]
          \in [Queried!Slots -> Queried!Versions]
    BY <2>1, <1>4, <1>8
  <2>3. reports' = [reports EXCEPT ![k] =
                      [s \in Queried!Slots |-> IF s \in stored THEN version ELSE reports[k][s]]]
    BY <1>1
  <2> HIDE DEF Queried!Versions, Queried!Paths
  <2> QED
    BY <2>2, <2>3, <1>4, <1>8
<1>11. \A x \in Queried!Paths : "auto" \notin stored \/ x # k => reports'[x]["auto"] = reports[x]["auto"]
  BY <1>7, <1>10
<1>12. ASSUME NEW e \in Queried!Queries, Queried!QueryOK(e, trees, reports, phase)
       PROVE  /\ Queried!DraftCurrent(e, trees, phase')
              /\ Queried!SettledOK(e, trees, phase')
              /\ "auto" \notin stored \/ ~Queried!Touches(e, k) => Queried!SharesOK(e, reports')
  <2>1. \A i \in DOMAIN e.paths : Queried!ResolvePath(e.paths[i]) \in Projects
    BY <1>12, QueryConstants DEF SensibleQueries, Queried!Queries, Queried!ResolvePath,
       Queried!Paths
  <2>2. Queried!Reading(e) => Queried!Source(e) \in Projects
    BY <1>12, Where DEF Queried!QueryOK
  <2>3. Queried!DraftCurrent(e, trees, phase')
    BY <1>12, <2>2, <1>9 DEF Queried!QueryOK, Queried!DraftCurrent, Queried!MayBuild
  <2>4. Queried!SettledOK(e, trees, phase')
    BY <1>12, <2>1, <1>9 DEF Queried!QueryOK, Queried!SettledOK
  <2>5. ASSUME "auto" \notin stored \/ ~Queried!Touches(e, k) PROVE Queried!SharesOK(e, reports')
    BY <1>12, <2>1, <2>5, <1>11 DEF Queried!QueryOK, Queried!SharesOK, Queried!Touches,
       Queried!Paths
  <2> QED
    BY <2>3, <2>4, <2>5
<1>13. query'[c] \in Queried!Queries /\ Queried!QueryOK(query'[c], trees', reports', phase')
  <2>1. query'[c] = Queried!Scanned(step, Queried!Got(q, version), version, "auto" \in stored)
    BY <1>1
  <2>2. Queried!PathsFit(q) /\ Queried!InOrder(q) /\ Queried!SettledOK(q, trees, phase')
        /\ (step.piece = "scan" \/ Queried!SharesOK(q, reports'))
    BY <1>3, <1>7, <1>12 DEF Queried!QueryOK
  <2>3. q.settled => phase[p] = "settled" \/ (Queried!IsRaw(step) /\ Queried!Path(q) = Empty)
    BY <1>3, <1>4 DEF Queried!QueryOK, Queried!SettledOK
  <2>4. step.piece = "scan" /\ "auto" \in stored => reports'[k]["auto"] = version
    BY <1>7, <1>10
  <2> DEFINE share == "auto" \in stored
  <2>5. share \in BOOLEAN
    OBVIOUS
  <2>6. q.settled => version = trees[p] \/ (Queried!IsRaw(step) /\ Queried!Path(q) = Empty)
    BY <2>3, <1>5
  <2> HIDE DEF share
  <2>7. LET r == Queried!Scanned(step, Queried!Got(q, version), version, share)
        IN  r \in Queried!Queries /\ Queried!QueryOK(r, trees, reports', phase')
    BY <2>2, <2>4, <2>5, <2>6, <1>3, <1>5, Joins DEF step, k, p, share
  <2> QED
    BY <2>1, <2>7, <1>2 DEF share
<1>14. ASSUME NEW d \in Askers, d # c
       PROVE  query'[d] \in Queried!Queries /\ Queried!QueryOK(query'[d], trees', reports', phase')
  <2> DEFINE e == query[d]
             u == [e EXCEPT !.shares = FALSE]
  <2>1. e \in Queried!Queries /\ Queried!QueryOK(e, trees, reports, phase)
    BY DEF Queried!QueryInv, Queried!TypeOK
  <2>2. query'[d] = IF "auto" \in stored /\ Queried!Touches(e, k) THEN Queried!Kept(u) ELSE e
    BY <1>1, <1>14
  <2> HIDE DEF e
  <2>3. Queried!DraftCurrent(e, trees', phase') /\ Queried!SettledOK(e, trees', phase')
    BY <2>1, <1>2, <1>12
  <2>4. CASE "auto" \in stored /\ Queried!Touches(e, k)
    <3>1. u \in Queried!Queries /\ Queried!QueryOK(u, trees', reports', phase')
      BY <2>1, <2>3, Unshared DEF Queried!QueryOK
    <3> QED
      BY <2>2, <2>4, <3>1, KeptFits
  <2>5. CASE ~("auto" \in stored /\ Queried!Touches(e, k))
    BY <2>1, <2>2, <2>3, <2>5, <1>2, <1>12 DEF Queried!QueryOK
  <2> QED
    BY <2>4, <2>5
<1>15. Queried!TypeOK'
  <2>1. query' \in [Askers -> Queried!Queries]
    BY <1>1, <1>13, <1>14
  <2>2. graphs' \in [Projects -> Queried!Versions]
    BY <1>2, <1>5, <1>8 DEF Queried!Versions
  <2> QED
    BY <2>1, <2>2, <1>2, <1>9, <1>10 DEF Queried!QueryInv, Queried!TypeOK
<1>16. Queried!CachesCurrent'
  <2> SUFFICES ASSUME NEW x \in Projects
               PROVE  /\ phase'[x] # "edited" => graphs'[x] \in {None, trees'[x]}
                      /\ phase'[x] = "settled" =>
                           \A s \in Queried!Slots : reports'[x][s] \in {None, trees'[x]}
    BY DEF Queried!CachesCurrent
  <2>1. /\ phase[x] # "edited" => graphs[x] \in {None, trees[x]}
        /\ phase[x] = "settled" => \A s \in Queried!Slots : reports[x][s] \in {None, trees[x]}
    BY DEF Queried!QueryInv, Queried!CachesCurrent
  <2>2. x = k /\ phase'[x] # "edited" => version = trees[x]
    BY <1>5, <1>6, <1>9
  <2>3. phase'[x] # "edited" => graphs'[x] \in {None, trees'[x]}
    BY <2>1, <2>2, <1>2, <1>8, <1>9
  <2>4. x \in Queried!Paths
    BY DEF Queried!Paths
  <2>5. ASSUME phase'[x] = "settled", NEW s \in Queried!Slots PROVE reports'[x][s] \in {None, trees'[x]}
    <3>1. CASE x # k
      BY <3>1, <2>1, <2>4, <2>5, <1>2, <1>9, <1>10
    <3>2. CASE x = k
      BY <3>2, <2>1, <2>2, <2>5, <1>2, <1>9, <1>10
    <3> QED
      BY <3>1, <3>2
  <2> QED
    BY <2>3, <2>5
<1>17. (\A d \in Askers : Queried!QueryOK(query[d], trees, reports, phase))'
  BY <1>13, <1>14
<1> QED
  BY <1>15, <1>16, <1>17 DEF Queried!QueryInv

(* The caches and the queries stay as QueryInv describes them, whatever is   *)
(* edited, marked, flushed, scanned and restarted meanwhile.                 *)
THEOREM QueryInvariant == Queried!Spec => []Queried!QueryInv
<1>1. Queried!Init => Queried!QueryInv
  BY InitFits
<1>2. Queried!QueryInv /\ [Queried!Next]_Queried!vars => Queried!QueryInv'
  <2> SUFFICES ASSUME Queried!QueryInv, [Queried!Next]_Queried!vars PROVE Queried!QueryInv'
    OBVIOUS
  <2>1. CASE UNCHANGED Queried!vars
    BY <2>1 DEF Queried!vars, Queried!QueryInv, Queried!TypeOK, Queried!CachesCurrent
  <2>2. ASSUME NEW c \in Askers, NEW plan \in Asked[c], NEW paths \in Queried!PathsOf(plan),
               Queried!Ask(c, plan, paths)
        PROVE  Queried!QueryInv'
    BY <2>2, AskFits
  <2>3. ASSUME NEW c \in Askers,
               \/ Queried!ReadOther(c) \/ Queried!ReadCached(c) \/ Queried!ReadTree(c)
               \/ Queried!Finish(c) \/ Queried!Fails(c) \/ Queried!Answer(c)
        PROVE  Queried!QueryInv'
    BY <2>3, ReadOtherFits, ReadCachedFits, ReadTreeFits, FinishFits, FailsFits, AnswerFits
  <2>4. ASSUME NEW p \in WorkedOn,
               Queried!Edit(p) \/ Queried!MarkDirty(p) \/ Queried!FlushCache({p})
        PROVE  Queried!QueryInv'
    <3>1. {p} \in SUBSET Projects
      BY QueryConstants DEF SensibleQueries
    <3> QED
      BY <2>4, <3>1, EditFits, MarkDirtyFits, FlushCacheFits
  <2>5. CASE Queried!FlushCache(Projects) \/ Queried!Restart
    BY <2>5, FlushCacheFits, RestartFits
  <2> QED
    BY <2>1, <2>2, <2>3, <2>4, <2>5 DEF Queried!Next
<1> QED
  BY <1>1, <1>2, PTL DEF Queried!Spec

(* What the queries show is of the current tree once the project is settled, *)
(* and the actions of a batch show the report of its scan.                   *)
THEOREM AnswersAreWhole == Queried!Spec => []AnswersWhole
<1>1. Queried!QueryInv => AnswersWhole
  BY DEF Queried!QueryInv, Queried!QueryOK, Queried!SettledOK, Queried!SharesOK,
     Queried!ShowsTree,
    AnswersWhole, Queried!AnswersCurrent, Queried!BatchShares
<1> QED
  BY <1>1, QueryInvariant, PTL
==============================================================================
