------------------------------ MODULE ScanHistory ------------------------------
(***************************************************************************)
(* The store of reports and graphs on disk (cache/scan_cache.go) and the   *)
(* log of scans (history/history.go), for one project.                     *)
(*                                                                         *)
(* A report is encoded into a temporary file that is renamed to the path   *)
(* of its commit and of the version of the program; then a line is added   *)
(* to the log.  The log has no reports: GetReport looks up the commit of a *)
(* line.  Processes may stop at any point, also within the line.           *)
(***************************************************************************)
EXTENDS Integers, Sequences, FiniteSets

CONSTANTS Scans,       \* calls of Record and PutGraph
          Shas,        \* commits
          Versions,    \* versions of the program
          NoFile

VARIABLES version,     \* the program that is running
          file,        \* the files: what is stored, by whose call
          log,         \* the pieces written to the log: whose, and whether whole
          scan,        \* the calls
          puts         \* for the properties: the calls that have stored, in order

vars == <<version, file, log, scan, puts>>

Kinds == {"report", "graph"}

(* entryPath and graphPath.                                                  *)
Path(kind, sha) == <<kind, sha, version>>
Paths == Kinds \X Shas \X Versions

NoSha == "none"
Idle == [at |-> "idle", kind |-> "report", sha |-> NoSha]

Init ==
    /\ version \in Versions
    /\ file = [p \in Paths |-> NoFile]
    /\ log = <<>>
    /\ scan = [s \in Scans |-> Idle]
    /\ puts = <<>>

Goto(s, at) == scan' = [scan EXCEPT ![s].at = at]

------------------------------------------------------------------------------
(* Put and PutGraph.                                                       *)

CreateTemp(s, kind, sha) ==
    /\ scan[s].at = "idle"
    /\ scan' = [scan EXCEPT ![s] = [at |-> IF sha = NoSha THEN "failed" ELSE "temp",
                                    kind |-> kind, sha |-> sha]]
    /\ UNCHANGED <<version, file, log, puts>>

(* What cannot be encoded or closed is removed.                              *)
EncodeFails(s) ==
    /\ scan[s].at = "temp"
    /\ Goto(s, "failed")
    /\ UNCHANGED <<version, file, log, puts>>

Rename(s) ==
    /\ scan[s].at = "temp"
    /\ file' = [file EXCEPT ![Path(scan[s].kind, scan[s].sha)] = s]
    /\ puts' = Append(puts, [of |-> s, by |-> version])
    /\ Goto(s, IF scan[s].kind = "report" THEN "stored" ELSE "done")
    /\ UNCHANGED <<version, log>>

(* Invalidate removes the directory, temporary files and all.                *)
Invalidate ==
    /\ file' = [p \in Paths |-> NoFile]
    /\ scan' = [s \in Scans |-> IF scan[s].at = "temp" THEN [scan[s] EXCEPT !.at = "failed"]
                                ELSE scan[s]]
    /\ puts' = <<>>
    /\ UNCHANGED <<version, log>>

Get(kind, sha) == IF sha = NoSha THEN NoFile ELSE file[Path(kind, sha)]

------------------------------------------------------------------------------
(* The log.                                                                *)

AddLine(s, whole) == log' = Append(log, [of |-> s, whole |-> whole])

Record(s) ==
    /\ scan[s].at = "stored"
    /\ AddLine(s, TRUE)
    /\ Goto(s, "recorded")
    /\ UNCHANGED <<version, file, puts>>

(* The disk is full: part of the line is there, and Record fails.            *)
RecordFails(s) ==
    /\ scan[s].at = "stored"
    /\ AddLine(s, FALSE)
    /\ Goto(s, "failed")
    /\ UNCHANGED <<version, file, puts>>

(* The process stops, perhaps while it adds a line, and another starts,      *)
(* perhaps of another version.  Temporary files remain.                      *)
Restart(v) ==
    /\ version' = v
    /\ scan' = [s \in Scans |-> IF scan[s].at \in {"temp", "stored"}
                                THEN [scan[s] EXCEPT !.at = "failed"] ELSE scan[s]]
    /\ \/ UNCHANGED log
       \/ \E s \in Scans : scan[s].at = "stored" /\ AddLine(s, FALSE)
    /\ UNCHANGED <<file, puts>>

(* Mutation: the first line that does not parse ends the list.               *)
BeforeTears(i) == \A j \in 1..i : log[j].whole

(* readEntries: a line that does not parse is skipped.  What is written      *)
(* after part of a line is on the same line.                                 *)
Parses(i) == log[i].whole /\ (i = 1 \/ log[i - 1].whole)

Lines == {i \in DOMAIN log : Parses(i)}
UpTo(n) == {i \in Lines : i =< n}
Line(k) == CHOOSE n \in Lines : Cardinality(UpTo(n)) = k
Entries == [k \in 1..Cardinality(Lines) |-> log[Line(k)].of]

List(limit) ==
    IF limit > 0 /\ Len(Entries) > limit
    THEN SubSeq(Entries, Len(Entries) - limit + 1, Len(Entries)) ELSE Entries

(* Indices count from 0, negative ones from the end.                         *)
NoHistory == [hit |-> FALSE, of |-> NoFile]

Position(index) == IF index < 0 THEN Len(Entries) + index ELSE index

GetReport(index) ==
    IF Position(index) \notin 0..(Len(Entries) - 1) THEN NoHistory
    ELSE LET of == Get("report", scan[Entries[Position(index) + 1]].sha)
         IN  [hit |-> of # NoFile, of |-> of]

Next ==
    \/ \E s \in Scans :
         \/ \E kind \in Kinds, sha \in Shas \cup {NoSha} : CreateTemp(s, kind, sha)
         \/ EncodeFails(s) \/ Rename(s) \/ Record(s) \/ RecordFails(s)
    \/ Invalidate
    \/ \E v \in Versions : Restart(v)

Spec == Init /\ [][Next]_vars

------------------------------------------------------------------------------

(* The places in puts of what the call s stored, under this version.         *)
Stored(s) == {i \in DOMAIN puts : puts[i] = [of |-> s, by |-> version]}

(* GetReport: a report that is found is one of the commit of the line, never *)
(* a graph; and if the program that runs stored the report of that scan      *)
(* itself, with no Invalidate since, one is found, and it is that report or  *)
(* one stored after it.  The index -k is the first of the last k lines.      *)
HistoryHasReports ==
    \A k \in 1..Len(Entries) :
      LET got == GetReport(-k)
          line == List(k)[1]
      IN  /\ got.hit => scan[got.of].sha = scan[line].sha /\ scan[got.of].kind = "report"
          /\ \A i \in Stored(line) : got.hit /\ \E j \in Stored(got.of) : i =< j
          /\ GetReport(Len(Entries) - k) = got

(* A scan reported as recorded is in the list, in the order of recording,    *)
(* unless the piece before it in the file was torn: a crash in a line costs  *)
(* the next one too.                                                         *)
RecordedListed ==
    \A i \in DOMAIN log :
      /\ scan[log[i].of].at = "recorded" <=> log[i].whole
      /\ log[i].whole =>
           \/ \E k \in DOMAIN Entries : Entries[k] = log[i].of
           \/ i > 1 /\ ~log[i - 1].whole
==============================================================================
