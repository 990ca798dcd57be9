------------------------------ MODULE TextEdits ------------------------------
(***************************************************************************)
(* Applying a rename to the files on disk (lsp/edit.go): the plan of a     *)
(* language server is gathered by file, and each file is rewritten with    *)
(* its edits from the bottom up.                                           *)
(*                                                                         *)
(* A text is a sequence of characters, one of which ends lines.  An edit   *)
(* replaces what is between two positions, given as <<line, character>>    *)
(* from 0, by a text.                                                      *)
(***************************************************************************)
EXTENDS Integers, SequencesExt

CONSTANTS Chars,      \* the characters of texts
          Texts,      \* what the files hold at first: sets of [file |-> text]
          Answers,    \* [changes, documents, refs]: the plan of the server, in two
                      \* forms by file, and the references it found in each file
          Newline

VARIABLES before, disk, answer, todo, outcome
vars == <<before, disk, answer, todo, outcome>>

NoOffset == -1

(* The line and the character of an offset: how many lines end before it,    *)
(* and how many offsets before it are on its line.                           *)
LineAt(text, o) == Cardinality({i \in 1..o : text[i] = Newline})
CharAt(text, o) == Cardinality({p \in 0..(o - 1) : LineAt(text, p) = LineAt(text, o)})

(* offsetAt, for texts whose characters are one byte long.                   *)
OffsetAt(text, pos) ==
    LET fits == {o \in 0..Len(text) : LineAt(text, o) = pos[1] /\ CharAt(text, o) = pos[2]}
    IN  IF fits = {} THEN NoOffset ELSE CHOOSE o \in fits : TRUE

(* Mutation: from the top down.                                              *)
Above(e, f) == e.from[1] < f.from[1] \/ (e.from[1] = f.from[1] /\ e.from[2] < f.from[2])

Below(e, f) == e.from[1] > f.from[1] \/ (e.from[1] = f.from[1] /\ e.from[2] > f.from[2])

(* sort.Slice says nothing of edits that begin at the same position.         *)
BottomUp(edits) ==
    {[i \in DOMAIN edits |-> edits[p[i]]] :
       p \in {q \in Bijection(DOMAIN edits, DOMAIN edits) :
                \A i, j \in DOMAIN edits : i < j => ~Below(edits[q[j]], edits[q[i]])}}

Failed == <<"error">>

(* Each edit is located in the text the ones before have left.               *)
ApplyEdit(text, e) ==
    LET start == OffsetAt(text, e.from)
        end == OffsetAt(text, e.to)
    IN  IF text = Failed \/ start = NoOffset \/ end = NoOffset \/ end < start THEN Failed
        ELSE SubSeq(text, 1, start) \o e.text \o SubSeq(text, end + 1, Len(text))

ApplyInTurn(text, sorted) ==
    LET after[k \in 0..Len(sorted)] ==
          IF k = 0 THEN text ELSE ApplyEdit(after[k - 1], sorted[k])
    IN  after[Len(sorted)]

ApplyFileEdits(text, edits) == {ApplyInTurn(text, sorted) : sorted \in BottomUp(edits)}

(* parseWorkspaceEdit: edits given in either form, or in both.               *)
EditsOf(a, f) ==
    (IF f \in DOMAIN a.changes THEN a.changes[f] ELSE <<>>)
      \o (IF f \in DOMAIN a.documents THEN a.documents[f] ELSE <<>>)

ParseWorkspaceEdit(a) ==
    LET files == DOMAIN a.changes \cup DOMAIN a.documents
        File(i) == CHOOSE f \in files : Cardinality({g \in files : g < f}) = i - 1
    IN  [i \in 1..Cardinality(files) |-> [file |-> File(i), edits |-> EditsOf(a, File(i))]]

(* renameCoverageOK, of the references and the edits by file.                *)
RenameCoverageOK(refs, plan) ==
    LET editCount == FoldLeft(LAMBDA n, fe : n + Len(fe.edits), 0, plan)
        refCount == FoldLeft(LAMBDA n, r : n + r, 0, refs)
    IN  /\ editCount > 0
        /\ ~(Len(refs) > 1 /\ Len(plan) =< 1)
        /\ ~(refCount > 1 /\ editCount < refCount)

Init ==
    /\ before \in Texts /\ disk = before
    /\ answer \in Answers
    /\ todo = ParseWorkspaceEdit(answer)
    /\ outcome = IF RenameCoverageOK(answer.refs, todo) THEN "applying" ELSE "refused"

(* ApplyWorkspaceEdit: the first file that fails, or is not there, ends it,  *)
(* unchanged.                                                                *)
ApplyFile ==
    /\ outcome = "applying" /\ todo # <<>>
    /\ LET fe == Head(todo)
       IN  \E text \in IF fe.file \in DOMAIN disk THEN ApplyFileEdits(disk[fe.file], fe.edits)
                      ELSE {Failed} :
             /\ disk' = IF text = Failed THEN disk ELSE [disk EXCEPT ![fe.file] = text]
             /\ outcome' = IF text = Failed THEN "failed" ELSE outcome
             /\ todo' = IF text = Failed THEN todo ELSE Tail(todo)
    /\ UNCHANGED <<before, answer>>

Applied ==
    /\ outcome = "applying" /\ todo = <<>>
    /\ outcome' = "applied"
    /\ UNCHANGED <<before, disk, answer, todo>>

Next == ApplyFile \/ Applied

Spec == Init /\ [][Next]_vars

------------------------------------------------------------------------------

(* All edits at once: in front of each character, or of the end, the text    *)
(* of the edit that begins there; and the characters no edit replaces.       *)
NewAt(text, edits, i) ==
    LET here == {e \in edits : OffsetAt(text, e.from) = i}
    IN  IF here = {} THEN <<>> ELSE (CHOOSE e \in here : TRUE).text

KeptAt(text, edits, i) ==
    IF i = Len(text) \/ \E e \in edits : OffsetAt(text, e.from) =< i /\ i < OffsetAt(text, e.to)
    THEN <<>>
    ELSE <<text[i + 1]>>

AtOnce(text, edits) ==
    LET from[i \in 0..(Len(text) + 1)] ==
          IF i = Len(text) + 1 THEN <<>>
          ELSE NewAt(text, edits, i) \o KeptAt(text, edits, i) \o from[i + 1]
    IN  from[0]

(* Positions of the text, in order, and no two edits that overlap or begin   *)
(* together.                                                                 *)
Proper(text, edits) ==
    LET At(e) == OffsetAt(text, e.from)
        End(e) == OffsetAt(text, e.to)
    IN  \A i, j \in DOMAIN edits :
          /\ NoOffset # At(edits[i]) /\ At(edits[i]) =< End(edits[i])
          /\ i # j => /\ At(edits[i]) # At(edits[j])
                      /\ At(edits[i]) < At(edits[j]) => End(edits[i]) =< At(edits[j])

(* Edits that do not touch one another are applied as if all at once, in     *)
(* whichever order they were given, partly in one form and partly in the     *)
(* other (one that is in both is applied twice), and never make the rename   *)
(* fail.  A file that is still to do is as it was, also if another failed.   *)
EditsAtOnce ==
    \A f \in DOMAIN disk :
      LET edits == EditsOf(answer, f)
      IN  IF \E i \in DOMAIN todo : todo[i].file = f
          THEN /\ disk[f] = before[f]
               /\ outcome = "failed" /\ f = Head(todo).file => ~Proper(before[f], edits)
          ELSE Proper(before[f], edits) => disk[f] = AtOnce(before[f], Range(edits))
==============================================================================
