----------------------------- MODULE MCServices -----------------------------
(* Services for TLC: the symbol graph cache with one edit by hand beside a   *)
(* rename of two files, and the others.  They do not touch, so each          *)
(* behaviour is of one of them.                                              *)
EXTENDS Services, SequencesExt, TLC

VARIABLE active

(* A commit no branch points to; comparisons with and without the one that   *)
(* is checked out; a range, and the newest with and without a stride.        *)
MCTip == [main |-> "m", old |-> "o"]
MCLog == <<"m", "x", "o">>
MCCompared == {<<"o", "x">>, <<"m", "o">>}
MCRanges == {[oldest |-> "o", steps |-> 0, stride |-> 1],
             [oldest |-> "none", steps |-> 2, stride |-> 2],
             [oldest |-> "none", steps |-> 3, stride |-> 2]}

Positions == {<<0, 0>>, <<0, 1>>, <<0, 2>>, <<1, 0>>, <<1, 1>>, <<2, 0>>}
Edits == [from : Positions, to : Positions, text : {<<>>, <<"x">>, <<"x", "nl">>}]
Insert(line, text) == [from |-> <<line, 0>>, to |-> <<line, 0>>, text |-> text]

(* An edit of a file in each form; one file changed in one form, another     *)
(* twice in the other, with as many references or with more; and a file that *)
(* is not there.                                                             *)
MCAnswers ==
    {[changes |-> (1 :> <<e>>), documents |-> (1 :> <<f>>), refs |-> <<2>>] : e, f \in Edits}
      \cup {[changes |-> (1 :> <<Insert(0, <<"y">>)>>), refs |-> refs,
             documents |-> (2 :> <<e, Insert(1, <<"z">>)>>)] : e \in Edits, refs \in {<<1, 1>>, <<3, 2>>}}
      \cup {[changes |-> (1 :> <<Insert(0, <<"y">>)>>), documents |-> (3 :> <<Insert(0, <<"z">>)>>),
             refs |-> <<1, 1>>]}

MCTexts == {<<<<"a", "b", "nl", "c">>, <<"d", "nl">>>>, <<<<"a", "nl", "nl">>, <<>>>>}

Machines == {"graphs", "branches", "history", "desired", "diagnostics", "edits"}

MCInit ==
    /\ active \in Machines
    /\ Init /\ Branches!Init /\ History!Init /\ Desired!Init /\ Diagnosed!Init
    /\ IF active = "edits" THEN Edited!Init
       ELSE before = <<>> /\ disk = <<>> /\ answer = None /\ todo = <<>> /\ outcome = "none"
    /\ active = "history" \/ version = 1

Only(machine) == active = machine /\ UNCHANGED active

MCNext ==
    \/ /\ Only("graphs") /\ Next
       /\ UNCHANGED <<branchVars, historyVars, desiredVars, diagnosticVars, editVars>>
    \/ /\ Only("branches") /\ Branches!Next
       /\ UNCHANGED <<vars, historyVars, desiredVars, diagnosticVars, editVars>>
    \/ /\ Only("history") /\ History!Next
       /\ UNCHANGED <<vars, branchVars, desiredVars, diagnosticVars, editVars>>
    \/ /\ Only("desired") /\ Desired!Next
       /\ UNCHANGED <<vars, branchVars, historyVars, diagnosticVars, editVars>>
    \/ /\ Only("diagnostics") /\ Diagnosed!Next
       /\ UNCHANGED <<vars, branchVars, historyVars, desiredVars, editVars>>
    \/ /\ Only("edits") /\ Edited!Next
       /\ UNCHANGED <<vars, branchVars, historyVars, desiredVars, diagnosticVars>>

MCSpec == MCInit /\ [][MCNext]_<<active, vars, branchVars, historyVars, desiredVars,
                                 diagnosticVars, editVars>>
==============================================================================
