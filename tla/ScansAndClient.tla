---------------------------- MODULE ScansAndClient ----------------------------
(***************************************************************************)
(* The scans that share a report cache, which this module extends, beside  *)
(* the client of a language server, of which it is an instance: the two    *)
(* share no state.  TLC has one of them move while the other rests.        *)
(***************************************************************************)
EXTENDS ScanEngine, FiniteSets, TLC

CONSTANTS Requests, Cancellable, Asks, InCap, OutCap, None    \* LspClient

VARIABLES nextID, id, pc, outcome, pending, ch, writer, wmu, reader, readerErr,
          toClose, stdin, stdinState, stdout, received, exited, waited

clientVars == <<nextID, id, pc, outcome, pending, ch, writer, wmu, reader, readerErr,
                toClose, stdin, stdinState, stdout, received, exited, waited>>

Client == INSTANCE LspClient

(* What LspClient assumes of its constants.                                  *)
ClientAssumed ==
    /\ Requests \cap Asks = {}
    /\ None \notin Requests \cup Asks
    /\ IsFiniteSet(Requests)

ASSUME ClientConstants == ClientAssumed

(* What LspClient promises of its calls and of the wire.                     *)
AnswersOwnRequest == Client!AnswersOwnRequest
FramesWhole == Client!FramesWhole

Symmetry == Permutations(Pkgs) \cup Permutations(Scans)

EitherInit == Client!Init /\ Init

EitherNext ==
    \/ Init /\ Client!Next /\ UNCHANGED vars
    \/ Client!Init /\ Next /\ UNCHANGED clientVars

EitherSpec == EitherInit /\ [][EitherNext]_<<vars, clientVars>>
==============================================================================
