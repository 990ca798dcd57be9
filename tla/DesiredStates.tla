----------------------------- MODULE DesiredStates -----------------------------
(***************************************************************************)
(* The desired state of a project, which calls of AcceptViolation and      *)
(* SetDesiredState (engine/protocol.go) read and write without a lock, as  *)
(* a whole: the store has no other operation.                              *)
(***************************************************************************)
EXTENDS Naturals

CONSTANTS Accepts,    \* calls of AcceptViolation, each of a violation of its own
          Sets,       \* calls of SetDesiredState
          NoState

VARIABLES desired,    \* the stored state: whose rules, and what is accepted
          call,
          unseen      \* for the property: the calls that stored after each call
                      \* had read, for one of SetDesiredState all before it
vars == <<desired, call, unseen>>

Writers == Accepts \cup Sets

Init ==
    /\ desired = NoState
    /\ call = [c \in Writers |-> [at |-> "idle", ds |-> NoState]]
    /\ unseen = [c \in Writers |-> {}]

(* GetDesiredState finds nothing for a project that has none yet.            *)
DesiredOf(state) == IF state = NoState THEN [rules |-> NoState, accepted |-> {}] ELSE state

(* Mutation: the violation is all that is stored.                            *)
OnlyThis(c) == [DesiredOf(NoState) EXCEPT !.accepted = @ \cup {c}]

(* AcceptViolation reads the state and appends to its own copy.              *)
Accepted(c) == [DesiredOf(desired) EXCEPT !.accepted = @ \cup {c}]

GetDesiredState(c) ==
    /\ call[c].at = "idle"
    /\ call' = [call EXCEPT ![c] = [at |-> "put", ds |-> IF c \in Accepts THEN Accepted(c)
                                                         ELSE [rules |-> c, accepted |-> {}]]]
    /\ UNCHANGED <<desired, unseen>>

Fails(c) ==
    /\ call[c].at = "put"
    /\ call' = [call EXCEPT ![c].at = "failed"]
    /\ UNCHANGED <<desired, unseen>>

PutDesiredState(c) ==
    /\ call[c].at = "put"
    /\ desired' = call[c].ds
    /\ call' = [call EXCEPT ![c].at = "done"]
    /\ unseen' = [d \in Writers |-> IF d # c /\ (call[d].at = "put" \/ (d \in Sets /\ call[d].at = "idle"))
                                  THEN unseen[d] \cup {c}
                                  ELSE unseen[d]]

Next == \E c \in Writers : GetDesiredState(c) \/ Fails(c) \/ PutDesiredState(c)

Spec == Init /\ [][Next]_vars

------------------------------------------------------------------------------

(* What was accepted, and the rules that were set, stay until a state is     *)
(* stored whose writer had not seen them: an acceptance is lost to a         *)
(* concurrent one, and to every SetDesiredState.                             *)
AcceptedKept ==
    \A c \in Writers : call[c].at = "done" =>
      \/ c \in Accepts /\ c \in desired.accepted
      \/ desired.rules = c
      \/ \E d \in Writers : call[d].at = "done" /\ c \in unseen[d]
==============================================================================
