---------------------------- MODULE LspPoolProofs ----------------------------
(***************************************************************************)
(* Proofs about the pool of language servers, for any number of callers,   *)
(* keys, languages, limits and slots.  The inductive invariant IndInv      *)
(* counts claims: every entry, every Get that owns a token and every lost  *)
(* running server has a token of its own, and every entry, Get and lost    *)
(* server of a limited language a unit of its budget.  One lemma per step  *)
(* says how it changes the claims and the two counters.                    *)
(***************************************************************************)
EXTENDS LspPool, FiniteSetTheorems, TLAPS

(* A finite set that shrinks, gains an element, loses one, or trades one for *)
(* another.                                                                  *)
LEMMA CardinalityShrinks ==
    ASSUME NEW S, IsFiniteSet(S), NEW T, T \subseteq S
    PROVE  /\ Cardinality(S) \in Nat /\ Cardinality(T) \in Nat
           /\ Cardinality(T) <= Cardinality(S)
BY FS_Subset, FS_CardinalityType

(* A finite set that gains at most one element.                              *)
LEMMA CardinalityGains ==
    ASSUME NEW S, IsFiniteSet(S), NEW x, NEW T, T \subseteq S \cup {x}
    PROVE  /\ Cardinality(S) \in Nat /\ Cardinality(T) \in Nat
           /\ Cardinality(T) <= Cardinality(S) + 1
<1>1. Cardinality(S) \in Nat
  BY FS_CardinalityType
<1>2. /\ IsFiniteSet(S \cup {x})
      /\ Cardinality(S \cup {x}) = IF x \in S THEN Cardinality(S) ELSE Cardinality(S) + 1
  BY FS_AddElement
<1>3. Cardinality(T) \in Nat /\ Cardinality(T) <= Cardinality(S \cup {x})
  BY <1>2, CardinalityShrinks
<1>4. QED
  BY <1>1, <1>2, <1>3

(* A finite set that loses an element.                                       *)
LEMMA CardinalityLoses ==
    ASSUME NEW S, IsFiniteSet(S), NEW x \in S, NEW T, T \subseteq S \ {x}
    PROVE  /\ Cardinality(S) \in Nat /\ Cardinality(T) \in Nat
           /\ Cardinality(T) <= Cardinality(S) - 1
<1>1. Cardinality(S) \in Nat
  BY FS_CardinalityType
<1>2. /\ IsFiniteSet(S \ {x})
      /\ Cardinality(S \ {x}) = IF x \in S THEN Cardinality(S) - 1 ELSE Cardinality(S)
  BY FS_RemoveElement
<1>3. Cardinality(T) \in Nat /\ Cardinality(T) <= Cardinality(S \ {x})
  BY <1>2, CardinalityShrinks
<1>4. QED
  BY <1>1, <1>2, <1>3

(* A finite set that loses an element and gains at most one.                 *)
LEMMA CardinalityTrades ==
    ASSUME NEW S, IsFiniteSet(S), NEW x \in S, NEW y, NEW T, T \subseteq (S \ {x}) \cup {y}
    PROVE  /\ Cardinality(S) \in Nat /\ Cardinality(T) \in Nat
           /\ Cardinality(T) <= Cardinality(S)
<1>1. Cardinality(S) \in Nat
  BY FS_CardinalityType
<1>2. /\ IsFiniteSet(S \ {x})
      /\ Cardinality(S \ {x}) = IF x \in S THEN Cardinality(S) - 1 ELSE Cardinality(S)
  BY FS_RemoveElement
<1>3. /\ Cardinality(S \ {x}) \in Nat
      /\ Cardinality(T) \in Nat
      /\ Cardinality(T) <= Cardinality(S \ {x}) + 1
  BY <1>2, CardinalityGains
<1>4. QED
  BY <1>1, <1>2, <1>3

(* The claims on the pool's tokens and on a language's budget are finitely   *)
(* many in every state.                                                      *)
LEMMA ClaimsFinite ==
    /\ IsFiniteSet(Claims) /\ IsFiniteSet(Claims')
    /\ \A l : IsFiniteSet(LangClaims(l)) /\ IsFiniteSet(LangClaims(l)')
<1>1. IsFiniteSet(Keys \cup Callers \cup Servers)
  BY LspPoolAssumption, FS_Union
<1>2. /\ Claims \subseteq Keys \cup Callers \cup Servers
      /\ Claims' \subseteq Keys \cup Callers \cup Servers
  BY DEF Claims, ConnKeys, TokenHolders, Orphans, Running
<1>3. ASSUME NEW l
      PROVE  /\ LangClaims(l) \subseteq Keys \cup Callers \cup Servers
             /\ LangClaims(l)' \subseteq Keys \cup Callers \cup Servers
  BY DEF LangClaims, ConnKeys, InFlight, Orphans, Running
<1>4. QED
  BY <1>1, <1>2, <1>3, FS_Subset

------------------------------------------------------------------------------

(* A new pool: no entry, no token taken, no budget used.                     *)
LEMMA InitIndInv == Init => IndInv
<1> SUFFICES ASSUME Init PROVE IndInv
  OBVIOUS
<1> USE LspPoolAssumption
<1>1. TypeOK
  <2>1. sem \in 0..MaxActive /\ langActive \in [Limited -> Nat]
    BY DEF Init
  <2>2. QED
    BY <2>1 DEF Init, TypeOK, ProcState, PC
<1>2. CallersOK /\ ServersKnownOnce /\ TodoOK
  BY DEF Init, CallersOK, ServersKnownOnce, TodoOK
<1>3. ServersOK
  BY DEF Init, ServersOK, Running, ConnKeys
<1>4. Claims = {} /\ \A l : LangClaims(l) = {}
  BY DEF Init, Claims, LangClaims, ConnKeys, TokenHolders, TokenPCs, Orphans, Running,
         InFlight, InFlightPCs
<1>5. Cardinality(Claims) = 0 /\ \A l : Cardinality(LangClaims(l)) = 0
  BY <1>4, FS_EmptySet
<1>6. SlotsCoverServers /\ LangBudget
  BY <1>5 DEF Init, SlotsCoverServers, LangBudget
<1>7. QED
  BY <1>1, <1>2, <1>3, <1>6 DEF IndInv

(* A Get begins: it claims nothing yet.                                      *)
LEMMA CallStep ==
    ASSUME IndInv, NEW c \in Callers, NEW k \in Keys, Call(c, k)
    PROVE  IndInv'
<1> USE DEF IndInv
<1>1. TypeOK'
  BY DEF TypeOK, PC, ProcState, Call, Goto, pool
<1>2. CallersOK'
  BY DEF TypeOK, CallersOK, Call, Goto, pool
<1>3. ServersKnownOnce'
  BY DEF TypeOK, CallersOK, ServersKnownOnce, Call, Goto, pool
<1>4. ServersOK'
  BY DEF TypeOK, ProcState, CallersOK, ServersKnownOnce, ServersOK, Running, ConnKeys,
      InHand, Call, Goto, pool
<1>5. TodoOK'
  BY DEF TypeOK, TodoOK, ConnKeys, Call, Goto, pool
<1>6. SlotsCoverServers'
  <2>1. Claims' \subseteq Claims
    BY LspPoolAssumption
    DEF TypeOK, ProcState, CallersOK, ServersKnownOnce, ServersOK, TodoOK, Claims,
        ConnKeys, TokenHolders, TokenPCs, Orphans, Running, Tracked, InHand, Call,
        Goto, pool
  <2>2. /\ Cardinality(Claims) \in Nat /\ Cardinality(Claims') \in Nat
        /\ Cardinality(Claims') <= Cardinality(Claims)
    BY <2>1, ClaimsFinite, CardinalityShrinks
  <2>3. QED
    BY <2>2, LspPoolAssumption
    DEF TypeOK, SlotsCoverServers, Call, Goto, pool
<1>7. LangBudget'
  <2> SUFFICES ASSUME NEW l \in Limited
               PROVE  Cardinality(LangClaims(l)') <= langActive'[l] /\ langActive'[l] <= LimitOf[l]
    BY DEF LangBudget
  <2>1. LangClaims(l)' \subseteq LangClaims(l)
    BY LspPoolAssumption
    DEF TypeOK, ProcState, CallersOK, ServersKnownOnce, ServersOK, TodoOK,
        LangClaims, ConnKeys, InFlight, InFlightPCs, PC, Orphans, Running, Tracked,
        InHand, Call, Goto, pool
  <2>2. /\ Cardinality(LangClaims(l)) \in Nat /\ Cardinality(LangClaims(l)') \in Nat
        /\ Cardinality(LangClaims(l)') <= Cardinality(LangClaims(l))
    BY <2>1, ClaimsFinite, CardinalityShrinks
  <2>3. QED
    BY <2>2, LspPoolAssumption
    DEF TypeOK, LangBudget, Call, Goto, pool
<1>8. QED
  BY <1>1, <1>2, <1>3, <1>4, <1>5, <1>6, <1>7

(* Get on a pool that is shut down returns without touching the books.       *)
LEMMA GetStoppedStep ==
    ASSUME IndInv, NEW c \in Callers, GetStopped(c)
    PROVE  IndInv'
<1> USE DEF IndInv
<1>1. TypeOK'
  BY DEF TypeOK, PC, ProcState, GetStopped, Return, pool
<1>2. CallersOK'
  BY DEF TypeOK, CallersOK, GetStopped, Return, pool
<1>3. ServersKnownOnce'
  BY DEF TypeOK, CallersOK, ServersKnownOnce, GetStopped, Return, pool
<1>4. ServersOK'
  BY DEF TypeOK, ProcState, CallersOK, ServersKnownOnce, ServersOK, Running, ConnKeys,
      InHand, GetStopped, Return, pool
<1>5. TodoOK'
  BY DEF TypeOK, TodoOK, ConnKeys, GetStopped, Return, pool
<1>6. SlotsCoverServers'
  <2>1. Claims' \subseteq Claims
    BY LspPoolAssumption
    DEF TypeOK, ProcState, CallersOK, ServersKnownOnce, ServersOK, TodoOK, Claims,
        ConnKeys, TokenHolders, TokenPCs, Orphans, Running, Tracked, InHand,
        GetStopped, Return, pool
  <2>2. /\ Cardinality(Claims) \in Nat /\ Cardinality(Claims') \in Nat
        /\ Cardinality(Claims') <= Cardinality(Claims)
    BY <2>1, ClaimsFinite, CardinalityShrinks
  <2>3. QED
    BY <2>2, LspPoolAssumption
    DEF TypeOK, SlotsCoverServers, GetStopped, Return, pool
<1>7. LangBudget'
  <2> SUFFICES ASSUME NEW l \in Limited
               PROVE  Cardinality(LangClaims(l)') <= langActive'[l] /\ langActive'[l] <= LimitOf[l]
    BY DEF LangBudget
  <2>1. LangClaims(l)' \subseteq LangClaims(l)
    BY LspPoolAssumption
    DEF TypeOK, ProcState, CallersOK, ServersKnownOnce, ServersOK, TodoOK,
        LangClaims, ConnKeys, InFlight, InFlightPCs, PC, Orphans, Running, Tracked,
        InHand, GetStopped, Return, pool
  <2>2. /\ Cardinality(LangClaims(l)) \in Nat /\ Cardinality(LangClaims(l)') \in Nat
        /\ Cardinality(LangClaims(l)') <= Cardinality(LangClaims(l))
    BY <2>1, ClaimsFinite, CardinalityShrinks
  <2>3. QED
    BY <2>2, LspPoolAssumption
    DEF TypeOK, LangBudget, GetStopped, Return, pool
<1>8. QED
  BY <1>1, <1>2, <1>3, <1>4, <1>5, <1>6, <1>7

(* Get hands out a live entry: no claim changes.                             *)
LEMMA GetHitStep ==
    ASSUME IndInv, NEW c \in Callers, GetHit(c)
    PROVE  IndInv'
<1> USE DEF IndInv
<1>0. conns[key[c]] \in Servers
  BY DEF TypeOK, CallersOK, GetHit
<1>1. TypeOK'
  <2>1. usedBefore' \in SUBSET (Servers \X Servers)
    BY <1>0
    DEF TypeOK, CallersOK, Touched, GetHit
  <2>2. QED
    BY <2>1, <1>0
    DEF TypeOK, PC, ProcState, GetHit, Return, Touched
<1>2. CallersOK'
  BY <1>0
  DEF TypeOK, CallersOK, GetHit, Return, Touched
<1>3. ServersKnownOnce'
  BY <1>0
  DEF TypeOK, CallersOK, ServersKnownOnce, GetHit, Return, Touched
<1>4. ServersOK'
  BY <1>0
  DEF TypeOK, ProcState, CallersOK, ServersKnownOnce, ServersOK, Running, ConnKeys,
      InHand, GetHit, Return, Touched
<1>5. TodoOK'
  BY <1>0
  DEF TypeOK, TodoOK, ConnKeys, GetHit, Return, Touched
<1>6. SlotsCoverServers'
  <2>1. Claims' \subseteq Claims
    BY <1>0, LspPoolAssumption
    DEF TypeOK, ProcState, CallersOK, ServersKnownOnce, ServersOK, TodoOK, Claims,
        ConnKeys, TokenHolders, TokenPCs, Orphans, Running, Tracked, InHand, GetHit,
        Return, Touched
  <2>2. /\ Cardinality(Claims) \in Nat /\ Cardinality(Claims') \in Nat
        /\ Cardinality(Claims') <= Cardinality(Claims)
    BY <2>1, ClaimsFinite, CardinalityShrinks
  <2>3. QED
    BY <2>2, <1>0, LspPoolAssumption
    DEF TypeOK, SlotsCoverServers, GetHit, Return, Touched
<1>7. LangBudget'
  <2> SUFFICES ASSUME NEW l \in Limited
               PROVE  Cardinality(LangClaims(l)') <= langActive'[l] /\ langActive'[l] <= LimitOf[l]
    BY DEF LangBudget
  <2>1. LangClaims(l)' \subseteq LangClaims(l)
    BY <1>0, LspPoolAssumption
    DEF TypeOK, ProcState, CallersOK, ServersKnownOnce, ServersOK, TodoOK,
        LangClaims, ConnKeys, InFlight, InFlightPCs, PC, Orphans, Running, Tracked,
        InHand, GetHit, Return, Touched
  <2>2. /\ Cardinality(LangClaims(l)) \in Nat /\ Cardinality(LangClaims(l)') \in Nat
        /\ Cardinality(LangClaims(l)') <= Cardinality(LangClaims(l))
    BY <2>1, ClaimsFinite, CardinalityShrinks
  <2>3. QED
    BY <2>2, <1>0, <1>0, LspPoolAssumption
    DEF TypeOK, LangBudget, GetHit, Return, Touched
<1>8. QED
  BY <1>1, <1>2, <1>3, <1>4, <1>5, <1>6, <1>7

(* A Get takes a token from sem: one claim more, one token more.             *)
LEMMA TakeTokenStep ==
    ASSUME IndInv, NEW c \in Callers, pc[c] \in {"acquire", "retry", "wait"}, TakeToken(c)
    PROVE  IndInv'
<1> USE DEF IndInv
<1>1. TypeOK'
  <2>1. sem' \in 0..MaxActive
    BY LspPoolAssumption
    DEF TypeOK, TokenFree, TakeToken
  <2>2. QED
    BY <2>1
    DEF TypeOK, PC, ProcState, TakeToken, TokenFree, Goto
<1>2. CallersOK'
  BY DEF TypeOK, CallersOK, TakeToken, TokenFree, Goto
<1>3. ServersKnownOnce'
  BY DEF TypeOK, CallersOK, ServersKnownOnce, TakeToken, TokenFree, Goto
<1>4. ServersOK'
  BY DEF TypeOK, ProcState, CallersOK, ServersKnownOnce, ServersOK, Running, ConnKeys,
      InHand, TakeToken, TokenFree, Goto
<1>5. TodoOK'
  BY DEF TypeOK, TodoOK, ConnKeys, TakeToken, TokenFree, Goto
<1>6. SlotsCoverServers'
  <2>1. Claims' \subseteq Claims \cup {c}
    BY LspPoolAssumption
    DEF TypeOK, ProcState, CallersOK, ServersKnownOnce, ServersOK, TodoOK, Claims,
        ConnKeys, TokenHolders, TokenPCs, Orphans, Running, Tracked, InHand,
        TakeToken, TokenFree, Goto
  <2>2. /\ Cardinality(Claims) \in Nat /\ Cardinality(Claims') \in Nat
        /\ Cardinality(Claims') <= Cardinality(Claims) + 1
    BY <2>1, ClaimsFinite, CardinalityGains
  <2>3. QED
    BY <2>2, LspPoolAssumption
    DEF TypeOK, SlotsCoverServers, TakeToken, TokenFree, Goto
<1>7. LangBudget'
  <2> SUFFICES ASSUME NEW l \in Limited
               PROVE  Cardinality(LangClaims(l)') <= langActive'[l] /\ langActive'[l] <= LimitOf[l]
    BY DEF LangBudget
  <2>1. LangClaims(l)' \subseteq LangClaims(l)
    BY LspPoolAssumption
    DEF TypeOK, ProcState, CallersOK, ServersKnownOnce, ServersOK, TodoOK,
        LangClaims, ConnKeys, InFlight, InFlightPCs, PC, Orphans, Running, Tracked,
        InHand, TakeToken, TokenFree, Goto
  <2>2. /\ Cardinality(LangClaims(l)) \in Nat /\ Cardinality(LangClaims(l)') \in Nat
        /\ Cardinality(LangClaims(l)') <= Cardinality(LangClaims(l))
    BY <2>1, ClaimsFinite, CardinalityShrinks
  <2>3. QED
    BY <2>2, LspPoolAssumption
    DEF TypeOK, LangBudget, TakeToken, TokenFree, Goto
<1>8. QED
  BY <1>1, <1>2, <1>3, <1>4, <1>5, <1>6, <1>7

(* A Get that goes on without touching the pool.                              *)
LEMMA MoveOnStep ==
    ASSUME IndInv, NEW c \in Callers, NEW next \in InFlightPCs, pc[c] \in InFlightPCs,
           pc[c] \notin {"evicting", "init", "insert"}, next \notin {"evicting", "init", "insert"},
           next \in TokenPCs => pc[c] \in TokenPCs, MoveOn(c, next)
    PROVE  IndInv'
<1> USE DEF IndInv
<1>1. TypeOK'
  BY DEF TypeOK, PC, ProcState, MoveOn, Goto, pool, InFlightPCs, TokenPCs
<1>2. CallersOK'
  BY DEF TypeOK, CallersOK, MoveOn, Goto, pool, InFlightPCs, TokenPCs
<1>3. ServersKnownOnce'
  BY DEF TypeOK, CallersOK, ServersKnownOnce, MoveOn, Goto, pool, InFlightPCs, TokenPCs
<1>4. ServersOK'
  BY DEF TypeOK, ProcState, CallersOK, ServersKnownOnce, ServersOK, Running, ConnKeys,
      InHand, MoveOn, Goto, pool, InFlightPCs, TokenPCs
<1>5. TodoOK'
  BY DEF TypeOK, TodoOK, ConnKeys, MoveOn, Goto, pool, InFlightPCs, TokenPCs
<1>6. SlotsCoverServers'
  <2>1. Claims' \subseteq Claims
    BY LspPoolAssumption
    DEF TypeOK, ProcState, CallersOK, ServersKnownOnce, ServersOK, TodoOK, Claims,
        ConnKeys, TokenHolders, TokenPCs, Orphans, Running, Tracked, InHand, MoveOn,
        Goto, pool, InFlightPCs, TokenPCs
  <2>2. /\ Cardinality(Claims) \in Nat /\ Cardinality(Claims') \in Nat
        /\ Cardinality(Claims') <= Cardinality(Claims)
    BY <2>1, ClaimsFinite, CardinalityShrinks
  <2>3. QED
    BY <2>2, LspPoolAssumption
    DEF TypeOK, SlotsCoverServers, MoveOn, Goto, pool, InFlightPCs, TokenPCs
<1>7. LangBudget'
  <2> SUFFICES ASSUME NEW l \in Limited
               PROVE  Cardinality(LangClaims(l)') <= langActive'[l] /\ langActive'[l] <= LimitOf[l]
    BY DEF LangBudget
  <2>1. LangClaims(l)' \subseteq LangClaims(l)
    BY LspPoolAssumption
    DEF TypeOK, ProcState, CallersOK, ServersKnownOnce, ServersOK, TodoOK,
        LangClaims, ConnKeys, InFlight, InFlightPCs, PC, Orphans, Running, Tracked,
        InHand, MoveOn, Goto, pool, InFlightPCs, TokenPCs
  <2>2. /\ Cardinality(LangClaims(l)) \in Nat /\ Cardinality(LangClaims(l)') \in Nat
        /\ Cardinality(LangClaims(l)') <= Cardinality(LangClaims(l))
    BY <2>1, ClaimsFinite, CardinalityShrinks
  <2>3. QED
    BY <2>2, LspPoolAssumption
    DEF TypeOK, LangBudget, MoveOn, Goto, pool, InFlightPCs, TokenPCs
<1>8. QED
  BY <1>1, <1>2, <1>3, <1>4, <1>5, <1>6, <1>7

(* Get's error path gives back the unit of the language that it took.        *)
LEMMA GiveUpStep ==
    ASSUME IndInv, NEW c \in Callers, GiveUp(c)
    PROVE  IndInv'
<1> USE DEF IndInv
<1>0. LangOf[key[c]] \in Limited => langActive[LangOf[key[c]]] > 0
  <2> SUFFICES ASSUME LangOf[key[c]] \in Limited
               PROVE  langActive[LangOf[key[c]]] > 0
    OBVIOUS
  <2>1. c \in LangClaims(LangOf[key[c]])
    BY DEF LangClaims, InFlight, InFlightPCs, PC, GiveUp
  <2>2. /\ Cardinality(LangClaims(LangOf[key[c]])) \in Nat
        /\ Cardinality({}) = 0
        /\ Cardinality({}) <= Cardinality(LangClaims(LangOf[key[c]])) - 1
    BY <2>1, ClaimsFinite, CardinalityLoses, FS_EmptySet
  <2>3. QED
    BY <2>2 DEF TypeOK, LangBudget
<1>1. TypeOK'
  <2>1. langActive' \in [Limited -> Nat]
    BY <1>0
    DEF TypeOK, GiveUp, LangReturned
  <2>2. QED
    BY <2>1
    DEF TypeOK, PC, ProcState, GiveUp, Return
<1>2. CallersOK'
  BY DEF TypeOK, CallersOK, GiveUp, Return
<1>3. ServersKnownOnce'
  BY DEF TypeOK, CallersOK, ServersKnownOnce, GiveUp, Return
<1>4. ServersOK'
  BY DEF TypeOK, ProcState, CallersOK, ServersKnownOnce, ServersOK, Running, ConnKeys,
      InHand, GiveUp, Return
<1>5. TodoOK'
  BY DEF TypeOK, TodoOK, ConnKeys, GiveUp, Return
<1>6. SlotsCoverServers'
  <2>1. Claims' \subseteq Claims
    BY LspPoolAssumption
    DEF TypeOK, ProcState, CallersOK, ServersKnownOnce, ServersOK, TodoOK, Claims,
        ConnKeys, TokenHolders, TokenPCs, Orphans, Running, Tracked, InHand, GiveUp,
        Return
  <2>2. /\ Cardinality(Claims) \in Nat /\ Cardinality(Claims') \in Nat
        /\ Cardinality(Claims') <= Cardinality(Claims)
    BY <2>1, ClaimsFinite, CardinalityShrinks
  <2>3. QED
    BY <2>2, LspPoolAssumption
    DEF TypeOK, SlotsCoverServers, GiveUp, Return
<1>7. LangBudget'
  <2> SUFFICES ASSUME NEW l \in Limited
               PROVE  Cardinality(LangClaims(l)') <= langActive'[l] /\ langActive'[l] <= LimitOf[l]
    BY DEF LangBudget
  <2>1. CASE l = LangOf[key[c]]
    <3>1. c \in LangClaims(l) /\ LangClaims(l)' \subseteq LangClaims(l) \ {c}
      BY <2>1, LspPoolAssumption
      DEF TypeOK, ProcState, CallersOK, ServersKnownOnce, ServersOK, TodoOK,
          LangClaims, ConnKeys, InFlight, InFlightPCs, PC, Orphans, Running,
          Tracked, InHand, GiveUp, Return
    <3>2. /\ Cardinality(LangClaims(l)) \in Nat /\ Cardinality(LangClaims(l)') \in Nat
          /\ Cardinality(LangClaims(l)') <= Cardinality(LangClaims(l)) - 1
      BY <3>1, ClaimsFinite, CardinalityLoses
    <3>3. QED
      BY <3>2, <2>1, LspPoolAssumption
      DEF TypeOK, LangBudget, LangReturned, GiveUp, Return
  <2>2. CASE l # LangOf[key[c]]
    <3>1. LangClaims(l)' \subseteq LangClaims(l)
      BY <2>2, LspPoolAssumption
      DEF TypeOK, ProcState, CallersOK, ServersKnownOnce, ServersOK, TodoOK,
          LangClaims, ConnKeys, InFlight, InFlightPCs, PC, Orphans, Running,
          Tracked, InHand, GiveUp, Return
    <3>2. /\ Cardinality(LangClaims(l)) \in Nat /\ Cardinality(LangClaims(l)') \in Nat
          /\ Cardinality(LangClaims(l)') <= Cardinality(LangClaims(l))
      BY <3>1, ClaimsFinite, CardinalityShrinks
    <3>3. QED
      BY <3>2, <2>2, LspPoolAssumption
      DEF TypeOK, LangBudget, LangReturned, GiveUp, Return
  <2>3. QED
    BY <2>1, <2>2
<1>8. QED
  BY <1>1, <1>2, <1>3, <1>4, <1>5, <1>6, <1>7

(* A Get whose spawn failed gives its own token back.                        *)
LEMMA ReleaseTokenStep ==
    ASSUME IndInv, NEW c \in Callers, ReleaseToken(c)
    PROVE  IndInv'
<1> USE DEF IndInv
<1>1. TypeOK'
  <2>1. sem' \in 0..MaxActive
    BY LspPoolAssumption
    DEF TypeOK, Drained, ReleaseToken
  <2>2. QED
    BY <2>1
    DEF TypeOK, PC, ProcState, ReleaseToken, Goto
<1>2. CallersOK'
  BY DEF TypeOK, CallersOK, ReleaseToken, Goto
<1>3. ServersKnownOnce'
  BY DEF TypeOK, CallersOK, ServersKnownOnce, ReleaseToken, Goto
<1>4. ServersOK'
  BY DEF TypeOK, ProcState, CallersOK, ServersKnownOnce, ServersOK, Running, ConnKeys,
      InHand, ReleaseToken, Goto
<1>5. TodoOK'
  BY DEF TypeOK, TodoOK, ConnKeys, ReleaseToken, Goto
<1>6. SlotsCoverServers'
  <2>1. c \in Claims /\ Claims' \subseteq Claims \ {c}
    BY LspPoolAssumption
    DEF TypeOK, ProcState, CallersOK, ServersKnownOnce, ServersOK, TodoOK, Claims,
        ConnKeys, TokenHolders, TokenPCs, Orphans, Running, Tracked, InHand,
        ReleaseToken, Goto
  <2>2. /\ Cardinality(Claims) \in Nat /\ Cardinality(Claims') \in Nat
        /\ Cardinality(Claims') <= Cardinality(Claims) - 1
    BY <2>1, ClaimsFinite, CardinalityLoses
  <2>3. QED
    BY <2>2, LspPoolAssumption
    DEF TypeOK, SlotsCoverServers, Drained, ReleaseToken, Goto
<1>7. LangBudget'
  <2> SUFFICES ASSUME NEW l \in Limited
               PROVE  Cardinality(LangClaims(l)') <= langActive'[l] /\ langActive'[l] <= LimitOf[l]
    BY DEF LangBudget
  <2>1. LangClaims(l)' \subseteq LangClaims(l)
    BY LspPoolAssumption
    DEF TypeOK, ProcState, CallersOK, ServersKnownOnce, ServersOK, TodoOK,
        LangClaims, ConnKeys, InFlight, InFlightPCs, PC, Orphans, Running, Tracked,
        InHand, ReleaseToken, Goto
  <2>2. /\ Cardinality(LangClaims(l)) \in Nat /\ Cardinality(LangClaims(l)') \in Nat
        /\ Cardinality(LangClaims(l)') <= Cardinality(LangClaims(l))
    BY <2>1, ClaimsFinite, CardinalityShrinks
  <2>3. QED
    BY <2>2, LspPoolAssumption
    DEF TypeOK, LangBudget, ReleaseToken, Goto
<1>8. QED
  BY <1>1, <1>2, <1>3, <1>4, <1>5, <1>6, <1>7

(* A Get that has a token starts a server, under the claim it already has.   *)
LEMMA SpawnStartStep ==
    ASSUME IndInv, NEW c \in Callers, SpawnStart(c)
    PROVE  IndInv'
<1> USE DEF IndInv
<1>0. PICK s \in Servers :
         /\ proc[s] = "dead" /\ s \notin Tracked \cup InHand
         /\ proc' = [proc EXCEPT ![s] = "starting"]
         /\ home' = [home EXCEPT ![s] = key[c]]
         /\ held' = [held EXCEPT ![c] = s]
  BY DEF SpawnStart, Hold
<1>1. TypeOK'
  BY <1>0
  DEF TypeOK, PC, ProcState, SpawnStart, Goto, Hold, pool
<1>2. CallersOK'
  BY <1>0, LspPoolAssumption
  DEF TypeOK, CallersOK, SpawnStart, Goto, Hold, pool
<1>3. ServersKnownOnce'
  BY <1>0, LspPoolAssumption
  DEF TypeOK, CallersOK, ServersKnownOnce, Tracked, InHand, SpawnStart, Goto, Hold,
      pool
<1>4. ServersOK'
  BY <1>0, LspPoolAssumption
  DEF TypeOK, ProcState, CallersOK, ServersKnownOnce, ServersOK, Running, ConnKeys,
      InHand, Tracked, SpawnStart, Goto, Hold, pool
<1>5. TodoOK'
  BY <1>0
  DEF TypeOK, TodoOK, ConnKeys, SpawnStart, Goto, Hold, pool
<1>6. SlotsCoverServers'
  <2>1. Claims' \subseteq Claims
    BY <1>0, LspPoolAssumption
    DEF TypeOK, ProcState, CallersOK, ServersKnownOnce, ServersOK, TodoOK, Claims,
        ConnKeys, TokenHolders, TokenPCs, Orphans, Running, Tracked, InHand,
        SpawnStart, Goto, Hold, pool
  <2>2. /\ Cardinality(Claims) \in Nat /\ Cardinality(Claims') \in Nat
        /\ Cardinality(Claims') <= Cardinality(Claims)
    BY <2>1, ClaimsFinite, CardinalityShrinks
  <2>3. QED
    BY <2>2, <1>0, LspPoolAssumption
    DEF TypeOK, SlotsCoverServers, SpawnStart, Goto, Hold, pool
<1>7. LangBudget'
  <2> SUFFICES ASSUME NEW l \in Limited
               PROVE  Cardinality(LangClaims(l)') <= langActive'[l] /\ langActive'[l] <= LimitOf[l]
    BY DEF LangBudget
  <2>1. LangClaims(l)' \subseteq LangClaims(l)
    BY <1>0, LspPoolAssumption
    DEF TypeOK, ProcState, CallersOK, ServersKnownOnce, ServersOK, TodoOK,
        LangClaims, ConnKeys, InFlight, InFlightPCs, PC, Orphans, Running, Tracked,
        InHand, SpawnStart, Goto, Hold, pool
  <2>2. /\ Cardinality(LangClaims(l)) \in Nat /\ Cardinality(LangClaims(l)') \in Nat
        /\ Cardinality(LangClaims(l)') <= Cardinality(LangClaims(l))
    BY <2>1, ClaimsFinite, CardinalityShrinks
  <2>3. QED
    BY <2>2, <1>0, <1>0, LspPoolAssumption
    DEF TypeOK, LangBudget, SpawnStart, Goto, Hold, pool
<1>8. QED
  BY <1>1, <1>2, <1>3, <1>4, <1>5, <1>6, <1>7

(* The handshake succeeds: the server stays in the hands of its Get.         *)
LEMMA InitAnsweredStep ==
    ASSUME IndInv, NEW c \in Callers, InitAnswered(c)
    PROVE  IndInv'
<1> USE DEF IndInv
<1>0. held[c] \in Servers
  BY DEF TypeOK, CallersOK, InitAnswered
<1>1. TypeOK'
  <2>1. usedBefore' \in SUBSET (Servers \X Servers)
    BY <1>0
    DEF TypeOK, CallersOK, Touched, InitAnswered
  <2>2. QED
    BY <2>1, <1>0
    DEF TypeOK, PC, ProcState, InitAnswered, Goto, Touched
<1>2. CallersOK'
  BY <1>0
  DEF TypeOK, CallersOK, InitAnswered, Goto, Touched
<1>3. ServersKnownOnce'
  BY <1>0
  DEF TypeOK, CallersOK, ServersKnownOnce, InitAnswered, Goto, Touched
<1>4. ServersOK'
  BY <1>0
  DEF TypeOK, ProcState, CallersOK, ServersKnownOnce, ServersOK, Running, ConnKeys,
      InHand, InitAnswered, Goto, Touched
<1>5. TodoOK'
  BY <1>0
  DEF TypeOK, TodoOK, ConnKeys, InitAnswered, Goto, Touched
<1>6. SlotsCoverServers'
  <2>1. Claims' \subseteq Claims
    BY <1>0, LspPoolAssumption
    DEF TypeOK, ProcState, CallersOK, ServersKnownOnce, ServersOK, TodoOK, Claims,
        ConnKeys, TokenHolders, TokenPCs, Orphans, Running, Tracked, InHand,
        InitAnswered, Goto, Touched
  <2>2. /\ Cardinality(Claims) \in Nat /\ Cardinality(Claims') \in Nat
        /\ Cardinality(Claims') <= Cardinality(Claims)
    BY <2>1, ClaimsFinite, CardinalityShrinks
  <2>3. QED
    BY <2>2, <1>0, LspPoolAssumption
    DEF TypeOK, SlotsCoverServers, InitAnswered, Goto, Touched
<1>7. LangBudget'
  <2> SUFFICES ASSUME NEW l \in Limited
               PROVE  Cardinality(LangClaims(l)') <= langActive'[l] /\ langActive'[l] <= LimitOf[l]
    BY DEF LangBudget
  <2>1. LangClaims(l)' \subseteq LangClaims(l)
    BY <1>0, LspPoolAssumption
    DEF TypeOK, ProcState, CallersOK, ServersKnownOnce, ServersOK, TodoOK,
        LangClaims, ConnKeys, InFlight, InFlightPCs, PC, Orphans, Running, Tracked,
        InHand, InitAnswered, Goto, Touched
  <2>2. /\ Cardinality(LangClaims(l)) \in Nat /\ Cardinality(LangClaims(l)') \in Nat
        /\ Cardinality(LangClaims(l)') <= Cardinality(LangClaims(l))
    BY <2>1, ClaimsFinite, CardinalityShrinks
  <2>3. QED
    BY <2>2, <1>0, <1>0, LspPoolAssumption
    DEF TypeOK, LangBudget, InitAnswered, Goto, Touched
<1>8. QED
  BY <1>1, <1>2, <1>3, <1>4, <1>5, <1>6, <1>7

(* The handshake fails: the Get keeps its token until it releases it.        *)
LEMMA InitFailedStep ==
    ASSUME IndInv, NEW c \in Callers, InitFailed(c)
    PROVE  IndInv'
<1> USE DEF IndInv
<1>1. TypeOK'
  BY DEF TypeOK, PC, ProcState, InitFailed, Goto, Hold, pool
<1>2. CallersOK'
  BY DEF TypeOK, CallersOK, InitFailed, Goto, Hold, pool
<1>3. ServersKnownOnce'
  BY DEF TypeOK, CallersOK, ServersKnownOnce, InitFailed, Goto, Hold, pool
<1>4. ServersOK'
  BY DEF TypeOK, ProcState, CallersOK, ServersKnownOnce, ServersOK, Running, ConnKeys,
      InHand, InitFailed, Goto, Hold, pool
<1>5. TodoOK'
  BY DEF TypeOK, TodoOK, ConnKeys, InitFailed, Goto, Hold, pool
<1>6. SlotsCoverServers'
  <2>1. Claims' \subseteq Claims
    BY LspPoolAssumption
    DEF TypeOK, ProcState, CallersOK, ServersKnownOnce, ServersOK, TodoOK, Claims,
        ConnKeys, TokenHolders, TokenPCs, Orphans, Running, Tracked, InHand,
        InitFailed, Goto, Hold, pool
  <2>2. /\ Cardinality(Claims) \in Nat /\ Cardinality(Claims') \in Nat
        /\ Cardinality(Claims') <= Cardinality(Claims)
    BY <2>1, ClaimsFinite, CardinalityShrinks
  <2>3. QED
    BY <2>2, LspPoolAssumption
    DEF TypeOK, SlotsCoverServers, InitFailed, Goto, Hold, pool
<1>7. LangBudget'
  <2> SUFFICES ASSUME NEW l \in Limited
               PROVE  Cardinality(LangClaims(l)') <= langActive'[l] /\ langActive'[l] <= LimitOf[l]
    BY DEF LangBudget
  <2>1. LangClaims(l)' \subseteq LangClaims(l)
    BY LspPoolAssumption
    DEF TypeOK, ProcState, CallersOK, ServersKnownOnce, ServersOK, TodoOK,
        LangClaims, ConnKeys, InFlight, InFlightPCs, PC, Orphans, Running, Tracked,
        InHand, InitFailed, Goto, Hold, pool
  <2>2. /\ Cardinality(LangClaims(l)) \in Nat /\ Cardinality(LangClaims(l)') \in Nat
        /\ Cardinality(LangClaims(l)') <= Cardinality(LangClaims(l))
    BY <2>1, ClaimsFinite, CardinalityShrinks
  <2>3. QED
    BY <2>2, LspPoolAssumption
    DEF TypeOK, LangBudget, InitFailed, Goto, Hold, pool
<1>8. QED
  BY <1>1, <1>2, <1>3, <1>4, <1>5, <1>6, <1>7

(* An eviction ends: the token of the evicted server is drained.             *)
LEMMA EvictFinishStep ==
    ASSUME IndInv, NEW c \in Callers, pc[c] = "evicting", proc[held[c]] = "up" \/ Gone(held[c]), EvictFinish(c)
    PROVE  IndInv'
<1> USE DEF IndInv
<1>1. TypeOK'
  <2>1. sem' \in 0..MaxActive
    BY LspPoolAssumption
    DEF TypeOK, Drained, EvictFinish
  <2>2. QED
    BY <2>1
    DEF TypeOK, PC, ProcState, EvictFinish, ShutDown, Drained, Gone, Goto, Hold
<1>2. CallersOK'
  BY DEF TypeOK, CallersOK, EvictFinish, ShutDown, Drained, Gone, Goto, Hold
<1>3. ServersKnownOnce'
  BY DEF TypeOK, CallersOK, ServersKnownOnce, EvictFinish, ShutDown, Drained, Gone,
      Goto, Hold
<1>4. ServersOK'
  BY DEF TypeOK, ProcState, CallersOK, ServersKnownOnce, ServersOK, Running, ConnKeys,
      InHand, EvictFinish, ShutDown, Drained, Gone, Goto, Hold
<1>5. TodoOK'
  BY DEF TypeOK, TodoOK, ConnKeys, EvictFinish, ShutDown, Drained, Gone, Goto, Hold
<1>6. SlotsCoverServers'
  <2>1. c \in Claims /\ Claims' \subseteq Claims \ {c}
    BY LspPoolAssumption
    DEF TypeOK, ProcState, CallersOK, ServersKnownOnce, ServersOK, TodoOK, Claims,
        ConnKeys, TokenHolders, TokenPCs, Orphans, Running, Tracked, InHand,
        EvictFinish, ShutDown, Drained, Gone, Goto, Hold
  <2>2. /\ Cardinality(Claims) \in Nat /\ Cardinality(Claims') \in Nat
        /\ Cardinality(Claims') <= Cardinality(Claims) - 1
    BY <2>1, ClaimsFinite, CardinalityLoses
  <2>3. QED
    BY <2>2, LspPoolAssumption
    DEF TypeOK, SlotsCoverServers, EvictFinish, ShutDown, Drained, Gone, Goto, Hold
<1>7. LangBudget'
  <2> SUFFICES ASSUME NEW l \in Limited
               PROVE  Cardinality(LangClaims(l)') <= langActive'[l] /\ langActive'[l] <= LimitOf[l]
    BY DEF LangBudget
  <2>1. LangClaims(l)' \subseteq LangClaims(l)
    BY LspPoolAssumption
    DEF TypeOK, ProcState, CallersOK, ServersKnownOnce, ServersOK, TodoOK,
        LangClaims, ConnKeys, InFlight, InFlightPCs, PC, Orphans, Running, Tracked,
        InHand, EvictFinish, ShutDown, Drained, Gone, Goto, Hold
  <2>2. /\ Cardinality(LangClaims(l)) \in Nat /\ Cardinality(LangClaims(l)') \in Nat
        /\ Cardinality(LangClaims(l)') <= Cardinality(LangClaims(l))
    BY <2>1, ClaimsFinite, CardinalityShrinks
  <2>3. QED
    BY <2>2, LspPoolAssumption
    DEF TypeOK, LangBudget, EvictFinish, ShutDown, Drained, Gone, Goto, Hold
<1>8. QED
  BY <1>1, <1>2, <1>3, <1>4, <1>5, <1>6, <1>7

(* A full language refuses a Get; a dead entry found by it leaves with its token. *)
LEMMA GetRefusedStep ==
    ASSUME IndInv, NEW c \in Callers, GetRefused(c)
    PROVE  IndInv'
<1> USE DEF IndInv
<1>0. key[c] \in Keys
  BY DEF CallersOK, Miss, GetRefused, GetAdmitted
<1>1. TypeOK'
  <2>1. sem' \in 0..MaxActive
    BY LspPoolAssumption
    DEF TypeOK, Drained, GetRefused, Miss
  <2>2. QED
    BY <2>1, <1>0
    DEF TypeOK, PC, ProcState, DeadKeys, GetRefused, Miss, Return
<1>2. CallersOK'
  BY <1>0
  DEF TypeOK, CallersOK, DeadKeys, GetRefused, Miss, Return
<1>3. ServersKnownOnce'
  BY <1>0
  DEF TypeOK, CallersOK, ServersKnownOnce, DeadKeys, GetRefused, Miss, Return
<1>4. ServersOK'
  BY <1>0
  DEF TypeOK, ProcState, CallersOK, ServersKnownOnce, ServersOK, Running, ConnKeys,
      InHand, DeadKeys, GetRefused, Miss, Return
<1>5. TodoOK'
  BY <1>0
  DEF TypeOK, TodoOK, ConnKeys, DeadKeys, GetRefused, Miss, Return
<1>6. SlotsCoverServers'
  <2>1. CASE key[c] \in DeadKeys
    <3>1. key[c] \in Claims /\ Claims' \subseteq Claims \ {key[c]}
      BY <2>1, <1>0, LspPoolAssumption
      DEF TypeOK, ProcState, CallersOK, ServersKnownOnce, ServersOK, TodoOK, Claims,
          ConnKeys, TokenHolders, TokenPCs, Orphans, Running, Tracked, InHand,
          DeadKeys, GetRefused, Miss, Return
    <3>2. /\ Cardinality(Claims) \in Nat /\ Cardinality(Claims') \in Nat
          /\ Cardinality(Claims') <= Cardinality(Claims) - 1
      BY <3>1, ClaimsFinite, CardinalityLoses
    <3>3. QED
      BY <2>1, <3>2, <1>0, LspPoolAssumption
      DEF TypeOK, SlotsCoverServers, Drained, DeadKeys, GetRefused, Miss, Return
  <2>2. CASE key[c] \notin DeadKeys
    <3>1. Claims' \subseteq Claims
      BY <2>2, <1>0, LspPoolAssumption
      DEF TypeOK, ProcState, CallersOK, ServersKnownOnce, ServersOK, TodoOK, Claims,
          ConnKeys, TokenHolders, TokenPCs, Orphans, Running, Tracked, InHand,
          DeadKeys, GetRefused, Miss, Return
    <3>2. /\ Cardinality(Claims) \in Nat /\ Cardinality(Claims') \in Nat
          /\ Cardinality(Claims') <= Cardinality(Claims)
      BY <3>1, ClaimsFinite, CardinalityShrinks
    <3>3. QED
      BY <2>2, <3>2, <1>0, LspPoolAssumption
      DEF TypeOK, SlotsCoverServers, DeadKeys, GetRefused, Miss, Return
  <2>3. QED
    BY <2>1, <2>2, <1>0
    DEF DeadKeys, GetRefused, Miss, Return
<1>7. LangBudget'
  <2> SUFFICES ASSUME NEW l \in Limited
               PROVE  Cardinality(LangClaims(l)') <= langActive'[l] /\ langActive'[l] <= LimitOf[l]
    BY DEF LangBudget
  <2>1. LangClaims(l)' \subseteq LangClaims(l)
    BY <1>0, LspPoolAssumption
    DEF TypeOK, ProcState, CallersOK, ServersKnownOnce, ServersOK, TodoOK,
        LangClaims, ConnKeys, InFlight, InFlightPCs, PC, Orphans, Running, Tracked,
        InHand, DeadKeys, GetRefused, Miss, Return
  <2>2. /\ Cardinality(LangClaims(l)) \in Nat /\ Cardinality(LangClaims(l)') \in Nat
        /\ Cardinality(LangClaims(l)') <= Cardinality(LangClaims(l))
    BY <2>1, ClaimsFinite, CardinalityShrinks
  <2>3. QED
    BY <2>2, <1>0, <1>0, LspPoolAssumption
    DEF TypeOK, LangBudget, DeadKeys, GetRefused, Miss, Return
<1>8. QED
  BY <1>1, <1>2, <1>3, <1>4, <1>5, <1>6, <1>7

(* A Get takes a unit of its language; a dead entry found by it leaves with its token *)
(* and its unit stays counted.                                               *)
LEMMA GetAdmittedStep ==
    ASSUME IndInv, NEW c \in Callers, GetAdmitted(c)
    PROVE  IndInv'
<1> USE DEF IndInv
<1>0. key[c] \in Keys
  BY DEF CallersOK, Miss, GetRefused, GetAdmitted
<1>1. TypeOK'
  <2>1. sem' \in 0..MaxActive
    BY LspPoolAssumption
    DEF TypeOK, Drained, GetAdmitted, Miss
  <2>2. langActive' \in [Limited -> Nat]
    BY DEF TypeOK, GetAdmitted, LangTaken
  <2>3. QED
    BY <2>1, <2>2, <1>0
    DEF TypeOK, PC, ProcState, DeadKeys, GetAdmitted, Miss, Goto
<1>2. CallersOK'
  BY <1>0
  DEF TypeOK, CallersOK, DeadKeys, GetAdmitted, Miss, Goto
<1>3. ServersKnownOnce'
  BY <1>0
  DEF TypeOK, CallersOK, ServersKnownOnce, DeadKeys, GetAdmitted, Miss, Goto
<1>4. ServersOK'
  BY <1>0
  DEF TypeOK, ProcState, CallersOK, ServersKnownOnce, ServersOK, Running, ConnKeys,
      InHand, DeadKeys, GetAdmitted, Miss, Goto
<1>5. TodoOK'
  BY <1>0
  DEF TypeOK, TodoOK, ConnKeys, DeadKeys, GetAdmitted, Miss, Goto
<1>6. SlotsCoverServers'
  <2>1. CASE key[c] \in DeadKeys
    <3>1. key[c] \in Claims /\ Claims' \subseteq Claims \ {key[c]}
      BY <2>1, <1>0, LspPoolAssumption
      DEF TypeOK, ProcState, CallersOK, ServersKnownOnce, ServersOK, TodoOK, Claims,
          ConnKeys, TokenHolders, TokenPCs, Orphans, Running, Tracked, InHand,
          DeadKeys, GetAdmitted, Miss, Goto
    <3>2. /\ Cardinality(Claims) \in Nat /\ Cardinality(Claims') \in Nat
          /\ Cardinality(Claims') <= Cardinality(Claims) - 1
      BY <3>1, ClaimsFinite, CardinalityLoses
    <3>3. QED
      BY <2>1, <3>2, <1>0, LspPoolAssumption
      DEF TypeOK, SlotsCoverServers, Drained, DeadKeys, GetAdmitted, Miss, Goto
  <2>2. CASE key[c] \notin DeadKeys
    <3>1. Claims' \subseteq Claims
      BY <2>2, <1>0, LspPoolAssumption
      DEF TypeOK, ProcState, CallersOK, ServersKnownOnce, ServersOK, TodoOK, Claims,
          ConnKeys, TokenHolders, TokenPCs, Orphans, Running, Tracked, InHand,
          DeadKeys, GetAdmitted, Miss, Goto
    <3>2. /\ Cardinality(Claims) \in Nat /\ Cardinality(Claims') \in Nat
          /\ Cardinality(Claims') <= Cardinality(Claims)
      BY <3>1, ClaimsFinite, CardinalityShrinks
    <3>3. QED
      BY <2>2, <3>2, <1>0, LspPoolAssumption
      DEF TypeOK, SlotsCoverServers, DeadKeys, GetAdmitted, Miss, Goto
  <2>3. QED
    BY <2>1, <2>2, <1>0
    DEF DeadKeys, GetAdmitted, Miss, Goto
<1>7. LangBudget'
  <2> SUFFICES ASSUME NEW l \in Limited
               PROVE  Cardinality(LangClaims(l)') <= langActive'[l] /\ langActive'[l] <= LimitOf[l]
    BY DEF LangBudget
  <2>1. CASE l = LangOf[key[c]]
    <3>1. LangClaims(l)' \subseteq LangClaims(l) \cup {c}
      BY <2>1, <1>0, LspPoolAssumption
      DEF TypeOK, ProcState, CallersOK, ServersKnownOnce, ServersOK, TodoOK,
          LangClaims, ConnKeys, InFlight, InFlightPCs, PC, Orphans, Running,
          Tracked, InHand, DeadKeys, GetAdmitted, Miss, Goto
    <3>2. /\ Cardinality(LangClaims(l)) \in Nat /\ Cardinality(LangClaims(l)') \in Nat
          /\ Cardinality(LangClaims(l)') <= Cardinality(LangClaims(l)) + 1
      BY <3>1, ClaimsFinite, CardinalityGains
    <3>3. QED
      BY <3>2, <2>1, <1>0, LspPoolAssumption
      DEF TypeOK, LangBudget, LangTaken, LangFull, DeadKeys, GetAdmitted, Miss, Goto
  <2>2. CASE l # LangOf[key[c]]
    <3>1. LangClaims(l)' \subseteq LangClaims(l)
      BY <2>2, <1>0, LspPoolAssumption
      DEF TypeOK, ProcState, CallersOK, ServersKnownOnce, ServersOK, TodoOK,
          LangClaims, ConnKeys, InFlight, InFlightPCs, PC, Orphans, Running,
          Tracked, InHand, DeadKeys, GetAdmitted, Miss, Goto
    <3>2. /\ Cardinality(LangClaims(l)) \in Nat /\ Cardinality(LangClaims(l)') \in Nat
          /\ Cardinality(LangClaims(l)') <= Cardinality(LangClaims(l))
      BY <3>1, ClaimsFinite, CardinalityShrinks
    <3>3. QED
      BY <3>2, <2>2, <1>0, LspPoolAssumption
      DEF TypeOK, LangBudget, LangTaken, LangFull, DeadKeys, GetAdmitted, Miss, Goto
  <2>3. QED
    BY <2>1, <2>2
<1>8. QED
  BY <1>1, <1>2, <1>3, <1>4, <1>5, <1>6, <1>7

(* A dead entry is evicted with its token and its unit.                      *)
LEMMA EvictDeadStep ==
    ASSUME IndInv, NEW c \in Callers, EvictDead(c)
    PROVE  IndInv'
<1> USE DEF IndInv
<1>0. PICK k \in DeadKeys :
         /\ conns' = [conns EXCEPT ![k] = NoServer]
         /\ langActive' = LangReleased(LangOf[k])
  BY DEF EvictDead
<1>1. TypeOK'
  <2>1. sem' \in 0..MaxActive
    BY LspPoolAssumption
    DEF TypeOK, Drained, EvictDead
  <2>2. langActive' \in [Limited -> Nat]
    BY <1>0
    DEF TypeOK, LangReleased
  <2>3. QED
    BY <2>1, <2>2, <1>0
    DEF TypeOK, PC, ProcState, DeadKeys, ConnKeys, EvictDead, Goto
<1>2. CallersOK'
  BY <1>0
  DEF TypeOK, CallersOK, DeadKeys, ConnKeys, EvictDead, Goto
<1>3. ServersKnownOnce'
  BY <1>0
  DEF TypeOK, CallersOK, ServersKnownOnce, DeadKeys, ConnKeys, EvictDead, Goto
<1>4. ServersOK'
  BY <1>0
  DEF TypeOK, ProcState, CallersOK, ServersKnownOnce, ServersOK, Running, ConnKeys,
      InHand, DeadKeys, ConnKeys, EvictDead, Goto
<1>5. TodoOK'
  BY <1>0
  DEF TypeOK, TodoOK, ConnKeys, DeadKeys, ConnKeys, EvictDead, Goto
<1>6. SlotsCoverServers'
  <2>1. k \in Claims /\ Claims' \subseteq Claims \ {k}
    BY <1>0, LspPoolAssumption
    DEF TypeOK, ProcState, CallersOK, ServersKnownOnce, ServersOK, TodoOK, Claims,
        ConnKeys, TokenHolders, TokenPCs, Orphans, Running, Tracked, InHand,
        DeadKeys, ConnKeys, EvictDead, Goto
  <2>2. /\ Cardinality(Claims) \in Nat /\ Cardinality(Claims') \in Nat
        /\ Cardinality(Claims') <= Cardinality(Claims) - 1
    BY <2>1, ClaimsFinite, CardinalityLoses
  <2>3. QED
    BY <2>2, <1>0, LspPoolAssumption
    DEF TypeOK, SlotsCoverServers, Drained, DeadKeys, ConnKeys, EvictDead, Goto
<1>7. LangBudget'
  <2> SUFFICES ASSUME NEW l \in Limited
               PROVE  Cardinality(LangClaims(l)') <= langActive'[l] /\ langActive'[l] <= LimitOf[l]
    BY DEF LangBudget
  <2>1. CASE l = LangOf[k]
    <3>1. k \in LangClaims(l) /\ LangClaims(l)' \subseteq LangClaims(l) \ {k}
      BY <2>1, <1>0, LspPoolAssumption
      DEF TypeOK, ProcState, CallersOK, ServersKnownOnce, ServersOK, TodoOK,
          LangClaims, ConnKeys, InFlight, InFlightPCs, PC, Orphans, Running,
          Tracked, InHand, DeadKeys, ConnKeys, EvictDead, Goto
    <3>2. /\ Cardinality(LangClaims(l)) \in Nat /\ Cardinality(LangClaims(l)') \in Nat
          /\ Cardinality(LangClaims(l)') <= Cardinality(LangClaims(l)) - 1
      BY <3>1, ClaimsFinite, CardinalityLoses
    <3>3. QED
      BY <3>2, <2>1, <1>0, LspPoolAssumption
      DEF TypeOK, LangBudget, LangReleased, DeadKeys, ConnKeys, EvictDead, Goto
  <2>2. CASE l # LangOf[k]
    <3>1. LangClaims(l)' \subseteq LangClaims(l)
      BY <2>2, <1>0, LspPoolAssumption
      DEF TypeOK, ProcState, CallersOK, ServersKnownOnce, ServersOK, TodoOK,
          LangClaims, ConnKeys, InFlight, InFlightPCs, PC, Orphans, Running,
          Tracked, InHand, DeadKeys, ConnKeys, EvictDead, Goto
    <3>2. /\ Cardinality(LangClaims(l)) \in Nat /\ Cardinality(LangClaims(l)') \in Nat
          /\ Cardinality(LangClaims(l)') <= Cardinality(LangClaims(l))
      BY <3>1, ClaimsFinite, CardinalityShrinks
    <3>3. QED
      BY <3>2, <2>2, <1>0, LspPoolAssumption
      DEF TypeOK, LangBudget, LangReleased, DeadKeys, ConnKeys, EvictDead, Goto
  <2>3. QED
    BY <2>1, <2>2
<1>8. QED
  BY <1>1, <1>2, <1>3, <1>4, <1>5, <1>6, <1>7

(* An entry is taken out for eviction: its token's claim passes to the evicting Get. *)
LEMMA EvictLRUStep ==
    ASSUME IndInv, NEW c \in Callers, EvictLRU(c)
    PROVE  IndInv'
<1> USE DEF IndInv
<1>0. PICK k \in ConnKeys :
         /\ conns' = [conns EXCEPT ![k] = NoServer]
         /\ langActive' = LangReleased(LangOf[k])
         /\ held' = [held EXCEPT ![c] = conns[k]]
  BY DEF EvictLRU, Hold
<1>1. TypeOK'
  <2>1. langActive' \in [Limited -> Nat]
    BY <1>0
    DEF TypeOK, LangReleased
  <2>2. QED
    BY <2>1, <1>0
    DEF TypeOK, PC, ProcState, DeadKeys, ConnKeys, EvictLRU, Goto
<1>2. CallersOK'
  BY <1>0, LspPoolAssumption
  DEF TypeOK, CallersOK, DeadKeys, ConnKeys, EvictLRU, Goto
<1>3. ServersKnownOnce'
  BY <1>0, LspPoolAssumption
  DEF TypeOK, CallersOK, ServersKnownOnce, InHand, DeadKeys, ConnKeys, EvictLRU,
      Goto
<1>4. ServersOK'
  BY <1>0, LspPoolAssumption
  DEF TypeOK, ProcState, CallersOK, ServersKnownOnce, ServersOK, Running, ConnKeys,
      InHand, DeadKeys, ConnKeys, EvictLRU, Goto
<1>5. TodoOK'
  BY <1>0
  DEF TypeOK, TodoOK, ConnKeys, DeadKeys, ConnKeys, EvictLRU, Goto
<1>6. SlotsCoverServers'
  <2>1. k \in Claims /\ Claims' \subseteq (Claims \ {k}) \cup {c}
    BY <1>0, LspPoolAssumption
    DEF TypeOK, ProcState, CallersOK, ServersKnownOnce, ServersOK, TodoOK, Claims,
        ConnKeys, TokenHolders, TokenPCs, Orphans, Running, Tracked, InHand,
        DeadKeys, ConnKeys, EvictLRU, Goto
  <2>2. /\ Cardinality(Claims) \in Nat /\ Cardinality(Claims') \in Nat
        /\ Cardinality(Claims') <= Cardinality(Claims)
    BY <2>1, ClaimsFinite, CardinalityTrades
  <2>3. QED
    BY <2>2, <1>0, LspPoolAssumption
    DEF TypeOK, SlotsCoverServers, DeadKeys, ConnKeys, EvictLRU, Goto
<1>7. LangBudget'
  <2> SUFFICES ASSUME NEW l \in Limited
               PROVE  Cardinality(LangClaims(l)') <= langActive'[l] /\ langActive'[l] <= LimitOf[l]
    BY DEF LangBudget
  <2>1. CASE l = LangOf[k]
    <3>1. k \in LangClaims(l) /\ LangClaims(l)' \subseteq LangClaims(l) \ {k}
      BY <2>1, <1>0, LspPoolAssumption
      DEF TypeOK, ProcState, CallersOK, ServersKnownOnce, ServersOK, TodoOK,
          LangClaims, ConnKeys, InFlight, InFlightPCs, PC, Orphans, Running,
          Tracked, InHand, DeadKeys, ConnKeys, EvictLRU, Goto
    <3>2. /\ Cardinality(LangClaims(l)) \in Nat /\ Cardinality(LangClaims(l)') \in Nat
          /\ Cardinality(LangClaims(l)') <= Cardinality(LangClaims(l)) - 1
      BY <3>1, ClaimsFinite, CardinalityLoses
    <3>3. QED
      BY <3>2, <2>1, <1>0, LspPoolAssumption
      DEF TypeOK, LangBudget, LangReleased, DeadKeys, ConnKeys, EvictLRU, Goto
  <2>2. CASE l # LangOf[k]
    <3>1. LangClaims(l)' \subseteq LangClaims(l)
      BY <2>2, <1>0, LspPoolAssumption
      DEF TypeOK, ProcState, CallersOK, ServersKnownOnce, ServersOK, TodoOK,
          LangClaims, ConnKeys, InFlight, InFlightPCs, PC, Orphans, Running,
          Tracked, InHand, DeadKeys, ConnKeys, EvictLRU, Goto
    <3>2. /\ Cardinality(LangClaims(l)) \in Nat /\ Cardinality(LangClaims(l)') \in Nat
          /\ Cardinality(LangClaims(l)') <= Cardinality(LangClaims(l))
      BY <3>1, ClaimsFinite, CardinalityShrinks
    <3>3. QED
      BY <3>2, <2>2, <1>0, LspPoolAssumption
      DEF TypeOK, LangBudget, LangReleased, DeadKeys, ConnKeys, EvictLRU, Goto
  <2>3. QED
    BY <2>1, <2>2
<1>8. QED
  BY <1>1, <1>2, <1>3, <1>4, <1>5, <1>6, <1>7

(* The entry takes over the caller's claim, or, when another Get of the same   *)
(* key was faster, the server that loses its entry does.                     *)
LEMMA InsertStep ==
    ASSUME IndInv, NEW c \in Callers, Insert(c)
    PROVE  IndInv'
<1> USE DEF IndInv
<1> DEFINE y == IF conns[key[c]] = NoServer THEN key[c] ELSE conns[key[c]]
<1>0. key[c] \in Keys /\ held[c] \in Servers
  BY DEF TypeOK, CallersOK, Insert
<1>1. TypeOK'
  BY <1>0
  DEF TypeOK, PC, ProcState, Insert, Return, Hold
<1>2. CallersOK'
  BY <1>0, LspPoolAssumption
  DEF TypeOK, CallersOK, Insert, Return, Hold
<1>3. ServersKnownOnce'
  BY <1>0, LspPoolAssumption
  DEF TypeOK, CallersOK, ServersKnownOnce, Insert, Return, Hold
<1>4. ServersOK'
  BY <1>0, LspPoolAssumption
  DEF TypeOK, ProcState, CallersOK, ServersKnownOnce, ServersOK, Running, ConnKeys,
      InHand, Insert, Return, Hold
<1>5. TodoOK'
  BY <1>0
  DEF TypeOK, TodoOK, ConnKeys, Insert, Return, Hold
<1>6. SlotsCoverServers'
  <2>1. c \in Claims /\ Claims' \subseteq (Claims \ {c}) \cup {y}
    BY <1>0, LspPoolAssumption
    DEF TypeOK, ProcState, CallersOK, ServersKnownOnce, ServersOK, TodoOK, Claims,
        ConnKeys, TokenHolders, TokenPCs, Orphans, Running, Tracked, InHand, Insert,
        Return, Hold
  <2>2. /\ Cardinality(Claims) \in Nat /\ Cardinality(Claims') \in Nat
        /\ Cardinality(Claims') <= Cardinality(Claims)
    BY <2>1, ClaimsFinite, CardinalityTrades
  <2>3. QED
    BY <2>2, <1>0, LspPoolAssumption
    DEF TypeOK, SlotsCoverServers, Insert, Return, Hold
<1>7. LangBudget'
  <2> SUFFICES ASSUME NEW l \in Limited
               PROVE  Cardinality(LangClaims(l)') <= langActive'[l] /\ langActive'[l] <= LimitOf[l]
    BY DEF LangBudget
  <2>1. CASE l = LangOf[key[c]]
    <3>1. c \in LangClaims(l) /\ LangClaims(l)' \subseteq (LangClaims(l) \ {c}) \cup {y}
      BY <2>1, <1>0, LspPoolAssumption
      DEF TypeOK, ProcState, CallersOK, ServersKnownOnce, ServersOK, TodoOK,
          LangClaims, ConnKeys, InFlight, InFlightPCs, PC, Orphans, Running,
          Tracked, InHand, Insert, Return, Hold
    <3>2. /\ Cardinality(LangClaims(l)) \in Nat /\ Cardinality(LangClaims(l)') \in Nat
          /\ Cardinality(LangClaims(l)') <= Cardinality(LangClaims(l))
      BY <3>1, ClaimsFinite, CardinalityTrades
    <3>3. QED
      BY <3>2, <2>1, <1>0, LspPoolAssumption
      DEF TypeOK, LangBudget, Insert, Return, Hold
  <2>2. CASE l # LangOf[key[c]]
    <3>1. LangClaims(l)' \subseteq LangClaims(l)
      BY <2>2, <1>0, LspPoolAssumption
      DEF TypeOK, ProcState, CallersOK, ServersKnownOnce, ServersOK, TodoOK,
          LangClaims, ConnKeys, InFlight, InFlightPCs, PC, Orphans, Running,
          Tracked, InHand, Insert, Return, Hold
    <3>2. /\ Cardinality(LangClaims(l)) \in Nat /\ Cardinality(LangClaims(l)') \in Nat
          /\ Cardinality(LangClaims(l)') <= Cardinality(LangClaims(l))
      BY <3>1, ClaimsFinite, CardinalityShrinks
    <3>3. QED
      BY <3>2, <2>2, <1>0, LspPoolAssumption
      DEF TypeOK, LangBudget, Insert, Return, Hold
  <2>3. QED
    BY <2>1, <2>2
<1>8. QED
  BY <1>1, <1>2, <1>3, <1>4, <1>5, <1>6, <1>7

(* ReapIdle takes the mutex and has entries to stop.                         *)
LEMMA ReapBeginStep ==
    ASSUME IndInv, ReapBegin
    PROVE  IndInv'
<1> USE DEF IndInv
<1>1. TypeOK'
  BY DEF TypeOK, PC, ProcState, ReapBegin, DeadKeys, ConnKeys, IdleSet
<1>2. CallersOK'
  BY DEF TypeOK, CallersOK, ReapBegin, DeadKeys, ConnKeys, IdleSet
<1>3. ServersKnownOnce'
  BY DEF TypeOK, CallersOK, ServersKnownOnce, ReapBegin, DeadKeys, ConnKeys, IdleSet
<1>4. ServersOK'
  BY DEF TypeOK, ProcState, CallersOK, ServersKnownOnce, ServersOK, Running, ConnKeys,
      InHand, ReapBegin, DeadKeys, ConnKeys, IdleSet
<1>5. TodoOK'
  BY DEF TypeOK, TodoOK, ConnKeys, ReapBegin, DeadKeys, ConnKeys, IdleSet
<1>6. SlotsCoverServers'
  <2>1. Claims' \subseteq Claims
    BY LspPoolAssumption
    DEF TypeOK, ProcState, CallersOK, ServersKnownOnce, ServersOK, TodoOK, Claims,
        ConnKeys, TokenHolders, TokenPCs, Orphans, Running, Tracked, InHand,
        ReapBegin, DeadKeys, ConnKeys, IdleSet
  <2>2. /\ Cardinality(Claims) \in Nat /\ Cardinality(Claims') \in Nat
        /\ Cardinality(Claims') <= Cardinality(Claims)
    BY <2>1, ClaimsFinite, CardinalityShrinks
  <2>3. QED
    BY <2>2, LspPoolAssumption
    DEF TypeOK, SlotsCoverServers, ReapBegin, DeadKeys, ConnKeys, IdleSet
<1>7. LangBudget'
  <2> SUFFICES ASSUME NEW l \in Limited
               PROVE  Cardinality(LangClaims(l)') <= langActive'[l] /\ langActive'[l] <= LimitOf[l]
    BY DEF LangBudget
  <2>1. LangClaims(l)' \subseteq LangClaims(l)
    BY LspPoolAssumption
    DEF TypeOK, ProcState, CallersOK, ServersKnownOnce, ServersOK, TodoOK,
        LangClaims, ConnKeys, InFlight, InFlightPCs, PC, Orphans, Running, Tracked,
        InHand, ReapBegin, DeadKeys, ConnKeys, IdleSet
  <2>2. /\ Cardinality(LangClaims(l)) \in Nat /\ Cardinality(LangClaims(l)') \in Nat
        /\ Cardinality(LangClaims(l)') <= Cardinality(LangClaims(l))
    BY <2>1, ClaimsFinite, CardinalityShrinks
  <2>3. QED
    BY <2>2, LspPoolAssumption
    DEF TypeOK, LangBudget, ReapBegin, DeadKeys, ConnKeys, IdleSet
<1>8. QED
  BY <1>1, <1>2, <1>3, <1>4, <1>5, <1>6, <1>7

(* Shutdown takes the mutex and has every entry to stop.                     *)
LEMMA ShutdownBeginStep ==
    ASSUME IndInv, ShutdownBegin
    PROVE  IndInv'
<1> USE DEF IndInv
<1>1. TypeOK'
  BY DEF TypeOK, PC, ProcState, ShutdownBegin, ConnKeys
<1>2. CallersOK'
  BY DEF TypeOK, CallersOK, ShutdownBegin, ConnKeys
<1>3. ServersKnownOnce'
  BY DEF TypeOK, CallersOK, ServersKnownOnce, ShutdownBegin, ConnKeys
<1>4. ServersOK'
  BY DEF TypeOK, ProcState, CallersOK, ServersKnownOnce, ServersOK, Running, ConnKeys,
      InHand, ShutdownBegin, ConnKeys
<1>5. TodoOK'
  BY DEF TypeOK, TodoOK, ConnKeys, ShutdownBegin, ConnKeys
<1>6. SlotsCoverServers'
  <2>1. Claims' \subseteq Claims
    BY LspPoolAssumption
    DEF TypeOK, ProcState, CallersOK, ServersKnownOnce, ServersOK, TodoOK, Claims,
        ConnKeys, TokenHolders, TokenPCs, Orphans, Running, Tracked, InHand,
        ShutdownBegin, ConnKeys
  <2>2. /\ Cardinality(Claims) \in Nat /\ Cardinality(Claims') \in Nat
        /\ Cardinality(Claims') <= Cardinality(Claims)
    BY <2>1, ClaimsFinite, CardinalityShrinks
  <2>3. QED
    BY <2>2, LspPoolAssumption
    DEF TypeOK, SlotsCoverServers, ShutdownBegin, ConnKeys
<1>7. LangBudget'
  <2> SUFFICES ASSUME NEW l \in Limited
               PROVE  Cardinality(LangClaims(l)') <= langActive'[l] /\ langActive'[l] <= LimitOf[l]
    BY DEF LangBudget
  <2>1. LangClaims(l)' \subseteq LangClaims(l)
    BY LspPoolAssumption
    DEF TypeOK, ProcState, CallersOK, ServersKnownOnce, ServersOK, TodoOK,
        LangClaims, ConnKeys, InFlight, InFlightPCs, PC, Orphans, Running, Tracked,
        InHand, ShutdownBegin, ConnKeys
  <2>2. /\ Cardinality(LangClaims(l)) \in Nat /\ Cardinality(LangClaims(l)') \in Nat
        /\ Cardinality(LangClaims(l)') <= Cardinality(LangClaims(l))
    BY <2>1, ClaimsFinite, CardinalityShrinks
  <2>3. QED
    BY <2>2, LspPoolAssumption
    DEF TypeOK, LangBudget, ShutdownBegin, ConnKeys
<1>8. QED
  BY <1>1, <1>2, <1>3, <1>4, <1>5, <1>6, <1>7

(* ReapIdle or Shutdown stops an entry: it leaves with its token.            *)
LEMMA StopEntryStep ==
    ASSUME IndInv, NEW k \in todo, proc[conns[k]] = "up" \/ Gone(conns[k]), StopEntry(k)
    PROVE  IndInv'
<1> USE DEF IndInv
<1>0. k \in Keys /\ conns[k] \in Servers /\ k \in ConnKeys
  BY DEF TypeOK, TodoOK, ConnKeys
<1>1. TypeOK'
  <2>1. sem' \in 0..MaxActive
    BY LspPoolAssumption
    DEF TypeOK, Drained, StopEntry
  <2>2. langActive' \in [Limited -> Nat]
    BY <1>0
    DEF TypeOK, StopEntry, LangReleased
  <2>3. QED
    BY <2>1, <2>2, <1>0
    DEF TypeOK, PC, ProcState, StopEntry, ShutDown, Drained, Gone
<1>2. CallersOK'
  BY <1>0
  DEF TypeOK, CallersOK, StopEntry, ShutDown, Drained, Gone
<1>3. ServersKnownOnce'
  BY <1>0
  DEF TypeOK, CallersOK, ServersKnownOnce, StopEntry, ShutDown, Drained, Gone
<1>4. ServersOK'
  BY <1>0
  DEF TypeOK, ProcState, CallersOK, ServersKnownOnce, ServersOK, Running, ConnKeys,
      InHand, StopEntry, ShutDown, Drained, Gone
<1>5. TodoOK'
  BY <1>0
  DEF TypeOK, TodoOK, ConnKeys, StopEntry, ShutDown, Drained, Gone
<1>6. SlotsCoverServers'
  <2>1. k \in Claims /\ Claims' \subseteq Claims \ {k}
    BY <1>0, LspPoolAssumption
    DEF TypeOK, ProcState, CallersOK, ServersKnownOnce, ServersOK, TodoOK, Claims,
        ConnKeys, TokenHolders, TokenPCs, Orphans, Running, Tracked, InHand,
        StopEntry, ShutDown, Drained, Gone
  <2>2. /\ Cardinality(Claims) \in Nat /\ Cardinality(Claims') \in Nat
        /\ Cardinality(Claims') <= Cardinality(Claims) - 1
    BY <2>1, ClaimsFinite, CardinalityLoses
  <2>3. QED
    BY <2>2, <1>0, LspPoolAssumption
    DEF TypeOK, SlotsCoverServers, StopEntry, ShutDown, Drained, Gone
<1>7. LangBudget'
  <2> SUFFICES ASSUME NEW l \in Limited
               PROVE  Cardinality(LangClaims(l)') <= langActive'[l] /\ langActive'[l] <= LimitOf[l]
    BY DEF LangBudget
  <2>1. CASE l = LangOf[k]
    <3>1. k \in LangClaims(l) /\ LangClaims(l)' \subseteq LangClaims(l) \ {k}
      BY <2>1, <1>0, LspPoolAssumption
      DEF TypeOK, ProcState, CallersOK, ServersKnownOnce, ServersOK, TodoOK,
          LangClaims, ConnKeys, InFlight, InFlightPCs, PC, Orphans, Running,
          Tracked, InHand, StopEntry, ShutDown, Drained, Gone
    <3>2. /\ Cardinality(LangClaims(l)) \in Nat /\ Cardinality(LangClaims(l)') \in Nat
          /\ Cardinality(LangClaims(l)') <= Cardinality(LangClaims(l)) - 1
      BY <3>1, ClaimsFinite, CardinalityLoses
    <3>3. QED
      BY <3>2, <2>1, <1>0, LspPoolAssumption
      DEF TypeOK, LangBudget, LangReleased, StopEntry, ShutDown, Drained, Gone
  <2>2. CASE l # LangOf[k]
    <3>1. LangClaims(l)' \subseteq LangClaims(l)
      BY <2>2, <1>0, LspPoolAssumption
      DEF TypeOK, ProcState, CallersOK, ServersKnownOnce, ServersOK, TodoOK,
          LangClaims, ConnKeys, InFlight, InFlightPCs, PC, Orphans, Running,
          Tracked, InHand, StopEntry, ShutDown, Drained, Gone
    <3>2. /\ Cardinality(LangClaims(l)) \in Nat /\ Cardinality(LangClaims(l)') \in Nat
          /\ Cardinality(LangClaims(l)') <= Cardinality(LangClaims(l))
      BY <3>1, ClaimsFinite, CardinalityShrinks
    <3>3. QED
      BY <3>2, <2>2, <1>0, LspPoolAssumption
      DEF TypeOK, LangBudget, LangReleased, StopEntry, ShutDown, Drained, Gone
  <2>3. QED
    BY <2>1, <2>2
<1>8. QED
  BY <1>1, <1>2, <1>3, <1>4, <1>5, <1>6, <1>7

(* ReapIdle meets an entry that died meanwhile.                              *)
LEMMA ReapMeetsDeadStep ==
    ASSUME IndInv, NEW k \in Keys, ReapMeetsDead(k)
    PROVE  IndInv'
<1> USE DEF IndInv
<1>1. TypeOK'
  BY DEF TypeOK, PC, ProcState, ReapMeetsDead
<1>2. CallersOK'
  BY DEF TypeOK, CallersOK, ReapMeetsDead
<1>3. ServersKnownOnce'
  BY DEF TypeOK, CallersOK, ServersKnownOnce, ReapMeetsDead
<1>4. ServersOK'
  BY DEF TypeOK, ProcState, CallersOK, ServersKnownOnce, ServersOK, Running, ConnKeys,
      InHand, ReapMeetsDead
<1>5. TodoOK'
  BY DEF TypeOK, TodoOK, ConnKeys, DeadKeys, ReapMeetsDead
<1>6. SlotsCoverServers'
  <2>1. Claims' \subseteq Claims
    BY LspPoolAssumption
    DEF TypeOK, ProcState, CallersOK, ServersKnownOnce, ServersOK, TodoOK, Claims,
        ConnKeys, TokenHolders, TokenPCs, Orphans, Running, Tracked, InHand, ReapMeetsDead
  <2>2. /\ Cardinality(Claims) \in Nat /\ Cardinality(Claims') \in Nat
        /\ Cardinality(Claims') <= Cardinality(Claims)
    BY <2>1, ClaimsFinite, CardinalityShrinks
  <2>3. QED
    BY <2>2, LspPoolAssumption
    DEF TypeOK, SlotsCoverServers, ReapMeetsDead
<1>7. LangBudget'
  <2> SUFFICES ASSUME NEW l \in Limited
               PROVE  Cardinality(LangClaims(l)') <= langActive'[l] /\ langActive'[l] <= LimitOf[l]
    BY DEF LangBudget
  <2>1. LangClaims(l)' \subseteq LangClaims(l)
    BY LspPoolAssumption
    DEF TypeOK, ProcState, CallersOK, ServersKnownOnce, ServersOK, TodoOK,
        LangClaims, ConnKeys, InFlight, InFlightPCs, PC, Orphans, Running, Tracked,
        InHand, ReapMeetsDead
  <2>2. /\ Cardinality(LangClaims(l)) \in Nat /\ Cardinality(LangClaims(l)') \in Nat
        /\ Cardinality(LangClaims(l)') <= Cardinality(LangClaims(l))
    BY <2>1, ClaimsFinite, CardinalityShrinks
  <2>3. QED
    BY <2>2, LspPoolAssumption
    DEF TypeOK, LangBudget, ReapMeetsDead
<1>8. QED
  BY <1>1, <1>2, <1>3, <1>4, <1>5, <1>6, <1>7

(* ReapIdle or Shutdown releases the mutex.                                  *)
LEMMA StopEndStep ==
    ASSUME IndInv, StopEnd
    PROVE  IndInv'
<1> USE DEF IndInv
<1>1. TypeOK'
  BY DEF TypeOK, PC, ProcState, StopEnd
<1>2. CallersOK'
  BY DEF TypeOK, CallersOK, StopEnd
<1>3. ServersKnownOnce'
  BY DEF TypeOK, CallersOK, ServersKnownOnce, StopEnd
<1>4. ServersOK'
  BY DEF TypeOK, ProcState, CallersOK, ServersKnownOnce, ServersOK, Running, ConnKeys,
      InHand, StopEnd
<1>5. TodoOK'
  BY DEF TypeOK, TodoOK, ConnKeys, StopEnd
<1>6. SlotsCoverServers'
  <2>1. Claims' \subseteq Claims
    BY LspPoolAssumption
    DEF TypeOK, ProcState, CallersOK, ServersKnownOnce, ServersOK, TodoOK, Claims,
        ConnKeys, TokenHolders, TokenPCs, Orphans, Running, Tracked, InHand, StopEnd
  <2>2. /\ Cardinality(Claims) \in Nat /\ Cardinality(Claims') \in Nat
        /\ Cardinality(Claims') <= Cardinality(Claims)
    BY <2>1, ClaimsFinite, CardinalityShrinks
  <2>3. QED
    BY <2>2, LspPoolAssumption
    DEF TypeOK, SlotsCoverServers, StopEnd
<1>7. LangBudget'
  <2> SUFFICES ASSUME NEW l \in Limited
               PROVE  Cardinality(LangClaims(l)') <= langActive'[l] /\ langActive'[l] <= LimitOf[l]
    BY DEF LangBudget
  <2>1. LangClaims(l)' \subseteq LangClaims(l)
    BY LspPoolAssumption
    DEF TypeOK, ProcState, CallersOK, ServersKnownOnce, ServersOK, TodoOK,
        LangClaims, ConnKeys, InFlight, InFlightPCs, PC, Orphans, Running, Tracked,
        InHand, StopEnd
  <2>2. /\ Cardinality(LangClaims(l)) \in Nat /\ Cardinality(LangClaims(l)') \in Nat
        /\ Cardinality(LangClaims(l)') <= Cardinality(LangClaims(l))
    BY <2>1, ClaimsFinite, CardinalityShrinks
  <2>3. QED
    BY <2>2, LspPoolAssumption
    DEF TypeOK, LangBudget, StopEnd
<1>8. QED
  BY <1>1, <1>2, <1>3, <1>4, <1>5, <1>6, <1>7

(* KillServer signals the process; the entry and its token stay.             *)
LEMMA KillServerStep ==
    ASSUME IndInv, NEW k \in Keys, KillServer(k)
    PROVE  IndInv'
<1> USE DEF IndInv
<1>0. conns[k] \in Servers
  BY DEF TypeOK, ConnKeys, KillServer
<1>1. TypeOK'
  BY <1>0
  DEF TypeOK, PC, ProcState, KillServer, pool
<1>2. CallersOK'
  BY <1>0
  DEF TypeOK, CallersOK, KillServer, pool
<1>3. ServersKnownOnce'
  BY <1>0
  DEF TypeOK, CallersOK, ServersKnownOnce, KillServer, pool
<1>4. ServersOK'
  BY <1>0
  DEF TypeOK, ProcState, CallersOK, ServersKnownOnce, ServersOK, Running, ConnKeys,
      InHand, KillServer, pool
<1>5. TodoOK'
  BY <1>0
  DEF TypeOK, TodoOK, ConnKeys, KillServer, pool
<1>6. SlotsCoverServers'
  <2>1. Claims' \subseteq Claims
    BY <1>0, LspPoolAssumption
    DEF TypeOK, ProcState, CallersOK, ServersKnownOnce, ServersOK, TodoOK, Claims,
        ConnKeys, TokenHolders, TokenPCs, Orphans, Running, Tracked, InHand,
        KillServer, pool
  <2>2. /\ Cardinality(Claims) \in Nat /\ Cardinality(Claims') \in Nat
        /\ Cardinality(Claims') <= Cardinality(Claims)
    BY <2>1, ClaimsFinite, CardinalityShrinks
  <2>3. QED
    BY <2>2, <1>0, LspPoolAssumption
    DEF TypeOK, SlotsCoverServers, KillServer, pool
<1>7. LangBudget'
  <2> SUFFICES ASSUME NEW l \in Limited
               PROVE  Cardinality(LangClaims(l)') <= langActive'[l] /\ langActive'[l] <= LimitOf[l]
    BY DEF LangBudget
  <2>1. LangClaims(l)' \subseteq LangClaims(l)
    BY <1>0, LspPoolAssumption
    DEF TypeOK, ProcState, CallersOK, ServersKnownOnce, ServersOK, TodoOK,
        LangClaims, ConnKeys, InFlight, InFlightPCs, PC, Orphans, Running, Tracked,
        InHand, KillServer, pool
  <2>2. /\ Cardinality(LangClaims(l)) \in Nat /\ Cardinality(LangClaims(l)') \in Nat
        /\ Cardinality(LangClaims(l)') <= Cardinality(LangClaims(l))
    BY <2>1, ClaimsFinite, CardinalityShrinks
  <2>3. QED
    BY <2>2, <1>0, <1>0, LspPoolAssumption
    DEF TypeOK, LangBudget, KillServer, pool
<1>8. QED
  BY <1>1, <1>2, <1>3, <1>4, <1>5, <1>6, <1>7

(* A process exits; nobody in the pool knows yet.                            *)
LEMMA ExitStep ==
    ASSUME IndInv, NEW s \in Servers, Exit(s)
    PROVE  IndInv'
<1> USE DEF IndInv
<1>1. TypeOK'
  BY DEF TypeOK, PC, ProcState, Exit, pool
<1>2. CallersOK'
  BY DEF TypeOK, CallersOK, Exit, pool
<1>3. ServersKnownOnce'
  BY DEF TypeOK, CallersOK, ServersKnownOnce, Exit, pool
<1>4. ServersOK'
  BY DEF TypeOK, ProcState, CallersOK, ServersKnownOnce, ServersOK, Running, ConnKeys,
      InHand, Exit, pool
<1>5. TodoOK'
  BY DEF TypeOK, TodoOK, ConnKeys, Exit, pool
<1>6. SlotsCoverServers'
  <2>1. Claims' \subseteq Claims
    BY LspPoolAssumption
    DEF TypeOK, ProcState, CallersOK, ServersKnownOnce, ServersOK, TodoOK, Claims,
        ConnKeys, TokenHolders, TokenPCs, Orphans, Running, Tracked, InHand, Exit,
        pool
  <2>2. /\ Cardinality(Claims) \in Nat /\ Cardinality(Claims') \in Nat
        /\ Cardinality(Claims') <= Cardinality(Claims)
    BY <2>1, ClaimsFinite, CardinalityShrinks
  <2>3. QED
    BY <2>2, LspPoolAssumption
    DEF TypeOK, SlotsCoverServers, Exit, pool
<1>7. LangBudget'
  <2> SUFFICES ASSUME NEW l \in Limited
               PROVE  Cardinality(LangClaims(l)') <= langActive'[l] /\ langActive'[l] <= LimitOf[l]
    BY DEF LangBudget
  <2>1. LangClaims(l)' \subseteq LangClaims(l)
    BY LspPoolAssumption
    DEF TypeOK, ProcState, CallersOK, ServersKnownOnce, ServersOK, TodoOK,
        LangClaims, ConnKeys, InFlight, InFlightPCs, PC, Orphans, Running, Tracked,
        InHand, Exit, pool
  <2>2. /\ Cardinality(LangClaims(l)) \in Nat /\ Cardinality(LangClaims(l)') \in Nat
        /\ Cardinality(LangClaims(l)') <= Cardinality(LangClaims(l))
    BY <2>1, ClaimsFinite, CardinalityShrinks
  <2>3. QED
    BY <2>2, LspPoolAssumption
    DEF TypeOK, LangBudget, Exit, pool
<1>8. QED
  BY <1>1, <1>2, <1>3, <1>4, <1>5, <1>6, <1>7

(* The Wait goroutine marks a server dead; a lost server loses its claim.    *)
LEMMA WaitReturnsStep ==
    ASSUME IndInv, NEW s \in Servers, WaitReturns(s)
    PROVE  IndInv'
<1> USE DEF IndInv
<1>1. TypeOK'
  BY DEF TypeOK, PC, ProcState, WaitReturns
<1>2. CallersOK'
  BY DEF TypeOK, CallersOK, WaitReturns
<1>3. ServersKnownOnce'
  BY DEF TypeOK, CallersOK, ServersKnownOnce, WaitReturns
<1>4. ServersOK'
  BY DEF TypeOK, ProcState, CallersOK, ServersKnownOnce, ServersOK, Running, ConnKeys,
      InHand, WaitReturns
<1>5. TodoOK'
  BY DEF TypeOK, TodoOK, ConnKeys, WaitReturns
<1>6. SlotsCoverServers'
  <2>1. Claims' \subseteq Claims
    BY LspPoolAssumption
    DEF TypeOK, ProcState, CallersOK, ServersKnownOnce, ServersOK, TodoOK, Claims,
        ConnKeys, TokenHolders, TokenPCs, Orphans, Running, Tracked, InHand,
        WaitReturns
  <2>2. /\ Cardinality(Claims) \in Nat /\ Cardinality(Claims') \in Nat
        /\ Cardinality(Claims') <= Cardinality(Claims)
    BY <2>1, ClaimsFinite, CardinalityShrinks
  <2>3. QED
    BY <2>2, LspPoolAssumption
    DEF TypeOK, SlotsCoverServers, WaitReturns
<1>7. LangBudget'
  <2> SUFFICES ASSUME NEW l \in Limited
               PROVE  Cardinality(LangClaims(l)') <= langActive'[l] /\ langActive'[l] <= LimitOf[l]
    BY DEF LangBudget
  <2>1. LangClaims(l)' \subseteq LangClaims(l)
    BY LspPoolAssumption
    DEF TypeOK, ProcState, CallersOK, ServersKnownOnce, ServersOK, TodoOK,
        LangClaims, ConnKeys, InFlight, InFlightPCs, PC, Orphans, Running, Tracked,
        InHand, WaitReturns
  <2>2. /\ Cardinality(LangClaims(l)) \in Nat /\ Cardinality(LangClaims(l)') \in Nat
        /\ Cardinality(LangClaims(l)') <= Cardinality(LangClaims(l))
    BY <2>1, ClaimsFinite, CardinalityShrinks
  <2>3. QED
    BY <2>2, LspPoolAssumption
    DEF TypeOK, LangBudget, WaitReturns
<1>8. QED
  BY <1>1, <1>2, <1>3, <1>4, <1>5, <1>6, <1>7

(* Nothing changes.                                                          *)
LEMMA StutterStep ==
    ASSUME IndInv, UNCHANGED vars
    PROVE  IndInv'
<1> USE DEF IndInv
<1>1. TypeOK'
  BY DEF TypeOK, PC, ProcState, vars
<1>2. CallersOK'
  BY DEF TypeOK, CallersOK, vars
<1>3. ServersKnownOnce'
  BY DEF TypeOK, CallersOK, ServersKnownOnce, vars
<1>4. ServersOK'
  BY DEF TypeOK, ProcState, CallersOK, ServersKnownOnce, ServersOK, Running, ConnKeys,
      InHand, vars
<1>5. TodoOK'
  BY DEF TypeOK, TodoOK, ConnKeys, vars
<1>6. SlotsCoverServers'
  <2>1. Claims' \subseteq Claims
    BY LspPoolAssumption
    DEF TypeOK, ProcState, CallersOK, ServersKnownOnce, ServersOK, TodoOK, Claims,
        ConnKeys, TokenHolders, TokenPCs, Orphans, Running, Tracked, InHand, vars
  <2>2. /\ Cardinality(Claims) \in Nat /\ Cardinality(Claims') \in Nat
        /\ Cardinality(Claims') <= Cardinality(Claims)
    BY <2>1, ClaimsFinite, CardinalityShrinks
  <2>3. QED
    BY <2>2, LspPoolAssumption
    DEF TypeOK, SlotsCoverServers, vars
<1>7. LangBudget'
  <2> SUFFICES ASSUME NEW l \in Limited
               PROVE  Cardinality(LangClaims(l)') <= langActive'[l] /\ langActive'[l] <= LimitOf[l]
    BY DEF LangBudget
  <2>1. LangClaims(l)' \subseteq LangClaims(l)
    BY LspPoolAssumption
    DEF TypeOK, ProcState, CallersOK, ServersKnownOnce, ServersOK, TodoOK,
        LangClaims, ConnKeys, InFlight, InFlightPCs, PC, Orphans, Running, Tracked,
        InHand, vars
  <2>2. /\ Cardinality(LangClaims(l)) \in Nat /\ Cardinality(LangClaims(l)') \in Nat
        /\ Cardinality(LangClaims(l)') <= Cardinality(LangClaims(l))
    BY <2>1, ClaimsFinite, CardinalityShrinks
  <2>3. QED
    BY <2>2, LspPoolAssumption
    DEF TypeOK, LangBudget, vars
<1>8. QED
  BY <1>1, <1>2, <1>3, <1>4, <1>5, <1>6, <1>7

------------------------------------------------------------------------------

(* Every step of the pool keeps the invariant.                               *)
LEMMA NextIndInv == IndInv /\ [Next]_vars => IndInv'
<1> SUFFICES ASSUME IndInv, [Next]_vars PROVE IndInv'
  OBVIOUS
<1>1. ASSUME NEW c \in Callers, CallerNext(c) PROVE IndInv'
  <2>1. ASSUME NEW k \in Keys, Call(c, k) PROVE IndInv'
    BY <2>1, CallStep
  <2>2. ASSUME LockedStep(c) PROVE IndInv'
    <3>1. CASE EvictNothing(c)
      BY <3>1, MoveOnStep DEF EvictNothing, InFlightPCs, TokenPCs, PC
    <3>2. QED
      BY <2>2, <3>1, GetStoppedStep, GetHitStep, GetRefusedStep, GetAdmittedStep,
         EvictDeadStep, EvictLRUStep, GiveUpStep, InsertStep
      DEF LockedStep
  <2>3. ASSUME FreeStep(c) PROVE IndInv'
    <3>1. CASE TryAcquire(c) \/ Retry(c)
      <4>1. pc[c] \in {"acquire", "retry", "wait"}
        BY <3>1 DEF TryAcquire, Retry
      <4>2. CASE TakeToken(c)
        BY <4>1, <4>2, TakeTokenStep
      <4>3. CASE MoveOn(c, "evict") \/ MoveOn(c, "wait")
        BY <4>1, <4>3, MoveOnStep DEF InFlightPCs, TokenPCs, PC
      <4>4. QED
        BY <3>1, <4>2, <4>3 DEF TryAcquire, Retry
    <3>2. CASE WaitToken(c)
      BY <3>2, TakeTokenStep DEF WaitToken
    <3>3. CASE WaitTimeout(c) \/ SpawnRefused(c)
      BY <3>3, MoveOnStep DEF WaitTimeout, SpawnRefused, InFlightPCs, TokenPCs, PC
    <3>4. CASE EvictGone(c)
      BY <3>4, EvictFinishStep DEF EvictGone
    <3>5. QED
      BY <2>3, <3>1, <3>2, <3>3, <3>4, SpawnStartStep, ReleaseTokenStep DEF FreeStep
  <2>4. ASSUME ServerAnswers(c) PROVE IndInv'
    <3>1. CASE EvictAnswered(c)
      BY <3>1, EvictFinishStep DEF EvictAnswered
    <3>2. QED
      BY <2>4, <3>1, InitAnsweredStep, InitFailedStep DEF ServerAnswers
  <2>5. QED
    BY <1>1, <2>1, <2>2, <2>3, <2>4 DEF CallerNext
<1>2. ASSUME NEW k \in Keys, StopAnswered(k) \/ StopGone(k) PROVE IndInv'
  BY <1>2, StopEntryStep DEF StopAnswered, StopGone
<1>3. QED
  BY <1>1, <1>2, ReapBeginStep, ShutdownBeginStep, StopEndStep, ReapMeetsDeadStep,
     KillServerStep, ExitStep, WaitReturnsStep, StutterStep
  DEF Next

(* The inductive invariant holds in every reachable state of the pool.       *)
THEOREM PoolInvariant == Spec => []IndInv
BY InitIndInv, NextIndInv, PTL DEF Spec

(* Type correctness; the budget of a limited language never goes below zero  *)
(* although Get's error paths decrement it without a test.                   *)
THEOREM PoolTypeOK == Spec => []TypeOK
BY PoolInvariant, PTL DEF IndInv

------------------------------------------------------------------------------
(* Every running server has a claim of its own on a token: its entry's, that *)
(* of the Get that holds it, or its own if it is lost.                       *)

ClaimOf(s) ==
    IF s \in Tracked THEN CHOOSE k \in Keys : conns[k] = s
    ELSE IF s \in InHand THEN CHOOSE c \in Callers : held[c] = s
    ELSE s

(* A running server's claim is one of Claims and no other server's.          *)
LEMMA ClaimOfRunning ==
    ASSUME IndInv
    PROVE  /\ \A s \in Running : ClaimOf(s) \in Claims
           /\ \A s, t \in Running : ClaimOf(s) = ClaimOf(t) => s = t
           /\ \A s \in Running : \/ ClaimOf(s) \in Keys /\ conns[ClaimOf(s)] = s
                                 \/ ClaimOf(s) \in Callers /\ held[ClaimOf(s)] = s
                                 \/ ClaimOf(s) = s /\ s \in Orphans
<1> USE LspPoolAssumption DEF IndInv
<1>1. ASSUME NEW s \in Running
      PROVE  \/ ClaimOf(s) \in Keys /\ conns[ClaimOf(s)] = s
             \/ ClaimOf(s) \in Callers /\ held[ClaimOf(s)] = s
             \/ ClaimOf(s) = s /\ s \in Orphans
  BY DEF ClaimOf, Tracked, InHand, Orphans, Running
<1>2. ASSUME NEW s \in Running PROVE ClaimOf(s) \in Claims
  BY <1>1 DEF Claims, ConnKeys, TokenHolders, TokenPCs, CallersOK, Running, TypeOK
<1>3. ASSUME NEW s \in Running, NEW t \in Running, ClaimOf(s) = ClaimOf(t) PROVE s = t
  BY <1>1, <1>3 DEF Running, Orphans
<1>4. QED
  BY <1>1, <1>2, <1>3

(* A set of running servers is no larger than a set that holds their claims. *)
LEMMA ServersWithinClaims ==
    ASSUME IndInv, NEW R \in SUBSET Running, NEW S, IsFiniteSet(S),
           \A s \in R : ClaimOf(s) \in S
    PROVE  /\ Cardinality(R) \in Nat /\ Cardinality(S) \in Nat
           /\ Cardinality(R) <= Cardinality(S)
<1> DEFINE f == [s \in R |-> ClaimOf(s)]
<1>1. f \in Injection(R, S)
  BY ClaimOfRunning DEF Injection, IsInjective
<1>2. IsFiniteSet(R) /\ Cardinality(R) <= Cardinality(S)
  BY <1>1, FS_Injection
<1>3. QED
  BY <1>2, FS_CardinalityType

(* No more than MaxActive servers run at a time, counting those in their     *)
(* handshake and those the pool lost sight of after a double start.          *)
THEOREM PoolCapacity == Spec => []RunningWithinCapacity
<1>1. IndInv => RunningWithinCapacity
  <2> SUFFICES ASSUME IndInv PROVE RunningWithinCapacity
    OBVIOUS
  <2>1. /\ Cardinality(Running) \in Nat /\ Cardinality(Claims) \in Nat
        /\ Cardinality(Running) <= Cardinality(Claims)
    BY ServersWithinClaims, ClaimOfRunning, ClaimsFinite
  <2>2. QED
    BY <2>1, LspPoolAssumption DEF IndInv, TypeOK, SlotsCoverServers, RunningWithinCapacity
<1>2. QED
  BY <1>1, PoolInvariant, PTL

(* A limited language never has more servers than its limit, those that an   *)
(* eviction is shutting down excepted.                                       *)
THEOREM PoolLangLimit == Spec => []LangWithinLimit
<1>1. IndInv => LangWithinLimit
  <2> SUFFICES ASSUME IndInv, NEW l \in Limited
               PROVE  Cardinality(LangServers(l) \ BeingEvicted) <= LimitOf[l]
    BY DEF LangWithinLimit
  <2> DEFINE R == LangServers(l) \ BeingEvicted
  <2>1. R \in SUBSET Running
    BY DEF LangServers
  <2>2. ASSUME NEW s \in R PROVE ClaimOf(s) \in LangClaims(l)
    <3>1. s \in Running /\ LangOf[home[s]] = l /\ s \notin BeingEvicted
      BY DEF LangServers
    <3>2. CASE ClaimOf(s) \in Keys /\ conns[ClaimOf(s)] = s
      BY <3>1, <3>2, LspPoolAssumption
      DEF IndInv, ServersOK, LangClaims, ConnKeys, Running
    <3>3. CASE ClaimOf(s) \in Callers /\ held[ClaimOf(s)] = s
      <4>1. pc[ClaimOf(s)] \in {"init", "insert"}
        BY <3>1, <3>3, LspPoolAssumption
        DEF IndInv, CallersOK, BeingEvicted, Running
      <4>2. QED
        BY <3>1, <3>3, <4>1 DEF IndInv, ServersOK, LangClaims, InFlight, InFlightPCs, PC
    <3>4. CASE ClaimOf(s) = s /\ s \in Orphans
      BY <3>1, <3>4 DEF LangClaims
    <3>5. QED
      BY <3>1, <3>2, <3>3, <3>4, ClaimOfRunning
  <2>3. /\ Cardinality(R) \in Nat /\ Cardinality(LangClaims(l)) \in Nat
        /\ Cardinality(R) <= Cardinality(LangClaims(l))
    BY <2>1, <2>2, ServersWithinClaims, ClaimsFinite
  <2>4. QED
    BY <2>3, LspPoolAssumption DEF IndInv, TypeOK, LangBudget
<1>2. QED
  BY <1>1, PoolInvariant, PTL

------------------------------------------------------------------------------

(* A Get that has its token and no server yet leaves room for one.           *)
LEMMA RoomToStart ==
    ASSUME IndInv, NEW c \in Callers, pc[c] = "spawn"
    PROVE  Cardinality(Running) < MaxActive
<1>1. c \in Claims
  BY DEF Claims, TokenHolders, TokenPCs
<1>2. \A s \in Running : ClaimOf(s) \in Claims \ {c}
  BY ClaimOfRunning, LspPoolAssumption DEF IndInv, CallersOK, Running, Orphans
<1>3. /\ IsFiniteSet(Claims \ {c})
      /\ Cardinality(Claims) \in Nat /\ Cardinality(Claims \ {c}) \in Nat
      /\ Cardinality(Claims \ {c}) <= Cardinality(Claims) - 1
  BY <1>1, ClaimsFinite, CardinalityLoses, FS_RemoveElement
<1>4. /\ Cardinality(Running) \in Nat
      /\ Cardinality(Running) <= Cardinality(Claims \ {c})
  BY <1>2, <1>3, ServersWithinClaims
<1>5. QED
  BY <1>3, <1>4, LspPoolAssumption DEF IndInv, TypeOK, SlotsCoverServers

(* The pool implements a bounded set of servers that start only when there   *)
(* is room and stop one at a time.                                           *)
THEOREM PoolImplementsSlots == Spec => SlotsSpec
<1>1. Init => Slots!SlotsInit
  BY DEF Init, Slots!SlotsInit, Running
<1>2. IndInv /\ [Next]_vars => [Slots!SlotsNext]_Running
  <2> SUFFICES ASSUME IndInv, Next PROVE Slots!SlotsNext \/ Running' = Running
    BY DEF vars, Running
  <2> USE DEF IndInv
  <2>1. ASSUME NEW s \in Servers, s \in Running, Running' = Running \ {s}
        PROVE  Slots!SlotsNext
    BY <2>1 DEF Slots!SlotsNext, Slots!Stop
  <2>2. ASSUME NEW c \in Callers, SpawnStart(c) PROVE Slots!SlotsNext
    <3>1. PICK s \in Servers :
             proc[s] = "dead" /\ proc' = [proc EXCEPT ![s] = "starting"]
      BY <2>2 DEF SpawnStart
    <3>2. s \notin Running /\ Running' = Running \cup {s}
      BY <3>1 DEF Running, TypeOK
    <3>3. Cardinality(Running) < MaxActive
      BY <2>2, RoomToStart DEF SpawnStart
    <3>4. Slots!Start(s)
      BY <3>2, <3>3 DEF Slots!Start, Cardinality, Slots!Cardinality
    <3>5. QED
      BY <3>4 DEF Slots!SlotsNext
  <2>3. ASSUME NEW s \in Servers, ShutDown(s)
        PROVE  Slots!SlotsNext \/ Running' = Running
    <3>1. CASE proc[s] = "up"
      <4>1. s \in Running /\ Running' = Running \ {s}
        BY <2>3, <3>1 DEF ShutDown, Running, TypeOK
      <4>2. QED
        BY <2>1, <4>1
    <3>2. CASE proc[s] # "up"
      BY <2>3, <3>2 DEF ShutDown, Running, TypeOK
    <3>3. QED
      BY <3>1, <3>2
  <2>4. ASSUME NEW c \in Callers, EvictGone(c) \/ EvictAnswered(c)
        PROVE  Slots!SlotsNext \/ Running' = Running
    <3>1. held[c] \in Servers /\ ShutDown(held[c])
      BY <2>4 DEF EvictGone, EvictAnswered, EvictFinish, CallersOK, TypeOK
    <3>2. QED
      BY <2>3, <3>1
  <2>5. ASSUME NEW k \in Keys, StopAnswered(k) \/ StopGone(k)
        PROVE  Slots!SlotsNext \/ Running' = Running
    <3>1. conns[k] \in Servers /\ ShutDown(conns[k])
      BY <2>5 DEF StopAnswered, StopGone, StopEntry, TodoOK, ConnKeys, TypeOK
    <3>2. QED
      BY <2>3, <3>1
  <2>6. ASSUME NEW c \in Callers, InitAnswered(c) PROVE Running' = Running
    BY <2>6 DEF InitAnswered, ServersOK, CallersOK, Running, TypeOK
  <2>7. ASSUME NEW c \in Callers, InitFailed(c) PROVE Slots!SlotsNext
    <3>1. held[c] \in Running /\ Running' = Running \ {held[c]}
      BY <2>7 DEF InitFailed, ServersOK, CallersOK, Running, TypeOK
    <3>2. QED
      BY <2>1, <3>1 DEF Running
  <2>8. ASSUME NEW k \in Keys, KillServer(k) PROVE Slots!SlotsNext
    <3>1. conns[k] \in Running /\ Running' = Running \ {conns[k]}
      BY <2>8 DEF KillServer, ConnKeys, Running, TypeOK
    <3>2. QED
      BY <2>1, <3>1 DEF Running
  <2>9. ASSUME NEW s \in Servers, Exit(s) PROVE Slots!SlotsNext \/ Running' = Running
    <3>1. CASE proc[s] = "up"
      BY <2>1, <2>9, <3>1 DEF Exit, Running, TypeOK
    <3>2. CASE proc[s] = "doomed"
      BY <2>9, <3>2 DEF Exit, Running, TypeOK
    <3>3. QED
      BY <2>9, <3>1, <3>2 DEF Exit
  <2>10. ASSUME NEW s \in Servers, WaitReturns(s) PROVE Running' = Running
    BY <2>10 DEF WaitReturns, Running, TypeOK
  <2>11. ASSUME NEW c \in Callers,
                (\E k \in Keys : Call(c, k)) \/ LockedStep(c)
                  \/ TryAcquire(c) \/ Retry(c) \/ WaitToken(c) \/ WaitTimeout(c)
                  \/ SpawnRefused(c) \/ ReleaseToken(c)
         PROVE  proc' = proc
    BY <2>11
    DEF Call, LockedStep, GetStopped, GetHit, GetRefused, GetAdmitted, Miss, EvictNothing,
        EvictDead, EvictLRU, GiveUp, Insert, TryAcquire, Retry, WaitToken, WaitTimeout,
        SpawnRefused, ReleaseToken, TakeToken, MoveOn
  <2>12. ASSUME ReapBegin \/ ShutdownBegin \/ StopEnd PROVE proc' = proc
    BY <2>12 DEF ReapBegin, ShutdownBegin, StopEnd
  <2>13. ASSUME NEW k \in Keys, ReapMeetsDead(k) PROVE proc' = proc
    BY <2>13 DEF ReapMeetsDead
  <2>14. proc' = proc => Running' = Running
    BY DEF Running
  <2>15. QED
    BY <2>2, <2>4, <2>5, <2>6, <2>7, <2>8, <2>9, <2>10, <2>11, <2>12, <2>13, <2>14
    DEF Next, CallerNext, FreeStep, ServerAnswers
<1>3. QED
  BY <1>1, <1>2, PoolInvariant, PTL DEF Spec, SlotsSpec, Slots!SlotsSpec

==============================================================================
