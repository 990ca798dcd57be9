------------------------------- MODULE LspPool -------------------------------
(***************************************************************************)
(* The pool of language-server processes of oculus (lsp/pool_impl.go,      *)
(* RealPool).  A caller asks Get for a client of (language, root); the     *)
(* pool reuses the connection it keeps for that key or starts a server,    *)
(* after taking one token of a semaphore of MaxActive tokens and one unit  *)
(* of the language's own budget.  When no token is left Get evicts the     *)
(* least recently used connection.  ReapIdle, Shutdown and KillServer run  *)
(* beside any number of Gets.                                              *)
(*                                                                         *)
(* Get holds the mutex mu only in its first and last section: everything   *)
(* between (acquireSlot, spawnServer, shutdownEntry of an evicted server)  *)
(* interleaves with other operations.  ReapIdle and Shutdown hold mu over  *)
(* all of their shutdownEntry calls, which wait for the server to answer.  *)
(***************************************************************************)
EXTENDS Integers, FiniteSets

CONSTANTS
    Callers,    \* goroutines that call Get
    Keys,       \* poolKey: a language and an absolute workspace root
    Langs,
    LangOf,     \* the language of a key
    Limited,    \* the languages that have an entry in langLimits
    LimitOf,    \* langLimits
    MaxActive,  \* capacity of sem
    Servers,    \* identities of server processes, reused once dead
    NoServer, NoKey

ASSUME LspPoolAssumption ==
    /\ LangOf \in [Keys -> Langs]
    /\ Limited \subseteq Langs
    /\ LimitOf \in [Limited -> Nat]
    /\ MaxActive \in Nat \ {0}
    /\ NoServer \notin Servers
    /\ NoKey \notin Keys
    /\ IsFiniteSet(Keys)
    /\ IsFiniteSet(Callers)
    /\ IsFiniteSet(Servers)
    /\ Keys \cap Callers = {}
    /\ Keys \cap Servers = {}
    /\ Callers \cap Servers = {}

VARIABLES
    conns,      \* the connection kept for each key
    stopped,    \* Shutdown has begun
    sem,        \* tokens taken from the pool-wide semaphore
    langActive, \* units taken of the budget of each limited language (the
                \* count of any other language is never read)
    usedBefore, \* <<s, t>>: s.lastUsed is before t.lastUsed
    mu,         \* who holds the mutex over several steps: ReapIdle or Shutdown
    todo,       \* the keys whose entry that holder has yet to shut down
    proc,       \* life cycle of each server process
    home,       \* the key a live server process was started for
    pc,         \* where each caller is in Get
    key,        \* the key it asked for
    held        \* the server it is starting or evicting

vars == <<conns, stopped, sem, langActive, usedBefore, mu, todo, proc, home,
          pc, key, held>>

pool == <<conns, stopped, sem, langActive, usedBefore, mu, todo>>

(* "doomed": told to exit or sent SIGKILL; "exited": the process is gone    *)
(* and its Wait goroutine has not run; "dead": entry.dead is stored.        *)
ProcState == {"starting", "up", "doomed", "exited", "dead"}

PC == {"idle", "get", "acquire", "evict", "evicting", "retry", "wait",
       "spawn", "init", "insert", "spawnFailed", "giveUp"}

TypeOK ==
    /\ conns \in [Keys -> Servers \cup {NoServer}]
    /\ stopped \in BOOLEAN
    /\ sem \in 0..MaxActive
    /\ langActive \in [Limited -> Nat]
    /\ usedBefore \in SUBSET (Servers \X Servers)
    /\ mu \in {"free", "reap", "shutdown"}
    /\ todo \in SUBSET Keys
    /\ proc \in [Servers -> ProcState]
    /\ home \in [Servers -> Keys \cup {NoKey}]
    /\ pc \in [Callers -> PC]
    /\ key \in [Callers -> Keys \cup {NoKey}]
    /\ held \in [Callers -> Servers \cup {NoServer}]

Init ==
    /\ conns = [k \in Keys |-> NoServer]
    /\ stopped = FALSE
    /\ sem = 0
    /\ langActive = [l \in Limited |-> 0]
    /\ usedBefore = {}
    /\ mu = "free"
    /\ todo = {}
    /\ proc = [s \in Servers |-> "dead"]
    /\ home = [s \in Servers |-> NoKey]
    /\ pc = [c \in Callers |-> "idle"]
    /\ key = [c \in Callers |-> NoKey]
    /\ held = [c \in Callers |-> NoServer]

------------------------------------------------------------------------------
(* Derived state.                                                          *)

ConnKeys == {k \in Keys : conns[k] # NoServer}
Tracked == {s \in Servers : \E k \in Keys : conns[k] = s}
Running == {s \in Servers : proc[s] \in {"starting", "up"}}
DeadKeys == {k \in ConnKeys : proc[conns[k]] = "dead"}

(* Callers that own one token each: the one they took, or the one of the    *)
(* server they evicted and are still shutting down.                         *)
TokenPCs == {"evicting", "spawn", "init", "insert", "spawnFailed"}
TokenHolders == {c \in Callers : pc[c] \in TokenPCs}

(* Callers between langActive++ and the insertion or the matching --.       *)
InFlightPCs == PC \ {"idle", "get"}
InFlight(l) == {c \in Callers : pc[c] \in InFlightPCs /\ LangOf[key[c]] = l}

(* Servers some Get in progress has in a local variable.                    *)
InHand == {s \in Servers : \E c \in Callers : held[c] = s}

(* Running servers that neither the pool nor any Get knows any more.        *)
Orphans == {s \in Running : s \notin Tracked /\ s \notin InHand}

(* Who stands behind the tokens taken from sem, and behind the units taken   *)
(* of the budget of language l.                                              *)
Claims == ConnKeys \cup TokenHolders \cup Orphans

LangClaims(l) ==
    {k \in ConnKeys : LangOf[k] = l} \cup InFlight(l)
      \cup {s \in Orphans : LangOf[home[s]] = l}

(* A non-blocking receive from sem.                                         *)
Drained == IF sem > 0 THEN sem - 1 ELSE 0

(* langActive[l]++, langActive[l]--, and the latter guarded by > 0.          *)
LangTaken(l) ==
    [m \in Limited |-> IF m = l THEN langActive[m] + 1 ELSE langActive[m]]

LangReturned(l) ==
    [m \in Limited |-> IF m = l THEN langActive[m] - 1 ELSE langActive[m]]

LangReleased(l) ==
    [m \in Limited |->
        IF m = l /\ langActive[m] > 0 THEN langActive[m] - 1 ELSE langActive[m]]

(* The order of the lastUsed times when s gets the time of this moment.     *)
Touched(s) ==
    {p \in usedBefore : p[1] # s /\ p[2] # s}
      \cup ({t \in Servers \ {s} : proc[t] \in {"up", "doomed", "exited"}} \X {s})

Goto(c, next) == pc' = [pc EXCEPT ![c] = next]

(* Get returns: its local variables are gone.  The client it hands out stays *)
(* with the caller; Release does nothing, so the pool never learns of it.    *)
Return(c) ==
    /\ pc' = [pc EXCEPT ![c] = "idle"]
    /\ key' = [key EXCEPT ![c] = NoKey]
Hold(c, s) == held' = [held EXCEPT ![c] = s]

------------------------------------------------------------------------------
(* Get: the first critical section.                                        *)

Call(c, k) ==
    /\ pc[c] = "idle"
    /\ Goto(c, "get")
    /\ key' = [key EXCEPT ![c] = k]
    /\ UNCHANGED <<pool, proc, home, held>>

GetStopped(c) ==
    /\ pc[c] = "get" /\ mu = "free" /\ stopped
    /\ Return(c)
    /\ UNCHANGED <<pool, proc, home, held>>

GetHit(c) ==
    LET s == conns[key[c]] IN
    /\ pc[c] = "get" /\ mu = "free" /\ ~stopped
    /\ s # NoServer /\ proc[s] # "dead"
    /\ usedBefore' = Touched(s)
    /\ Return(c)
    /\ UNCHANGED <<conns, stopped, sem, langActive, mu, todo, proc, home, held>>

(* Mutation: the limit is off by one.                                        *)
LangOverfull(l) == l \in Limited /\ langActive[l] > LimitOf[l]
LangFull(l) == l \in Limited /\ langActive[l] >= LimitOf[l]

(* No connection, or one whose server is dead: that one is dropped with its *)
(* token, while langActive keeps counting it.                               *)
Miss(c) ==
    LET k == key[c] IN
    /\ pc[c] = "get" /\ mu = "free" /\ ~stopped
    /\ conns[k] = NoServer \/ k \in DeadKeys
    /\ conns' = [conns EXCEPT ![k] = NoServer]
    /\ sem' = IF k \in DeadKeys THEN Drained ELSE sem
    /\ UNCHANGED <<stopped, usedBefore, mu, todo, proc, home, held>>

GetRefused(c) ==
    /\ Miss(c)
    /\ LangFull(LangOf[key[c]])
    /\ Return(c)
    /\ UNCHANGED langActive

GetAdmitted(c) ==
    /\ Miss(c)
    /\ ~LangFull(LangOf[key[c]])
    /\ langActive' = LangTaken(LangOf[key[c]])
    /\ Goto(c, "acquire")
    /\ UNCHANGED key

------------------------------------------------------------------------------
(* acquireSlot and evictLRU.                                               *)

TokenFree == sem < MaxActive

TakeToken(c) ==
    /\ TokenFree
    /\ sem' = sem + 1
    /\ Goto(c, "spawn")
    /\ UNCHANGED <<conns, stopped, langActive, usedBefore, mu, todo, proc, home,
                   key, held>>

MoveOn(c, next) ==
    /\ Goto(c, next)
    /\ UNCHANGED <<pool, proc, home, key, held>>

TryAcquire(c) ==
    /\ pc[c] = "acquire"
    /\ TakeToken(c) \/ (~TokenFree /\ MoveOn(c, "evict"))

EvictNothing(c) ==
    /\ pc[c] = "evict" /\ mu = "free"
    /\ ConnKeys = {}
    /\ MoveOn(c, "wait")

EvictDead(c) ==
    /\ pc[c] = "evict" /\ mu = "free"
    /\ \E k \in DeadKeys :
         /\ conns' = [conns EXCEPT ![k] = NoServer]
         /\ langActive' = LangReleased(LangOf[k])
    /\ sem' = Drained
    /\ Goto(c, "retry")
    /\ UNCHANGED <<stopped, usedBefore, mu, todo, proc, home, key, held>>

(* The least recently used entry leaves the map and the language's budget    *)
(* under the mutex; its server is shut down after the mutex is released.     *)
EvictLRU(c) ==
    /\ pc[c] = "evict" /\ mu = "free"
    /\ DeadKeys = {}
    /\ \E k \in ConnKeys :
         /\ \A j \in ConnKeys : <<conns[j], conns[k]>> \notin usedBefore
         /\ conns' = [conns EXCEPT ![k] = NoServer]
         /\ langActive' = LangReleased(LangOf[k])
         /\ Hold(c, conns[k])
    /\ Goto(c, "evicting")
    /\ UNCHANGED <<stopped, sem, usedBefore, mu, todo, proc, home, key>>

(* shutdownEntry: Request("shutdown") returns when the server answers or is  *)
(* gone; then exit is sent and the process group killed at the latest after  *)
(* three seconds.                                                            *)
Gone(s) == proc[s] \in {"exited", "dead"}
ShutDown(s) == proc' = [proc EXCEPT ![s] = IF @ = "up" THEN "doomed" ELSE @]

EvictFinish(c) ==
    /\ ShutDown(held[c])
    /\ sem' = Drained
    /\ Hold(c, NoServer)
    /\ Goto(c, "retry")
    /\ UNCHANGED <<conns, stopped, langActive, usedBefore, mu, todo, home, key>>

EvictAnswered(c) ==
    /\ pc[c] = "evicting" /\ proc[held[c]] = "up"
    /\ EvictFinish(c)

EvictGone(c) ==
    /\ pc[c] = "evicting" /\ Gone(held[c])
    /\ EvictFinish(c)

Retry(c) ==
    /\ pc[c] = "retry"
    /\ TakeToken(c) \/ (~TokenFree /\ MoveOn(c, "wait"))

WaitToken(c) ==
    /\ pc[c] = "wait"
    /\ TakeToken(c)

(* Mutations: the waiter that gives up releases a token it never got; the    *)
(* wait has no timeout.                                                      *)
WaitTimeoutReleases(c) == pc[c] = "wait" /\ MoveOn(c, "spawnFailed")
WaitForever(c) == c \notin Callers

WaitTimeout(c) ==
    /\ pc[c] = "wait"
    /\ MoveOn(c, "giveUp")

GiveUp(c) ==
    /\ pc[c] = "giveUp" /\ mu = "free"
    /\ langActive' = LangReturned(LangOf[key[c]])
    /\ Return(c)
    /\ UNCHANGED <<conns, stopped, sem, usedBefore, mu, todo, proc, home, held>>

------------------------------------------------------------------------------
(* spawnServer and the last critical section of Get.                       *)

(* No registry entry, no root marker, no binary, or the process won't start. *)
SpawnRefused(c) ==
    /\ pc[c] = "spawn"
    /\ MoveOn(c, "spawnFailed")

SpawnStart(c) ==
    /\ pc[c] = "spawn"
    /\ \E s \in Servers :
         /\ proc[s] = "dead" /\ s \notin Tracked \cup InHand
         /\ proc' = [proc EXCEPT ![s] = "starting"]
         /\ home' = [home EXCEPT ![s] = key[c]]
         /\ Hold(c, s)
    /\ Goto(c, "init")
    /\ UNCHANGED <<pool, key>>

InitAnswered(c) ==
    /\ pc[c] = "init"
    /\ proc' = [proc EXCEPT ![held[c]] = "up"]
    /\ usedBefore' = Touched(held[c])
    /\ Goto(c, "insert")
    /\ UNCHANGED <<conns, stopped, sem, langActive, mu, todo, home, key, held>>

(* initialize fails; spawnServer closes stdin and waits for the exit.        *)
InitFailed(c) ==
    /\ pc[c] = "init"
    /\ proc' = [proc EXCEPT ![held[c]] = "dead"]
    /\ home' = [home EXCEPT ![held[c]] = NoKey]
    /\ Hold(c, NoServer)
    /\ Goto(c, "spawnFailed")
    /\ UNCHANGED <<pool, key>>

(* <-p.sem is a blocking receive.                                            *)
ReleaseToken(c) ==
    /\ pc[c] = "spawnFailed" /\ sem > 0
    /\ sem' = sem - 1
    /\ Goto(c, "giveUp")
    /\ UNCHANGED <<conns, stopped, langActive, usedBefore, mu, todo, proc, home,
                   key, held>>

Insert(c) ==
    /\ pc[c] = "insert" /\ mu = "free"
    /\ conns' = [conns EXCEPT ![key[c]] = held[c]]
    /\ Hold(c, NoServer)
    /\ Return(c)
    /\ UNCHANGED <<stopped, sem, langActive, usedBefore, mu, todo, proc, home>>

------------------------------------------------------------------------------
(* ReapIdle, Shutdown and KillServer.                                      *)

(* An entry idle for longer than the TTL implies that every entry used       *)
(* before it is idle for longer too.                                         *)
IdleSet(K) ==
    /\ K \subseteq ConnKeys
    /\ \A k \in K, j \in ConnKeys : <<conns[j], conns[k]>> \in usedBefore => j \in K

ReapBegin ==
    /\ mu = "free"
    /\ \E K \in SUBSET ConnKeys :
         /\ IdleSet(K)
         /\ todo' = K \cup DeadKeys
    /\ todo' # {}
    /\ mu' = "reap"
    /\ UNCHANGED <<conns, stopped, sem, langActive, usedBefore, proc, home, pc,
                   key, held>>

ShutdownBegin ==
    /\ mu = "free"
    /\ stopped' = TRUE
    /\ mu' = "shutdown"
    /\ todo' = ConnKeys
    /\ UNCHANGED <<conns, sem, langActive, usedBefore, proc, home, pc, key, held>>

(* Mutation: the entry is dropped and its server left running.               *)
DropEntry(k) ==
    /\ k \in todo
    /\ conns' = [conns EXCEPT ![k] = NoServer]
    /\ sem' = Drained
    /\ langActive' = IF mu = "reap" THEN LangReleased(LangOf[k]) ELSE langActive
    /\ todo' = todo \ {k}
    /\ UNCHANGED <<stopped, usedBefore, mu, proc, home, pc, key, held>>

(* One entry: shutdownEntry, delete, drain; only ReapIdle gives back the     *)
(* language's unit.                                                          *)
StopEntry(k) ==
    /\ k \in todo
    /\ ShutDown(conns[k])
    /\ conns' = [conns EXCEPT ![k] = NoServer]
    /\ sem' = Drained
    /\ langActive' = IF mu = "reap" THEN LangReleased(LangOf[k]) ELSE langActive
    /\ todo' = todo \ {k}
    /\ UNCHANGED <<stopped, usedBefore, mu, home, pc, key, held>>

StopAnswered(k) ==
    /\ k \in todo
    /\ proc[conns[k]] = "up"
    /\ StopEntry(k)

(* Mutation: the shutdown request blocks although its server is gone.        *)
StopGoneBlocks(k) == k \notin Keys

StopGone(k) ==
    /\ k \in todo
    /\ Gone(conns[k])
    /\ StopEntry(k)

(* An entry whose server dies while ReapIdle is at work is met dead by its    *)
(* loop over the map, unless the loop has passed it.                         *)
ReapMeetsDead(k) ==
    /\ mu = "reap" /\ k \in DeadKeys \ todo
    /\ todo' = todo \cup {k}
    /\ UNCHANGED <<conns, stopped, sem, langActive, usedBefore, mu, proc, home, pc,
                   key, held>>

StopEnd ==
    /\ mu # "free" /\ todo = {}
    /\ mu' = "free"
    /\ UNCHANGED <<conns, stopped, sem, langActive, usedBefore, todo, proc, home,
                   pc, key, held>>

KillServer(k) ==
    /\ mu = "free"
    /\ k \in ConnKeys /\ proc[conns[k]] = "up"
    /\ proc' = [proc EXCEPT ![conns[k]] = "doomed"]
    /\ UNCHANGED <<pool, home, pc, key, held>>

------------------------------------------------------------------------------
(* The server processes.                                                   *)

Exit(s) ==
    /\ proc[s] \in {"up", "doomed"}
    /\ proc' = [proc EXCEPT ![s] = "exited"]
    /\ UNCHANGED <<pool, home, pc, key, held>>

(* The goroutine behind cmd.Wait stores entry.dead; lastUsed of a dead entry *)
(* is not read again.                                                        *)
WaitReturns(s) ==
    /\ proc[s] = "exited"
    /\ proc' = [proc EXCEPT ![s] = "dead"]
    /\ home' = [home EXCEPT ![s] = NoKey]
    /\ usedBefore' = {p \in usedBefore : p[1] # s /\ p[2] # s}
    /\ UNCHANGED <<conns, stopped, sem, langActive, mu, todo, pc, key, held>>

------------------------------------------------------------------------------

(* The steps of Get that need the mutex, and those that do not.              *)
LockedStep(c) ==
    \/ GetStopped(c) \/ GetHit(c) \/ GetRefused(c) \/ GetAdmitted(c)
    \/ EvictNothing(c) \/ EvictDead(c) \/ EvictLRU(c)
    \/ GiveUp(c) \/ Insert(c)

FreeStep(c) ==
    \/ TryAcquire(c) \/ Retry(c) \/ WaitToken(c) \/ WaitTimeout(c)
    \/ SpawnRefused(c) \/ SpawnStart(c) \/ ReleaseToken(c) \/ EvictGone(c)

ServerAnswers(c) == EvictAnswered(c) \/ InitAnswered(c) \/ InitFailed(c)

CallerNext(c) ==
    \/ \E k \in Keys : Call(c, k)
    \/ LockedStep(c) \/ FreeStep(c) \/ ServerAnswers(c)

Next ==
    \/ \E c \in Callers : CallerNext(c)
    \/ ReapBegin \/ ShutdownBegin \/ StopEnd
    \/ \E k \in Keys :
         StopAnswered(k) \/ StopGone(k) \/ ReapMeetsDead(k) \/ KillServer(k)
    \/ \E s \in Servers : Exit(s) \/ WaitReturns(s)

Spec == Init /\ [][Next]_vars

(* What the scheduler and the operating system guarantee: goroutines run, a  *)
(* waiter gets Go's starvation-free mutex, a killed process exits.           *)
PoolFairness ==
    /\ \A c \in Callers : SF_vars(LockedStep(c)) /\ WF_vars(FreeStep(c))
    /\ \A k \in Keys : WF_vars(StopGone(k))
    /\ WF_vars(StopEnd)
    /\ \A s \in Servers :
         /\ WF_vars(proc[s] = "doomed" /\ Exit(s))
         /\ WF_vars(WaitReturns(s))

(* Servers that answer every request in the end.                             *)
ServerFairness ==
    /\ \A c \in Callers : WF_vars(ServerAnswers(c))
    /\ \A k \in Keys : WF_vars(StopAnswered(k))

HungSpec == Spec /\ PoolFairness
FairSpec == HungSpec /\ ServerFairness

------------------------------------------------------------------------------

(* Every entry of the pool, every Get that owns a token and every running    *)
(* server the pool lost sight of is covered by a token of its own.  The      *)
(* drains of evictLRU, ReapIdle, Shutdown and of Get's dead-entry branch do  *)
(* not block and do not say whose token they take: none may take a token     *)
(* that still stands for something else.                                     *)
SlotsCoverServers == Cardinality(Claims) <= sem

(* "The maximum number of concurrent gopls instances": whatever the          *)
(* interleaving of Gets, evictions and reaping, no more than MaxActive       *)
(* servers run that nobody has told to exit.                                 *)
RunningWithinCapacity == Cardinality(Running) <= MaxActive

LangServers(l) == {s \in Running : LangOf[home[s]] = l}
BeingEvicted == {s \in Servers : \E c \in Callers : pc[c] = "evicting" /\ held[c] = s}

(* The same for a language with a budget of its own, the servers that an     *)
(* eviction is shutting down excepted: double starts, crashes and reaping    *)
(* never let more servers of the language run than langLimits says.          *)
LangWithinLimit ==
    \A l \in Limited : Cardinality(LangServers(l) \ BeingEvicted) <= LimitOf[l]

(* The inductive invariant behind the above.                                 *)

(* The local variables of a Get in progress: it knows its key, and a server  *)
(* exactly while it evicts or starts one.                                    *)
CallersOK ==
    \A c \in Callers :
        /\ pc[c] # "idle" => key[c] \in Keys
        /\ held[c] # NoServer <=> pc[c] \in {"evicting", "init", "insert"}

(* A server is known in one place only.                                      *)
ServersKnownOnce ==
    /\ \A c \in Callers, d \in Callers : held[c] = held[d] /\ held[c] # NoServer => c = d
    /\ \A c \in Callers, k \in Keys : held[c] = conns[k] => held[c] = NoServer
    /\ \A j \in Keys, k \in Keys : conns[j] = conns[k] /\ conns[j] # NoServer => j = k

(* A server in its handshake belongs to the Get that started it, and a live  *)
(* server runs for the key it is known under.                                *)
ServersOK ==
    /\ \A c \in Callers : pc[c] = "init" <=> held[c] # NoServer /\ proc[held[c]] = "starting"
    /\ \A s \in Servers : proc[s] = "starting" => s \in InHand
    /\ \A s \in Running : home[s] \in Keys
    /\ \A k \in ConnKeys : conns[k] \in Running => home[conns[k]] = k
    /\ \A c \in Callers :
         pc[c] \in {"init", "insert"} /\ held[c] \in Running => home[held[c]] = key[c]

(* ReapIdle and Shutdown have entries to stop only while they hold mu, and   *)
(* nobody else removes them.                                                 *)
TodoOK ==
    /\ mu = "free" => todo = {}
    /\ todo \subseteq ConnKeys

(* Every unit of a language's budget that stands for an entry, a Get or a    *)
(* lost server is still counted, and the count never exceeds the limit.      *)
LangBudget ==
    \A l \in Limited : Cardinality(LangClaims(l)) <= langActive[l] /\ langActive[l] <= LimitOf[l]

IndInv ==
    /\ TypeOK
    /\ CallersOK
    /\ ServersKnownOnce
    /\ ServersOK
    /\ TodoOK
    /\ SlotsCoverServers
    /\ LangBudget

(* The pool seen from outside: a bounded set of running servers.             *)
Slots == INSTANCE ServerSlots WITH Capacity <- MaxActive, running <- Running

SlotsSpec == Slots!SlotsSpec

(* Every Get returns, with a client or an error, whatever the other callers, *)
(* the reaper and Shutdown do, provided that servers answer.                 *)
GetReturns ==
    \A c \in Callers : pc[c] # "idle" ~> pc[c] = "idle"

(* Shutdown and ReapIdle give the mutex back, provided that servers answer.  *)
MutexReleased == mu # "free" ~> mu = "free"

(* The comment on shutdownEntry: a server that does not exit within three    *)
(* seconds is killed, so an eviction ends even if its server hangs.          *)
HungServerKilled ==
    \A c \in Callers : pc[c] = "evicting" ~> pc[c] # "evicting"
==============================================================================
