---------------------------- MODULE WorkerPair ----------------------------
(* The pairing part of server/deno.ts: manage sockets register an agent    *)
(* under its name, a connector's request sends the agent a code, the agent *)
(* dials back with that code, and the two websockets are piped together.   *)
(* A request is a coroutine: it awaits the mutex, then the opening of its  *)
(* socket, and releases the mutex in onopen.  One agent name is modelled.  *)
EXTENDS Integers, FiniteSets

CONSTANTS Connectors,   \* requests that name the agent
          Agents,       \* the agent's requests, one per command it receives
          Manages,      \* manage sockets of that agent's name
          MaxTick,      \* bound: the clock that makes the codes
          NoOne

VARIABLES manageSocket, \* the registered manage socket, or NoOne
          mstate,       \* manage socket -> "new", "open", "dying" or "closed"
          commands,     \* codes sent to a live agent and not yet dialled back
          group,        \* groupSocket: code -> [first, second] or NoOne
          mutex,        \* the request that holds the mutex, or NoOne
          pc,           \* request -> where it stands
          code,         \* request -> its code
          second,       \* request -> groupSocket[code] was there after acquire
          pipes,        \* code -> pipes of its pairs that have not thrown
          broken,       \* history: codes whose pipe has thrown
          tick          \* the millisecond clock

pairVars == <<manageSocket, mstate, commands, group, mutex, pc, code, second, pipes, broken, tick>>

Requests == Connectors \cup Agents
Codes == 0 .. MaxTick
Entries == [first : Requests, second : Requests \cup {NoOne}]

\* NoOne stands for null and undefined: no request and no entry of a table.
ASSUME WorkerPairAssumption == /\ Connectors \cap Agents = {} /\ MaxTick \in Nat
                               /\ NoOne \notin Requests /\ NoOne \notin Entries

PairInit ==
  /\ manageSocket = NoOne /\ mstate = [g \in Manages |-> "new"] /\ commands = {}
  /\ group = [k \in Codes |-> NoOne] /\ mutex = NoOne
  /\ pc = [r \in Requests |-> "new"] /\ code = [r \in Requests |-> 0]
  /\ second = [r \in Requests |-> FALSE] /\ pipes = [k \in Codes |-> 0]
  /\ broken = {} /\ tick = 0

Tick == /\ tick < MaxTick /\ tick' = tick + 1
        /\ UNCHANGED <<manageSocket, mstate, commands, group, mutex, pc, code, second, pipes, broken>>

-----------------------------------------------------------------------------
(* rule=manager *)

ManageOpen(g) ==
  /\ mstate[g] = "new"
  /\ mstate' = [mstate EXCEPT ![g] = "open"] /\ manageSocket' = g
  /\ UNCHANGED <<commands, group, mutex, pc, code, second, pipes, broken, tick>>

\* The connection is gone, the worker has not heard of it yet.
ManageDies(g) ==
  /\ mstate[g] = "open"
  /\ mstate' = [mstate EXCEPT ![g] = "dying"]
  /\ UNCHANGED <<manageSocket, commands, group, mutex, pc, code, second, pipes, broken, tick>>

\* onerror and onclose forget the name, whoever is registered under it by now.
ManageClosed(g) ==
  /\ mstate[g] = "dying"
  /\ mstate' = [mstate EXCEPT ![g] = "closed"] /\ manageSocket' = NoOne
  /\ UNCHANGED <<commands, group, mutex, pc, code, second, pipes, broken, tick>>

-----------------------------------------------------------------------------
(* rule=Connector or Agent, mode=forward or forwardMux *)

\* A connector is refused without a manage socket; otherwise it takes the
\* time as its code and sends it to the agent.
Connect(r) ==
  /\ pc[r] = "new" /\ r \in Connectors
  /\ IF manageSocket = NoOne
     THEN pc' = [pc EXCEPT ![r] = "refused"] /\ UNCHANGED <<code, commands>>
     ELSE /\ pc' = [pc EXCEPT ![r] = "lock"] /\ code' = [code EXCEPT ![r] = tick]
          /\ commands' = IF mstate[manageSocket] = "open" THEN commands \cup {<<r, tick>>} ELSE commands
  /\ UNCHANGED <<manageSocket, mstate, group, mutex, second, pipes, broken, tick>>

\* The agent dials back with the code it was sent (it has no name to check).
DialBack(r) ==
  /\ pc[r] = "new" /\ r \in Agents
  /\ \E c \in commands : /\ commands' = commands \ {c}
                         /\ code' = [code EXCEPT ![r] = c[2]]
  /\ pc' = [pc EXCEPT ![r] = "lock"]
  /\ UNCHANGED <<manageSocket, mstate, group, mutex, second, pipes, broken, tick>>

\* A mutant: no mutex around test and entry.
AcquireUnlocked(r) ==
  /\ pc[r] = "lock"
  /\ mutex' = r
  /\ pc' = [pc EXCEPT ![r] = "opening"]
  /\ second' = [second EXCEPT ![r] = group[code[r]] # NoOne]
  /\ UNCHANGED <<manageSocket, mstate, commands, group, code, pipes, broken, tick>>

\* await mutex.acquire(), then the table is read.
Acquire(r) ==
  /\ pc[r] = "lock" /\ mutex = NoOne
  /\ mutex' = r
  /\ pc' = [pc EXCEPT ![r] = "opening"]
  /\ second' = [second EXCEPT ![r] = group[code[r]] # NoOne]
  /\ UNCHANGED <<manageSocket, mstate, commands, group, code, pipes, broken, tick>>

\* onopen of the first socket of a code.
OpenFirst(r) ==
  /\ pc[r] = "opening" /\ ~second[r]
  /\ group' = [group EXCEPT ![code[r]] = [first |-> r, second |-> NoOne]]
  /\ pc' = [pc EXCEPT ![r] = "first"] /\ mutex' = NoOne
  /\ UNCHANGED <<manageSocket, mstate, commands, code, second, pipes, broken, tick>>

\* A mutant: onopen of the second socket keeps the mutex.
OpenSecondHolding(r) ==
  /\ pc[r] = "opening" /\ second[r] /\ group[code[r]] # NoOne
  /\ group' = [group EXCEPT ![code[r]].second = r]
  /\ pc' = [pc EXCEPT ![r] = "joined", ![group[code[r]].first] = "joined"]
  /\ pipes' = [pipes EXCEPT ![code[r]] = @ + 2]
  /\ UNCHANGED <<manageSocket, mstate, commands, code, second, broken, tick, mutex>>

\* onopen of the second socket: both are piped together.
OpenSecond(r) ==
  /\ pc[r] = "opening" /\ second[r] /\ group[code[r]] # NoOne
  /\ group' = [group EXCEPT ![code[r]].second = r]
  /\ pc' = [pc EXCEPT ![r] = "joined", ![group[code[r]].first] = "joined"]
  /\ pipes' = [pipes EXCEPT ![code[r]] = @ + 2]
  /\ mutex' = NoOne
  /\ UNCHANGED <<manageSocket, mstate, commands, code, second, broken, tick>>

\* The pair's entry was set to null since the test: onopen throws before it
\* releases the mutex.
OpenThrows(r) ==
  /\ pc[r] = "opening" /\ second[r] /\ group[code[r]] = NoOne
  /\ pc' = [pc EXCEPT ![r] = "thrown"]
  /\ UNCHANGED <<manageSocket, mstate, commands, group, mutex, code, second, pipes, broken, tick>>

\* The peer goes away before the handshake ends: onopen never comes.
NeverOpens(r) ==
  /\ pc[r] = "opening"
  /\ pc' = [pc EXCEPT ![r] = "vanished"]
  /\ UNCHANGED <<manageSocket, mstate, commands, group, mutex, code, second, pipes, broken, tick>>

\* A pipe of a pair rejects: its catch clears the entry of the code, whoever
\* stands there by now.
PipeThrows(k) ==
  /\ pipes[k] > 0 /\ pipes' = [pipes EXCEPT ![k] = @ - 1]
  /\ group' = [group EXCEPT ![k] = NoOne] /\ broken' = broken \cup {k}
  /\ UNCHANGED <<manageSocket, mstate, commands, mutex, pc, code, second, tick>>

-----------------------------------------------------------------------------
Open(r) == OpenFirst(r) \/ OpenSecond(r) \/ OpenThrows(r)
PairNext == \/ Tick
            \/ \E g \in Manages : ManageOpen(g) \/ ManageDies(g) \/ ManageClosed(g)
            \/ \E r \in Requests : Connect(r) \/ DialBack(r) \/ Acquire(r) \/ Open(r) \/ NeverOpens(r)
            \/ \E k \in Codes : PipeThrows(k)

\* The mutex serves its waiters in turn, and an upgrade ends one way or the other.
PairFairness == /\ \A r \in Requests : SF_pairVars(Acquire(r))
                /\ \A r \in Requests : WF_pairVars(Open(r) \/ NeverOpens(r))

-----------------------------------------------------------------------------
(* Properties.                                                             *)

\* A first socket stays findable under its code until a partner joins it or
\* the pair breaks (the test of groupSocket[code] and the entry made in onopen
\* are two steps; the mutex spans both).
WaitingFirstIsFindable ==
  \A r \in Requests : pc[r] = "first" /\ code[r] \notin broken =>
    group[code[r]] # NoOne /\ group[code[r]].first = r

\* A connector waits for the mutex for ever only behind a request whose socket
\* never opened or whose onopen threw (agents wait at the same line).
LockIsPassedOn ==
  \A r \in Connectors : (pc[r] = "lock") ~>
    (pc[r] # "lock" \/ (mutex # NoOne /\ pc[mutex] \in {"vanished", "thrown"}))
=============================================================================
