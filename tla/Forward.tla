------------------------------ MODULE Forward ------------------------------
(***************************************************************************)
(* The tcpover server's forwarding switch (server.go) together with the    *)
(* agents that answer it (outbound/wless.go, PassiveResponder).            *)
(*                                                                         *)
(* A client asks for an agent by name (forwardConnect with a name).  The   *)
(* server looks the agent's management connection up, invents a code from  *)
(* the wall clock, writes a Link message with the code on the management   *)
(* connection and parks the client under that code.  The agent dials back  *)
(* with the code (forwardConnect without a name); whichever of the two     *)
(* comes second relays both.                                               *)
(*                                                                         *)
(* Every client request c stands for two connections: the client's own     *)
(* ("active") and the one the agent dials because of it ("passive").  A    *)
(* PairGroup is a heap object; it is identified with the connection whose  *)
(* handler allocated it.                                                   *)
(***************************************************************************)
EXTENDS Naturals, Sequences, FiniteSets

CONSTANTS Names,      \* agent names
          Clients,    \* client requests
          Manages,    \* management connections, one per dial of an agent
          MaxTick,    \* bound on the clock the codes are made from
          None        \* "no entry", "no connection"

ASSUME NoneAssumption == None \notin Names \cup Manages
ASSUME TickAssumption == MaxTick \in Nat

\* A code is time.Now() rendered with four fractional digits: one value per
\* 0.1 ms, however many requests that tenth of a millisecond sees.
Codes == 0..MaxTick
NoCode == MaxTick + 1

Conn == [side: {"active", "passive"}, id: Clients]
Active(c) == [side |-> "active", id |-> c]
Passive(c) == [side |-> "passive", id |-> c]
NoConn == [side |-> "none", id |-> None]

VARIABLES
  clock,      \* the server's wall clock, in units of 0.1 ms
  registry,   \* Server.manageConn: name -> management connection
  handler,    \* the server's manageConnect goroutine of each management connection
  link,       \* the network under each management connection
  owner,      \* the agent that dialled each management connection
  inbox,      \* Link messages on their way to the agent: the requests they are for
  writing,    \* who is inside WriteJSON on each management connection
  agent,      \* the management connection each agent reads, None while it redials
  dialing,    \* requests whose Link the agent has read and is about to dial for
  pc,         \* where the forwardConnect goroutine of each connection is
  sock,       \* the network under each forwarded connection
  target,     \* the management connection a client's handler looked up
  code,       \* the code each connection is paired under
  groupConn,  \* Server.groupConn: code -> PairGroup
  members,    \* PairGroup.conn
  pairOf,     \* the PairGroup a relaying handler works on
  done,       \* PairGroups whose done channel is closed
  panicked,   \* connections whose handler panicked (net/http recovers it)
  lost        \* requests whose Link or dial back failed

manageVars == <<registry, handler, link, owner, inbox, writing, agent, dialing>>
groupVars == <<groupConn, members, pairOf, done>>
vars == <<clock, registry, handler, link, owner, inbox, writing, agent, dialing,
          pc, sock, target, code, groupConn, members, pairOf, done, panicked, lost>>

TypeOK ==
  /\ clock \in Codes
  /\ registry \in [Names -> Manages \cup {None}]
  /\ handler \in [Manages -> {"idle", "upgraded", "serving", "ended"}]
  /\ link \in [Manages -> {"free", "up", "down"}]
  /\ owner \in [Manages -> Names \cup {None}]
  /\ inbox \in [Manages -> Seq(Clients)]
  /\ writing \in [Manages -> SUBSET (Conn \cup {NoConn})]
  /\ agent \in [Names -> Manages \cup {None}]
  /\ dialing \in SUBSET Clients
  /\ pc \in [Conn -> {"idle", "found", "writing", "pairing", "waiting",
                      "relaying", "deleting", "closed"}]
  /\ sock \in [Conn -> {"none", "up", "down"}]
  /\ target \in [Clients -> Manages \cup {None}]
  /\ code \in [Conn -> Codes \cup {NoCode}]
  /\ groupConn \in [Codes -> Conn \cup {NoConn}]
  /\ members \in [Conn -> Seq(Conn)]
  /\ pairOf \in [Conn -> Conn \cup {NoConn}]
  /\ done \in SUBSET Conn
  /\ panicked \in SUBSET Conn
  /\ lost \in SUBSET Clients
  /\ \A c \in Clients : pc[Active(c)] \in {"found", "writing"} => target[c] # None

\* NewServer: empty tables; nobody has connected yet.
Init ==
  /\ clock = 0
  /\ registry = [n \in Names |-> None]
  /\ handler = [m \in Manages |-> "idle"]
  /\ link = [m \in Manages |-> "free"]
  /\ owner = [m \in Manages |-> None]
  /\ inbox = [m \in Manages |-> <<>>]
  /\ writing = [m \in Manages |-> {}]
  /\ agent = [n \in Names |-> None]
  /\ dialing = {}
  /\ pc = [x \in Conn |-> "idle"]
  /\ sock = [x \in Conn |-> "none"]
  /\ target = [c \in Clients |-> None]
  /\ code = [x \in Conn |-> NoCode]
  /\ groupConn = [k \in Codes |-> NoConn]
  /\ members = [x \in Conn |-> <<>>]
  /\ pairOf = [x \in Conn |-> NoConn]
  /\ done = {}
  /\ panicked = {}
  /\ lost = {}

-----------------------------------------------------------------------------
(* Management connections.                                                 *)

\* PassiveResponder.manage: the dial succeeds once the server has upgraded the
\* request, which is before manageConnect stores it.  (The sleeps between
\* attempts only delay this step; a failed attempt changes nothing but them.)
AgentDial(n, m) ==
  /\ agent[n] = None
  /\ link[m] = "free"
  /\ link' = [link EXCEPT ![m] = "up"]
  /\ owner' = [owner EXCEPT ![m] = n]
  /\ handler' = [handler EXCEPT ![m] = "upgraded"]
  /\ agent' = [agent EXCEPT ![n] = m]
  /\ UNCHANGED <<clock, registry, inbox, writing, dialing, pc, sock, target, code,
                 groupVars, panicked, lost>>

\* manageConnect: s.manageConn.Store(name, conn), whatever was stored before.
ManageStore(m) ==
  /\ handler[m] = "upgraded"
  /\ handler' = [handler EXCEPT ![m] = "serving"]
  /\ registry' = [registry EXCEPT ![owner[m]] = m]
  /\ UNCHANGED <<clock, link, owner, inbox, writing, agent, dialing, pc, sock, target,
                 code, groupVars, panicked, lost>>

\* The network under a management connection fails; Links not yet read are lost.
ManageBreak(m) ==
  /\ link[m] = "up"
  /\ link' = [link EXCEPT ![m] = "down"]
  /\ inbox' = [inbox EXCEPT ![m] = <<>>]
  /\ lost' = lost \cup {inbox[m][i] : i \in 1..Len(inbox[m])}
  /\ UNCHANGED <<clock, registry, handler, owner, writing, agent, dialing, pc, sock,
                 target, code, groupVars, panicked>>

\* The agent's reader sees the broken connection (wss.IsClose), runs closeFunc
\* once and dials again.  After an error that IsClose does not know it goes on
\* reading the same connection (until gorilla's panic ends the agent): the step is
\* not taken, so nothing is assumed of its fairness.
AgentNotice(n) ==
  /\ agent[n] # None
  /\ link[agent[n]] = "down"
  /\ agent' = [agent EXCEPT ![n] = None]
  /\ UNCHANGED <<clock, registry, handler, link, owner, inbox, writing, dialing, pc,
                 sock, target, code, groupVars, panicked, lost>>

\* The ticker fires and manageConnect enters WriteJSON with a Ping.
PingBegin(m) ==
  /\ handler[m] = "serving"
  /\ NoConn \notin writing[m]
  /\ writing' = [writing EXCEPT ![m] = @ \cup {NoConn}]
  /\ UNCHANGED <<clock, registry, handler, link, owner, inbox, agent, dialing, pc, sock,
                 target, code, groupVars, panicked, lost>>

\* s.manageConn.Delete(name), whichever connection is stored under it by now.
Unregistered(m) == [registry EXCEPT ![owner[m]] = None]

\* The ticker loop is left through the deferred calls.
ManageExit(m) ==
  /\ handler' = [handler EXCEPT ![m] = "ended"]
  /\ registry' = Unregistered(m)
  /\ link' = [link EXCEPT ![m] = "down"]
  /\ inbox' = [inbox EXCEPT ![m] = <<>>]
  /\ lost' = lost \cup {inbox[m][i] : i \in 1..Len(inbox[m])}

\* WriteJSON returns: an error that IsClose, which only a broken connection
\* gives, ends the handler; a success or any other error goes on (a write to a
\* connection that is already broken may still succeed).  With another writer
\* inside, gorilla's isWriting check may also panic, which unwinds through the same
\* deferred calls.
PingEnd(m) ==
  /\ NoConn \in writing[m]
  /\ writing' = [writing EXCEPT ![m] = @ \ {NoConn}]
  /\ \/ UNCHANGED <<registry, handler, link, inbox, lost>>
     \/ /\ link[m] = "down" \/ writing[m] # {NoConn}
        /\ ManageExit(m)
  /\ UNCHANGED <<clock, owner, agent, dialing, pc, sock, target, code, groupVars, panicked>>
-----------------------------------------------------------------------------
(* forwardConnect for a client, up to the pairing.                         *)

\* s.manageConn.Load(remoteName) and its ok.
Loaded(n) == registry[n] # None

\* No name and no code, or a name nobody is registered under: return, which
\* closes the connection.
ForwardRefuse(c, n) ==
  /\ pc[Active(c)] = "idle"
  /\ n # None => ~Loaded(n)
  /\ pc' = [pc EXCEPT ![Active(c)] = "closed"]
  /\ sock' = [sock EXCEPT ![Active(c)] = "down"]
  /\ UNCHANGED <<clock, manageVars, target, code, groupVars, panicked, lost>>

\* A management connection is registered under the name.
ForwardFound(c, n) ==
  /\ pc[Active(c)] = "idle"
  /\ Loaded(n)
  /\ pc' = [pc EXCEPT ![Active(c)] = "found"]
  /\ sock' = [sock EXCEPT ![Active(c)] = "up"]
  /\ target' = [target EXCEPT ![c] = registry[n]]
  /\ UNCHANGED <<clock, manageVars, code, groupVars, panicked, lost>>

\* The code is read off the clock and WriteJSON is entered, with no lock.
LinkBegin(c) ==
  /\ pc[Active(c)] = "found"
  /\ code' = [code EXCEPT ![Active(c)] = clock]
  /\ pc' = [pc EXCEPT ![Active(c)] = "writing"]
  /\ writing' = [writing EXCEPT ![target[c]] = @ \cup {Active(c)}]
  /\ UNCHANGED <<clock, registry, handler, link, owner, inbox, agent, dialing, sock,
                 target, groupVars, panicked, lost>>

\* WriteJSON returns; its error is ignored.  On a broken connection the Link is
\* lost.  So it may be with another writer inside, who closes the message that is
\* being written: it leaves cut short, which the agent cannot decode, or not at all.
LinkEnd(c) ==
  LET m == target[c] IN
  /\ pc[Active(c)] = "writing"
  /\ writing' = [writing EXCEPT ![m] = @ \ {Active(c)}]
  /\ pc' = [pc EXCEPT ![Active(c)] = "pairing"]
  /\ \/ link[m] = "up" /\ inbox' = [inbox EXCEPT ![m] = Append(@, c)] /\ UNCHANGED lost
     \/ /\ link[m] # "up" \/ writing[m] # {Active(c)}
        /\ lost' = lost \cup {c} /\ UNCHANGED inbox
  /\ UNCHANGED <<clock, registry, handler, link, owner, agent, dialing, sock, target,
                 code, groupVars, panicked>>

\* With another writer inside, gorilla may panic instead, before or after the
\* message has left; the deferred conn.Close runs and the request is over.
LinkPanic(c) ==
  LET m == target[c] IN
  /\ pc[Active(c)] = "writing"
  /\ writing[m] # {Active(c)}
  /\ writing' = [writing EXCEPT ![m] = @ \ {Active(c)}]
  /\ pc' = [pc EXCEPT ![Active(c)] = "closed"]
  /\ sock' = [sock EXCEPT ![Active(c)] = "down"]
  /\ panicked' = panicked \cup {Active(c)}
  /\ lost' = lost \cup {c}
  /\ \/ UNCHANGED inbox
     \/ link[m] = "up" /\ inbox' = [inbox EXCEPT ![m] = Append(@, c)]
  /\ UNCHANGED <<clock, registry, handler, link, owner, agent, dialing, target, code,
                 groupVars>>

-----------------------------------------------------------------------------
(* The agent's answer.                                                     *)

\* Every Link gets a goroutine of its own.
SpawnedOneByOne(m) == IF dialing = {} THEN {Head(inbox[m])} ELSE dialing  \* mutant: busy, dropped
Spawned(m) == dialing \cup {Head(inbox[m])}

\* The agent reads a Link and starts a goroutine for it.
AgentRecvLink(n) ==
  LET m == agent[n] IN
  /\ m # None
  /\ inbox[m] # <<>>
  /\ dialing' = Spawned(m)
  /\ inbox' = [inbox EXCEPT ![m] = Tail(@)]
  /\ UNCHANGED <<clock, registry, handler, link, owner, writing, agent, pc, sock, target,
                 code, groupVars, panicked, lost>>

\* The Code field of the Link.
LinkCodeFromClock(c) == clock  \* mutant: the agent makes the code up again
LinkCode(c) == code[Active(c)]

\* connectLocal dials the server with the code of the Link: a forwardConnect
\* with a code and no name goes straight to the pairing.
PassiveDial(c) ==
  /\ c \in dialing
  /\ dialing' = dialing \ {c}
  /\ pc' = [pc EXCEPT ![Passive(c)] = "pairing"]
  /\ sock' = [sock EXCEPT ![Passive(c)] = "up"]
  /\ code' = [code EXCEPT ![Passive(c)] = LinkCode(c)]
  /\ UNCHANGED <<clock, registry, handler, link, owner, inbox, writing, agent, target,
                 groupVars, panicked, lost>>

\* The dial fails: connectLocal returns the error and nobody tries again.
PassiveDialFail(c) ==
  /\ c \in dialing
  /\ dialing' = dialing \ {c}
  /\ lost' = lost \cup {c}
  /\ UNCHANGED <<clock, registry, handler, link, owner, inbox, writing, agent, pc, sock,
                 target, code, groupVars, panicked>>

-----------------------------------------------------------------------------
(* The pairing, under groupMux, and the relay.                             *)

\* s.groupConn[code] has no entry.
FirstUnchecked(x) == TRUE  \* mutant: the table is not looked at
First(x) == groupConn[code[x]] = NoConn

\* First under its code: allocate a PairGroup and wait for its done channel.
PairFirst(x) ==
  /\ pc[x] = "pairing"
  /\ First(x)
  /\ groupConn' = [groupConn EXCEPT ![code[x]] = x]
  /\ members' = [members EXCEPT ![x] = <<x>>]
  /\ pc' = [pc EXCEPT ![x] = "waiting"]
  /\ UNCHANGED <<clock, manageVars, sock, target, code, pairOf, done, panicked, lost>>

\* A PairGroup is there: join it and relay its first two connections.
PairSecond(x) ==
  LET p == groupConn[code[x]] IN
  /\ pc[x] = "pairing"
  /\ ~First(x)
  /\ members' = [members EXCEPT ![p] = Append(@, x)]
  /\ pairOf' = [pairOf EXCEPT ![x] = p]
  /\ pc' = [pc EXCEPT ![x] = "relaying"]
  /\ UNCHANGED <<clock, manageVars, sock, target, code, groupConn, done, panicked, lost>>

Left(x) == members[pairOf[x]][1]
Right(x) == members[pairOf[x]][2]

\* close(pair.done)
DoneClosedNot(x) == done  \* mutant: the waiter is never released
DoneClosed(x) == done \cup {pairOf[x]}

\* bufio.Relay returns once one side has failed (module Relay): both sides are
\* closed, then the callback closes pair.done, which panics the second time.
RelayEnd(x) ==
  /\ pc[x] = "relaying"
  /\ sock[Left(x)] = "down" \/ sock[Right(x)] = "down"
  /\ IF pairOf[x] \in done
       THEN /\ pc' = [pc EXCEPT ![x] = "closed"]
            /\ panicked' = panicked \cup {x}
            /\ sock' = [sock EXCEPT ![Left(x)] = "down", ![Right(x)] = "down", ![x] = "down"]
            /\ UNCHANGED done
       ELSE /\ pc' = [pc EXCEPT ![x] = "deleting"]
            /\ sock' = [sock EXCEPT ![Left(x)] = "down", ![Right(x)] = "down"]
            /\ done' = DoneClosed(x)
            /\ UNCHANGED panicked
  /\ UNCHANGED <<clock, manageVars, target, code, groupConn, members, pairOf, lost>>

\* The rest of the callback, under groupMux, and the deferred conn.Close.
RelayDelete(x) ==
  /\ pc[x] = "deleting"
  /\ groupConn' = [groupConn EXCEPT ![code[x]] = NoConn]
  /\ pc' = [pc EXCEPT ![x] = "closed"]
  /\ sock' = [sock EXCEPT ![x] = "down"]
  /\ UNCHANGED <<clock, manageVars, target, code, members, pairOf, done, panicked, lost>>

\* <-pair.done returns in the first connection's handler.
WaiterReturn(x) ==
  /\ pc[x] = "waiting"
  /\ x \in done
  /\ pc' = [pc EXCEPT ![x] = "closed"]
  /\ sock' = [sock EXCEPT ![x] = "down"]
  /\ UNCHANGED <<clock, manageVars, target, code, groupVars, panicked, lost>>

\* The peer of a forwarded connection goes away.  A parked connection is not
\* read, so its handler does not learn of it.
Hangup(x) ==
  /\ sock[x] = "up"
  /\ sock' = [sock EXCEPT ![x] = "down"]
  /\ UNCHANGED <<clock, manageVars, pc, target, code, groupVars, panicked, lost>>

Tick ==
  /\ clock < MaxTick
  /\ clock' = clock + 1
  /\ UNCHANGED <<manageVars, pc, sock, target, code, groupVars, panicked, lost>>

-----------------------------------------------------------------------------
Next ==
  \/ Tick
  \/ \E n \in Names : AgentNotice(n) \/ AgentRecvLink(n)
  \/ \E n \in Names, m \in Manages : AgentDial(n, m)
  \/ \E m \in Manages : ManageStore(m) \/ ManageBreak(m) \/ PingBegin(m) \/ PingEnd(m)
  \/ \E c \in Clients, n \in Names \cup {None} : ForwardRefuse(c, n)
  \/ \E c \in Clients, n \in Names : ForwardFound(c, n)
  \/ \E c \in Clients : \/ LinkBegin(c) \/ LinkEnd(c) \/ LinkPanic(c)
                        \/ PassiveDial(c) \/ PassiveDialFail(c)
  \/ \E x \in Conn : \/ PairFirst(x) \/ PairSecond(x) \/ RelayEnd(x)
                     \/ RelayDelete(x) \/ WaiterReturn(x) \/ Hangup(x)

Spec == Init /\ [][Next]_vars

\* Goroutines that can run do run, and TCP reports a dead peer to a writer that
\* keeps pinging.  Nothing is assumed of the clients, the clock, the agent's
\* redialling or the network.
Fairness ==
  /\ \A m \in Manages : WF_vars(ManageStore(m)) /\ WF_vars(PingEnd(m))
  /\ \A n \in Names : WF_vars(AgentRecvLink(n))
  /\ \A c \in Clients : /\ WF_vars(LinkBegin(c))
                        /\ WF_vars(LinkEnd(c) \/ LinkPanic(c))
                        /\ WF_vars(PassiveDial(c) \/ PassiveDialFail(c))
  /\ \A x \in Conn : /\ WF_vars(PairFirst(x) \/ PairSecond(x))
                     /\ WF_vars(RelayEnd(x)) /\ WF_vars(RelayDelete(x))
                     /\ WF_vars(WaiterReturn(x))

FairSpec == Spec /\ Fairness

-----------------------------------------------------------------------------
(* Properties.                                                             *)

\* No two requests were given a code in the same tenth of a millisecond.
DistinctCodes ==
  \A c, d \in Clients :
     c # d /\ code[Active(c)] # NoCode => code[Active(c)] # code[Active(d)]

\* As long as no two requests share a code, a relay joins a client's connection
\* with the connection its agent dialled for it, whichever came first, and
\* nothing else (the pairing section of forwardConnect).
RelayJoinsClientWithItsAgent ==
  DistinctCodes =>
    \A x \in Conn : pc[x] \in {"relaying", "deleting"} =>
       {Left(x), Right(x)} = {Active(x.id), Passive(x.id)}

\* The link message or the dial back of the request that x belongs to is still
\* under way, so that a partner for x will come.
PartnerComing(x) ==
  \/ x.id \in dialing
  \/ \E m \in Manages : \E i \in 1..Len(inbox[m]) : inbox[m][i] = x.id
  \/ \E y \in Conn : y # x /\ y.id = x.id /\ pc[y] \in {"writing", "pairing"}

\* A connection parked alone in groupConn has a partner on its way, unless the
\* Link or the dial back of its request was lost: no order of the client's
\* handler, the agent's goroutines and the relays of others strands it.
ParkedMeansPartnerComing ==
  DistinctCodes =>
    \A x \in Conn : pc[x] = "waiting" /\ Len(members[x]) = 1 =>
       x.id \in lost \/ PartnerComing(x)

\* A request for which a Link was written is eventually relayed or over, unless
\* its Link or dial back failed or its code was given twice: it is never parked
\* for ever without such a loss.
LinkedIsAnswered ==
  \A c \in Clients :
     pc[Active(c)] = "writing" ~>
        \/ c \in lost \/ ~DistinctCodes
        \/ pc[Active(c)] \in {"relaying", "closed"}
        \/ Len(members[Active(c)]) > 1

\* Once one side of a relayed pair is gone, every handler of the pair returns and
\* the code is free again.
BrokenPairIsCleared ==
  \A x \in Conn :
     (pc[x] = "relaying" /\ (sock[Left(x)] = "down" \/ sock[Right(x)] = "down"))
        ~> /\ pc[x] = "closed"
           /\ \A p \in Conn : pairOf[x] = p => pc[p] = "closed"
           /\ \A k \in Codes : groupConn[k] # pairOf[x]

\* What the log message "agent [%v] not running" says of a refused request: no
\* management connection of that agent is up and being served.
RefusedMeansNotRunning ==
  \A n \in Names : registry[n] = None =>
     ~ \E m \in Manages : owner[m] = n /\ handler[m] = "serving" /\ link[m] = "up"

\* What the comment on case 2 of ServeHTTP says: the connecting side goes through
\* the passive side.  A relay has an agent's connection at one end.
ActiveGoesThroughPassive ==
  \A x \in Conn : pc[x] = "relaying" =>
     Left(x).side = "passive" \/ Right(x).side = "passive"
=============================================================================
