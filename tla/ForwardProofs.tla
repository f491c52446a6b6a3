--------------------------- MODULE ForwardProofs ---------------------------
(* Proofs about the forwarding switch.  What forwardConnect does under a   *)
(* code depends on how often a code can be used: a Link is written once,   *)
(* read once and dialled back once, so that each of a request's two        *)
(* connections comes to the pairing at most once.  That holds whatever the *)
(* clock does (LinkOnce, CodeOf).  The rest (Grouped) is about requests    *)
(* whose codes differ.                                                     *)
EXTENDS Forward, TLAPS

\* The other connection of the request x belongs to.
Partner(x) == IF x = Active(x.id) THEN Passive(x.id) ELSE Active(x.id)

\* A Link for c is on its way to the agent.
InInbox(c) == \E m \in Manages : \E i \in 1 .. Len(inbox[m]) : inbox[m][i] = c

\* The Link for c is written, or was when its handler panicked.
Linked(c) == /\ pc[Active(c)] \notin {"idle", "found", "writing"}
             /\ code[Active(c)] \in Codes

\* The Links under way are all different, and none is under way for a request
\* whose agent's connection is there already.
LinksDiffer ==
  \A m, n \in Manages : \A i \in 1 .. Len(inbox[m]), j \in 1 .. Len(inbox[n]) :
    inbox[m][i] = inbox[n][j] => m = n /\ i = j

\* A Link is read once, and the agent dials back once for it.
LinkOnce ==
  \A c \in Clients :
    /\ InInbox(c) => c \notin dialing
    /\ InInbox(c) \/ c \in dialing => pc[Passive(c)] = "idle" /\ Linked(c)

\* Both connections of a request carry the code its Link carried.
CodeOf ==
  \A c \in Clients :
    /\ pc[Active(c)] \in {"idle", "found"} => code[Active(c)] = NoCode
    /\ pc[Active(c)] \in {"writing", "pairing", "waiting", "relaying", "deleting"}
         => code[Active(c)] \in Codes
    /\ pc[Passive(c)] # "idle" => Linked(c) /\ code[Passive(c)] = code[Active(c)]
    /\ pc[Passive(c)] \notin {"found", "writing"}

\* A handler that relays works on a PairGroup.
RelayHasPair == \A x \in Conn : pc[x] \in {"relaying", "deleting"} => pairOf[x] \in Conn

\* What holds whatever the codes are.
Control == TypeOK /\ LinksDiffer /\ LinkOnce /\ CodeOf /\ RelayHasPair

\* A connection that stands alone in its PairGroup.
Alone(x) == pc[x] = "waiting" /\ members[x] = <<x>>
\* A connection that still has no partner.
Pending(x) == pc[x] = "pairing" \/ Alone(x)

\* A handler relays with the other connection of its own request, whose handler waits.
RelaysPartner ==
  \A x \in Conn : pc[x] \in {"relaying", "deleting"} =>
    /\ pairOf[x] = Partner(x) /\ members[Partner(x)] = <<Partner(x), x>>
    /\ pc[Partner(x)] \in {"waiting", "closed"}

\* The table holds the connection that came first, until its partner is through.
TableHoldsFirst ==
  \A k \in Codes : groupConn[k] # NoConn =>
    /\ code[groupConn[k]] = k /\ pc[groupConn[k]] \in {"waiting", "closed"}
    /\ \/ members[groupConn[k]] = <<groupConn[k]>>
       \/ pc[Partner(groupConn[k])] \in {"relaying", "deleting", "closed"}

\* Who waits alone can be found under its code.
AloneIsInTable == \A x \in Conn : Alone(x) => groupConn[code[x]] = x

\* A PairGroup has one connection, or the two of a request.
WaitsAloneOrPaired ==
  \A x \in Conn : pc[x] = "waiting" => members[x] = <<x>> \/ members[x] = <<x, Partner(x)>>

\* done is closed only for a PairGroup of two.
DoneIsPaired ==
  \A x \in done : members[x] = <<x, Partner(x)>> /\ pc[x] \in {"waiting", "closed"}

\* Of a request that lost nothing, the client's side waits for a partner
\* exactly while the agent's side is under way.
BothPending ==
  \A c \in Clients : c \notin lost =>
    (Pending(Active(c)) <=> (InInbox(c) \/ c \in dialing \/ Pending(Passive(c))))

\* What holds as long as no code is drawn twice.
Grouped == /\ RelaysPartner /\ TableHoldsFirst /\ AloneIsInTable /\ WaitsAloneOrPaired
           /\ DoneIsPaired /\ BothPending

\* The inductive invariant.
ForwardIInv == Control /\ (DistinctCodes => Grouped)

-----------------------------------------------------------------------------
(* Connections and codes.                                                  *)

\* The two connections of a request, and the request of a connection.
LEMMA ConnFacts ==
  /\ \A c \in Clients : /\ Active(c) \in Conn /\ Passive(c) \in Conn /\ Active(c) # Passive(c)
                        /\ Active(c).id = c /\ Passive(c).id = c
                        /\ Partner(Active(c)) = Passive(c) /\ Partner(Passive(c)) = Active(c)
  /\ \A x \in Conn : /\ x.id \in Clients /\ (x = Active(x.id) \/ x = Passive(x.id))
                     /\ Partner(x) \in Conn /\ Partner(x) # x /\ Partner(Partner(x)) = x
                     /\ Partner(x).id = x.id
  /\ \A x, y \in Conn : x.id = y.id => y = x \/ y = Partner(x)
  /\ NoConn \notin Conn
<1>1. \A c \in Clients : /\ Active(c) \in Conn /\ Passive(c) \in Conn /\ Active(c) # Passive(c)
                         /\ Active(c).id = c /\ Passive(c).id = c
  BY DEF Active, Passive, Conn
<1>2. \A x \in Conn : x.id \in Clients /\ (x = Active(x.id) \/ x = Passive(x.id))
  BY DEF Active, Passive, Conn
<1>3. \A x \in Conn : NoConn # x
  BY DEF Conn, NoConn
<1>4. \A c \in Clients : Partner(Active(c)) = Passive(c) /\ Partner(Passive(c)) = Active(c)
  BY <1>1 DEF Partner
<1> QED BY <1>1, <1>2, <1>3, <1>4

\* Two connections of one request, or of one code when the codes differ.
LEMMA CodeFacts ==
  ASSUME Control
  PROVE  /\ NoCode \notin Codes
         /\ \A x \in Conn : pc[x] \notin {"idle", "found", "closed"} =>
              code[x] \in Codes /\ code[x] = code[Active(x.id)]
         /\ \A x \in Conn : x # Active(x.id) /\ pc[x] = "closed" =>
              code[x] \in Codes /\ code[x] = code[Active(x.id)]
<1>1. NoCode \notin Codes BY TickAssumption DEF NoCode, Codes
<1>2. ASSUME NEW x \in Conn, pc[x] # "idle", x # Active(x.id)
      PROVE  code[x] \in Codes /\ code[x] = code[Active(x.id)]
  <2>1. x = Passive(x.id) /\ x.id \in Clients BY <1>2, ConnFacts
  <2> QED BY <1>2, <2>1 DEF Control, CodeOf, Linked
<1>3. ASSUME NEW x \in Conn, pc[x] \notin {"idle", "found", "closed"}, x = Active(x.id)
      PROVE  code[x] \in Codes
  <2>1. x.id \in Clients BY ConnFacts
  <2>2. pc[x] \in {"writing", "pairing", "waiting", "relaying", "deleting"}
    BY <1>3 DEF Control, TypeOK
  <2> QED BY <1>3, <2>1, <2>2 DEF Control, CodeOf
<1> QED BY <1>1, <1>2, <1>3

\* Nobody has come yet.
LEMMA InitOK == Init => ForwardIInv
<1> SUFFICES ASSUME Init PROVE ForwardIInv OBVIOUS
<1>0. 0 \in Codes /\ NoCode \in Codes \cup {NoCode} BY TickAssumption DEF Codes
<1>1. \A c \in Clients : Active(c) \in Conn /\ Passive(c) \in Conn BY ConnFacts
<1>2. TypeOK BY <1>0, <1>1 DEF Init, TypeOK
<1>3. \A c \in Clients : ~InInbox(c) BY DEF Init, InInbox
<1>4. LinksDiffer BY DEF Init, LinksDiffer
<1>5. \A c \in Clients : /\ pc[Active(c)] = "idle" /\ pc[Passive(c)] = "idle"
                         /\ code[Active(c)] = NoCode
  BY <1>1 DEF Init
<1>6. LinkOnce /\ CodeOf BY <1>3, <1>5 DEF Init, LinkOnce, CodeOf
<1>7. RelayHasPair BY DEF Init, RelayHasPair
<1>8. \A x \in Conn : pc[x] = "idle" BY DEF Init
<1>9. Grouped
  BY <1>1, <1>3, <1>8 DEF Init, Grouped, RelaysPartner, TableHoldsFirst, AloneIsInTable,
     WaitsAloneOrPaired, DoneIsPaired, BothPending, Pending, Alone
<1> QED BY <1>2, <1>4, <1>6, <1>7, <1>9 DEF ForwardIInv, Control

\* Every variable keeps its type; what a handler joins or closes is a PairGroup.
LEMMA TypeStep ==
  ASSUME Control, Next
  PROVE  TypeOK'
<1> USE DEF manageVars, groupVars
<1>0. TypeOK /\ \A c \in Clients : Active(c) \in Conn /\ Passive(c) \in Conn
  BY ConnFacts DEF Control
<1>d. \A c, d \in Clients : /\ Active(c) = Active(d) => c = d
                            /\ Active(c) # Passive(d)
  BY ConnFacts
<1>1. CASE Tick BY <1>0, <1>1, TickAssumption DEF TypeOK, Tick, Codes
<1>2. ASSUME NEW n \in Names, AgentNotice(n) PROVE TypeOK' BY <1>0, <1>2 DEF TypeOK, AgentNotice
<1>3. ASSUME NEW n \in Names, AgentRecvLink(n) PROVE TypeOK'
  BY <1>0, <1>3 DEF TypeOK, AgentRecvLink, Spawned
<1>4. ASSUME NEW n \in Names, NEW m \in Manages, AgentDial(n, m) PROVE TypeOK'
  BY <1>0, <1>4 DEF TypeOK, AgentDial
<1>5. ASSUME NEW m \in Manages, ManageStore(m) PROVE TypeOK' BY <1>0, <1>5 DEF TypeOK, ManageStore
<1>6. ASSUME NEW m \in Manages, ManageBreak(m) PROVE TypeOK' BY <1>0, <1>6 DEF TypeOK, ManageBreak
<1>7. ASSUME NEW m \in Manages, PingBegin(m) PROVE TypeOK' BY <1>0, <1>7 DEF TypeOK, PingBegin
<1>8. ASSUME NEW m \in Manages, PingEnd(m) PROVE TypeOK'
  <2>1. CASE UNCHANGED <<registry, handler, link, inbox, lost>>
    BY <1>0, <1>8, <2>1 DEF TypeOK, PingEnd
  <2>2. CASE ManageExit(m)
    <3>1. lost' \in SUBSET Clients BY <1>0, <2>2 DEF TypeOK, ManageExit
    <3>2. inbox' \in [Manages -> Seq(Clients)] BY <1>0, <2>2 DEF TypeOK, ManageExit
    <3>3. registry' \in [Names -> Manages \cup {None}]
      BY <1>0, <2>2 DEF TypeOK, ManageExit, Unregistered
    <3>4. /\ handler' \in [Manages -> {"idle", "upgraded", "serving", "ended"}]
          /\ link' \in [Manages -> {"free", "up", "down"}]
      BY <1>0, <2>2 DEF TypeOK, ManageExit
    <3> QED BY <1>0, <1>8, <3>1, <3>2, <3>3, <3>4 DEF TypeOK, PingEnd
  <2> QED BY <1>8, <2>1, <2>2 DEF PingEnd
<1>9. ASSUME NEW c \in Clients, NEW n \in Names \cup {None}, ForwardRefuse(c, n) PROVE TypeOK'
  BY <1>0, <1>9 DEF TypeOK, ForwardRefuse
<1>10. ASSUME NEW c \in Clients, NEW n \in Names, ForwardFound(c, n) PROVE TypeOK'
  BY <1>0, <1>d, <1>10 DEF TypeOK, ForwardFound, Loaded
<1>11. ASSUME NEW c \in Clients, LinkBegin(c) PROVE TypeOK' BY <1>0, <1>11 DEF TypeOK, LinkBegin
<1>12. ASSUME NEW c \in Clients, LinkEnd(c) PROVE TypeOK' 
  <2>0. target[c] \in Manages /\ Append(inbox[target[c]], c) \in Seq(Clients)
    BY <1>0, <1>12 DEF TypeOK, LinkEnd
  <2>1. inbox' \in [Manages -> Seq(Clients)] BY <1>0, <1>12, <2>0 DEF TypeOK, LinkEnd
  <2>2. lost' \in SUBSET Clients BY <1>0, <1>12 DEF TypeOK, LinkEnd
  <2> QED BY <1>0, <1>d, <1>12, <2>1, <2>2 DEF TypeOK, LinkEnd
<1>13. ASSUME NEW c \in Clients, LinkPanic(c) PROVE TypeOK' 
  <2>0. target[c] \in Manages /\ Append(inbox[target[c]], c) \in Seq(Clients)
    BY <1>0, <1>13 DEF TypeOK, LinkPanic
  <2>1. inbox' \in [Manages -> Seq(Clients)] BY <1>0, <1>13, <2>0 DEF TypeOK, LinkPanic
  <2>2. lost' \in SUBSET Clients BY <1>0, <1>13 DEF TypeOK, LinkPanic
  <2> QED BY <1>0, <1>d, <1>13, <2>1, <2>2 DEF TypeOK, LinkPanic
<1>14. ASSUME NEW c \in Clients, PassiveDial(c) PROVE TypeOK'
  BY <1>0, <1>14 DEF TypeOK, PassiveDial, LinkCode
<1>15. ASSUME NEW c \in Clients, PassiveDialFail(c) PROVE TypeOK'
  BY <1>0, <1>15 DEF TypeOK, PassiveDialFail
<1>16. ASSUME NEW x \in Conn, PairFirst(x) PROVE TypeOK' 
  <2>1. members' \in [Conn -> Seq(Conn)]
    <3>1. <<x>> \in Seq(Conn) OBVIOUS
    <3> QED BY <1>0, <1>16, <3>1 DEF TypeOK, PairFirst
  <2> QED BY <1>0, <1>16, <2>1 DEF TypeOK, PairFirst
<1>17. ASSUME NEW x \in Conn, PairSecond(x) PROVE TypeOK'
  <2>1. groupConn[code[x]] \in Conn
    BY <1>0, <1>17, CodeFacts DEF TypeOK, PairSecond, First
  <2> QED BY <1>0, <1>17, <2>1 DEF TypeOK, PairSecond
<1>18. ASSUME NEW x \in Conn, RelayEnd(x) PROVE TypeOK'
  <2>1. pairOf[x] \in Conn BY <1>18 DEF RelayEnd, Control, RelayHasPair
  <2>2. sock' \in [Conn -> {"none", "up", "down"}]
    <3>1. \E a, b, d : sock' = [sock EXCEPT ![a] = "down", ![b] = "down", ![d] = "down"]
      <4>1. CASE sock' = [sock EXCEPT ![Left(x)] = "down", ![Right(x)] = "down", ![x] = "down"]
        BY <4>1
      <4>2. CASE sock' = [sock EXCEPT ![Left(x)] = "down", ![Right(x)] = "down"]
        BY <4>2, sock' = [sock EXCEPT ![Left(x)] = "down", ![Right(x)] = "down", ![Right(x)] = "down"]
      <4> QED BY <1>18, <4>1, <4>2 DEF RelayEnd
    <3> QED BY <1>0, <3>1 DEF TypeOK
  <2>3. done' \in SUBSET Conn /\ panicked' \in SUBSET Conn
    BY <1>0, <1>18, <2>1 DEF TypeOK, RelayEnd, DoneClosed
  <2>4. pc' \in [Conn -> {"idle", "found", "writing", "pairing", "waiting",
                         "relaying", "deleting", "closed"}]
    BY <1>0, <1>18 DEF TypeOK, RelayEnd
  <2>5. \A c \in Clients : pc'[Active(c)] \in {"found", "writing"} => pc[Active(c)] \in {"found", "writing"}
    BY <1>0, <1>18 DEF TypeOK, RelayEnd
  <2> QED BY <1>0, <1>18, <2>2, <2>3, <2>4, <2>5 DEF TypeOK, RelayEnd
<1>19. ASSUME NEW x \in Conn, RelayDelete(x) PROVE TypeOK' BY <1>0, <1>19 DEF TypeOK, RelayDelete
<1>20. ASSUME NEW x \in Conn, WaiterReturn(x) PROVE TypeOK' BY <1>0, <1>20 DEF TypeOK, WaiterReturn
<1>21. ASSUME NEW x \in Conn, Hangup(x) PROVE TypeOK' BY <1>0, <1>21 DEF TypeOK, Hangup
<1> QED
  BY <1>1, <1>2, <1>3, <1>4, <1>5, <1>6, <1>7, <1>8, <1>9, <1>10, <1>11, <1>12, <1>13, <1>14,
     <1>15, <1>16, <1>17, <1>18, <1>19, <1>20, <1>21 DEF Next

-----------------------------------------------------------------------------
(* The three things that happen to Links under way.                        *)

\* The connection breaks: its Links are gone.
LEMMA InboxDropped ==
  ASSUME TypeOK, LinksDiffer, NEW m \in Manages, inbox' = [inbox EXCEPT ![m] = <<>>]
  PROVE  /\ LinksDiffer'
         /\ \A c \in Clients : InInbox(c)' => InInbox(c)
         /\ \A c \in Clients : InInbox(c) /\ ~InInbox(c)' =>
              c \in {inbox[m][i] : i \in 1 .. Len(inbox[m])}
<1>1. inbox'[m] = <<>> /\ \A n \in Manages : n # m => inbox'[n] = inbox[n]
  BY DEF TypeOK
<1>2. \A n \in Manages : \A i \in 1 .. Len(inbox'[n]) : n # m /\ inbox'[n][i] = inbox[n][i]
                                                       /\ i \in 1 .. Len(inbox[n])
  BY <1>1
<1>3. LinksDiffer' BY <1>2 DEF LinksDiffer
<1>4. \A c \in Clients : InInbox(c)' => InInbox(c) BY <1>2 DEF InInbox
<1>5. ASSUME NEW c \in Clients, InInbox(c), ~InInbox(c)'
      PROVE  c \in {inbox[m][i] : i \in 1 .. Len(inbox[m])}
  BY <1>1, <1>5 DEF InInbox
<1> QED BY <1>3, <1>4, <1>5

\* A Link is written.
LEMMA InboxGrows ==
  ASSUME TypeOK, LinksDiffer, NEW m \in Manages, NEW c \in Clients, ~InInbox(c),
         inbox' = [inbox EXCEPT ![m] = Append(inbox[m], c)]
  PROVE  /\ LinksDiffer'
         /\ \A d \in Clients : InInbox(d)' <=> InInbox(d) \/ d = c
<1>0. inbox[m] \in Seq(Clients) BY DEF TypeOK
<1>1. inbox'[m] = Append(inbox[m], c) /\ \A n \in Manages : n # m => inbox'[n] = inbox[n]
  BY DEF TypeOK
<1> DEFINE l == Len(inbox[m])
<1>2. /\ l \in Nat /\ Len(inbox'[m]) = l + 1 /\ inbox'[m][l + 1] = c
      /\ \A i \in 1 .. l : inbox'[m][i] = inbox[m][i]
  BY <1>0, <1>1
<1>3. \A n \in Manages : \A i \in 1 .. Len(inbox[n]) : inbox[n][i] # c
  BY DEF InInbox
<1>4. \A n \in Manages : \A i \in 1 .. Len(inbox'[n]) :
        \/ i \in 1 .. Len(inbox[n]) /\ inbox'[n][i] = inbox[n][i]
        \/ n = m /\ i = l + 1 /\ inbox'[n][i] = c
  BY <1>1, <1>2
<1>5. \A n \in Manages : \A i \in 1 .. Len(inbox[n]) :
        i \in 1 .. Len(inbox'[n]) /\ inbox'[n][i] = inbox[n][i]
  BY <1>1, <1>2
<1>6. l + 1 \in 1 .. Len(inbox'[m]) BY <1>2
<1> HIDE DEF l
<1>7. LinksDiffer'
  <2> SUFFICES ASSUME NEW a \in Manages, NEW b \in Manages, NEW i \in 1 .. Len(inbox'[a]),
                      NEW j \in 1 .. Len(inbox'[b]), inbox'[a][i] = inbox'[b][j]
               PROVE  a = b /\ i = j
    BY DEF LinksDiffer
  <2> QED BY <1>3, <1>4 DEF LinksDiffer
<1>8. \A d \in Clients : InInbox(d)' <=> InInbox(d) \/ d = c
  BY <1>2, <1>4, <1>5, <1>6 DEF InInbox
<1> QED BY <1>7, <1>8

\* A Link is read.
LEMMA InboxRead ==
  ASSUME TypeOK, LinksDiffer, NEW m \in Manages, inbox[m] # <<>>,
         inbox' = [inbox EXCEPT ![m] = Tail(inbox[m])]
  PROVE  /\ LinksDiffer' /\ Head(inbox[m]) \in Clients /\ InInbox(Head(inbox[m]))
         /\ \A d \in Clients : InInbox(d)' <=> InInbox(d) /\ d # Head(inbox[m])
<1>0. inbox[m] \in Seq(Clients) BY DEF TypeOK
<1>1. inbox'[m] = Tail(inbox[m]) /\ \A n \in Manages : n # m => inbox'[n] = inbox[n]
  BY DEF TypeOK
<1> DEFINE l == Len(inbox[m])
<1>2. /\ l \in Nat \ {0} /\ Len(inbox'[m]) = l - 1 /\ Head(inbox[m]) = inbox[m][1]
      /\ Head(inbox[m]) \in Clients
      /\ \A i \in 1 .. l - 1 : inbox'[m][i] = inbox[m][i + 1]
  <2> DEFINE q == inbox[m]
  <2> HIDE DEF q
  <2>1. q \in Seq(Clients) /\ q # <<>> BY <1>0 DEF q
  <2>2. /\ Len(q) \in Nat \ {0} /\ Len(Tail(q)) = Len(q) - 1 /\ Head(q) = q[1] /\ Head(q) \in Clients
    BY <2>1
  <2>3. \A i \in 1 .. Len(q) - 1 : Tail(q)[i] = q[i + 1] BY <2>1
  <2> QED BY <2>2, <2>3, <1>1 DEF q
<1>3. \A n \in Manages : \A i \in 1 .. Len(inbox'[n]) :
        \/ n # m /\ i \in 1 .. Len(inbox[n]) /\ inbox'[n][i] = inbox[n][i]
        \/ n = m /\ i + 1 \in 1 .. Len(inbox[n]) /\ i + 1 # 1 /\ inbox'[n][i] = inbox[n][i + 1]
  <2> SUFFICES ASSUME NEW i \in 1 .. Len(inbox'[m])
               PROVE  i + 1 \in 1 .. l /\ i + 1 # 1 /\ inbox'[m][i] = inbox[m][i + 1]
    BY <1>1
  <2> QED BY <1>2
<1>4. \A n \in Manages : \A i \in 1 .. Len(inbox[n]) :
        \/ n # m /\ i \in 1 .. Len(inbox'[n]) /\ inbox'[n][i] = inbox[n][i]
        \/ n = m /\ i = 1
        \/ n = m /\ i - 1 \in 1 .. Len(inbox'[n]) /\ inbox'[n][i - 1] = inbox[n][i]
  BY <1>1, <1>2
<1>5. 1 \in 1 .. Len(inbox[m]) BY <1>2
<1> HIDE DEF l
<1>6. LinksDiffer'
  <2> SUFFICES ASSUME NEW a \in Manages, NEW b \in Manages, NEW i \in 1 .. Len(inbox'[a]),
                      NEW j \in 1 .. Len(inbox'[b]), inbox'[a][i] = inbox'[b][j]
               PROVE  a = b /\ i = j
    BY DEF LinksDiffer
  <2> QED BY <1>3 DEF LinksDiffer
<1>7. InInbox(Head(inbox[m])) BY <1>2, <1>5 DEF InInbox
<1>8. ASSUME NEW d \in Clients, InInbox(d)' PROVE InInbox(d) /\ d # Head(inbox[m])
  <2>1. PICK n \in Manages : \E i \in 1 .. Len(inbox'[n]) : inbox'[n][i] = d BY <1>8 DEF InInbox
  <2>2. PICK i \in 1 .. Len(inbox'[n]) : inbox'[n][i] = d BY <2>1
  <2>3. CASE n # m
    <3>1. i \in 1 .. Len(inbox[n]) /\ inbox[n][i] = d BY <1>3, <2>2, <2>3
    <3>2. InInbox(d) BY <3>1 DEF InInbox
    <3>3. d # inbox[m][1] BY <3>1, <2>3, <1>5 DEF LinksDiffer
    <3> QED BY <3>2, <3>3, <1>2
  <2>4. CASE n = m
    <3>1. i + 1 \in 1 .. Len(inbox[m]) /\ i + 1 # 1 /\ inbox[m][i + 1] = d BY <1>3, <2>2, <2>4
    <3>2. InInbox(d) BY <3>1 DEF InInbox
    <3>3. d # inbox[m][1] BY <3>1, <1>5 DEF LinksDiffer
    <3> QED BY <3>2, <3>3, <1>2
  <2> QED BY <2>3, <2>4
<1>9. ASSUME NEW d \in Clients, InInbox(d), d # Head(inbox[m]) PROVE InInbox(d)'
  <2>1. PICK n \in Manages : \E i \in 1 .. Len(inbox[n]) : inbox[n][i] = d BY <1>9 DEF InInbox
  <2>2. PICK i \in 1 .. Len(inbox[n]) : inbox[n][i] = d BY <2>1
  <2> QED BY <1>2, <1>4, <1>9, <2>2 DEF InInbox
<1> QED BY <1>2, <1>6, <1>7, <1>8, <1>9

-----------------------------------------------------------------------------
(* The steps, by what they change of Links, codes and groups.              *)

\* Steps that touch none of them.
LEMMA QuietStep ==
  ASSUME ForwardIInv, TypeOK', UNCHANGED <<inbox, dialing, pc, code, groupVars, lost>>
  PROVE  ForwardIInv'
<1>1. \A c \in Clients : (InInbox(c)' <=> InInbox(c)) /\ (Linked(c)' <=> Linked(c))
  BY DEF InInbox, Linked
<1>2. (LinksDiffer /\ LinkOnce /\ CodeOf /\ RelayHasPair)'
  BY <1>1 DEF groupVars, ForwardIInv, Control, LinksDiffer, LinkOnce, CodeOf, RelayHasPair
<1>3. DistinctCodes' => DistinctCodes BY DEF DistinctCodes
<1>4. Grouped => Grouped'
  BY <1>1 DEF groupVars, Grouped, RelaysPartner, TableHoldsFirst, AloneIsInTable,
     WaitsAloneOrPaired, DoneIsPaired, BothPending, Pending, Alone
<1> QED BY <1>2, <1>3, <1>4 DEF ForwardIInv, Control

\* Links are lost with the connection they were on, or with a dial that failed.
LEMMA LossStep ==
  ASSUME ForwardIInv, TypeOK', UNCHANGED <<pc, code, groupVars>>, lost \subseteq lost',
         LinksDiffer', dialing' \subseteq dialing,
         \A c \in Clients : /\ InInbox(c)' => InInbox(c)
                            /\ InInbox(c) /\ ~InInbox(c)' => c \in lost'
                            /\ c \in dialing \ dialing' => c \in lost'
  PROVE  ForwardIInv'
<1>1. \A c \in Clients : Linked(c)' <=> Linked(c) BY DEF Linked
<1>2. (LinkOnce /\ CodeOf /\ RelayHasPair)'
  BY <1>1 DEF groupVars, ForwardIInv, Control, LinkOnce, CodeOf, RelayHasPair
<1>3. DistinctCodes' => DistinctCodes BY DEF DistinctCodes
<1>4. Grouped => BothPending'
  BY DEF groupVars, Grouped, BothPending, Pending, Alone
<1>5. Grouped => (RelaysPartner /\ TableHoldsFirst /\ AloneIsInTable /\ WaitsAloneOrPaired /\ DoneIsPaired)'
  BY DEF groupVars, Grouped, RelaysPartner, TableHoldsFirst, AloneIsInTable,
     WaitsAloneOrPaired, DoneIsPaired, Alone
<1> QED BY <1>2, <1>3, <1>4, <1>5 DEF ForwardIInv, Control, Grouped

\* A client's handler that has not written its Link: nothing is under way.
LEMMA NotLinked ==
  ASSUME Control, NEW c \in Clients, pc[Active(c)] \in {"idle", "found", "writing"}
  PROVE  /\ ~Linked(c) /\ ~InInbox(c) /\ c \notin dialing /\ pc[Passive(c)] = "idle"
BY DEF Control, LinkOnce, CodeOf, Linked

\* The client's handler moves on before or when it writes its Link; v is where
\* to, k the code it has then.
LEMMA ClientStep ==
  ASSUME ForwardIInv, TypeOK', LinksDiffer', NEW c \in Clients,
         pc[Active(c)] \in {"idle", "found", "writing"},
         NEW v \in {"found", "writing", "pairing", "closed"},
         pc' = [pc EXCEPT ![Active(c)] = v],
         NEW k \in Codes \cup {NoCode}, code' = [code EXCEPT ![Active(c)] = k],
         k # code[Active(c)] => code[Active(c)] = NoCode,
         v = "found" => k = NoCode, v \in {"writing", "pairing"} => k \in Codes,
         UNCHANGED <<dialing, groupVars>>, lost \subseteq lost',
         \A d \in Clients : d # c => (InInbox(d)' <=> InInbox(d)),
         InInbox(c)' => v \in {"pairing", "closed"} /\ k \in Codes,
         v = "pairing" => c \in lost' \/ InInbox(c)',
         v \in {"found", "writing"} => ~InInbox(c)',
         v = "closed" /\ InInbox(c)' => c \in lost'
  PROVE  ForwardIInv'
<1> DEFINE a == Active(c)
<1>0. Control /\ a \in Conn /\ Passive(c) \in Conn /\ NoCode \notin Codes
  BY ConnFacts, CodeFacts DEF ForwardIInv
<1>1. /\ ~Linked(c) /\ ~InInbox(c) /\ c \notin dialing /\ pc[Passive(c)] = "idle"
  BY <1>0, NotLinked
<1>2. /\ pc'[a] = v /\ code'[a] = k
      /\ \A x \in Conn : x # a => pc'[x] = pc[x] /\ code'[x] = code[x]
  BY <1>0 DEF Control, TypeOK
<1>3. \A d \in Clients : /\ Active(d) \in Conn /\ Passive(d) \in Conn /\ Passive(d) # a
                         /\ d # c => Active(d) # a
  BY ConnFacts
<1> HIDE DEF a
<1>4. \A d \in Clients : d # c => (Linked(d)' <=> Linked(d)) BY <1>2, <1>3 DEF Linked
<1>5. LinkOnce'
  <2> SUFFICES ASSUME NEW d \in Clients
               PROVE  /\ InInbox(d)' => d \notin dialing'
                      /\ InInbox(d)' \/ d \in dialing' => pc'[Passive(d)] = "idle" /\ Linked(d)'
    BY DEF LinkOnce
  <2>1. CASE d = c BY <2>1, <1>1, <1>2, <1>3 DEF Linked, a
  <2>2. CASE d # c BY <2>2, <1>0, <1>2, <1>3, <1>4 DEF Control, LinkOnce
  <2> QED BY <2>1, <2>2
<1>6. CodeOf'
  <2> SUFFICES ASSUME NEW d \in Clients
               PROVE  /\ pc'[Active(d)] \in {"idle", "found"} => code'[Active(d)] = NoCode
                      /\ pc'[Active(d)] \in {"writing", "pairing", "waiting", "relaying", "deleting"}
                           => code'[Active(d)] \in Codes
                      /\ pc'[Passive(d)] # "idle" => Linked(d)' /\ code'[Passive(d)] = code'[Active(d)]
                      /\ pc'[Passive(d)] \notin {"found", "writing"}
    BY DEF CodeOf
  <2>1. CASE d = c BY <2>1, <1>1, <1>2, <1>3 DEF a
  <2>2. CASE d # c BY <2>2, <1>0, <1>2, <1>3, <1>4 DEF Control, CodeOf
  <2> QED BY <2>1, <2>2
<1>7. RelayHasPair' BY <1>0, <1>2 DEF Control, RelayHasPair, groupVars
<1>8. DistinctCodes' => DistinctCodes
  BY <1>0, <1>2, <1>3 DEF DistinctCodes, a
<1>9. ASSUME Grouped PROVE Grouped'
  <2>0. pc[a] \in {"idle", "found", "writing"} /\ UNCHANGED <<groupConn, members, pairOf, done>>
    BY DEF a, groupVars
  <2>1. RelaysPartner' BY <1>2, <1>9, <2>0, ConnFacts DEF Grouped, RelaysPartner
  <2>2. TableHoldsFirst'
    <3> SUFFICES ASSUME NEW j \in Codes, groupConn[j] # NoConn
                 PROVE  /\ code'[groupConn[j]] = j /\ pc'[groupConn[j]] \in {"waiting", "closed"}
                        /\ \/ members[groupConn[j]] = <<groupConn[j]>>
                           \/ pc'[Partner(groupConn[j])] \in {"relaying", "deleting", "closed"}
      BY <2>0 DEF TableHoldsFirst
    <3>1. groupConn[j] \in Conn /\ Partner(groupConn[j]) \in Conn
      BY <1>0, ConnFacts DEF Control, TypeOK
    <3>2. groupConn[j] # a BY <1>9, <2>0 DEF Grouped, TableHoldsFirst
    <3> QED BY <1>2, <1>9, <2>0, <3>1, <3>2 DEF Grouped, TableHoldsFirst
  <2>3. AloneIsInTable' BY <1>2, <1>9, <2>0 DEF Grouped, AloneIsInTable, Alone
  <2>4. WaitsAloneOrPaired' BY <1>2, <1>9, <2>0 DEF Grouped, WaitsAloneOrPaired
  <2>5. DoneIsPaired'
    BY <1>0, <1>2, <1>9, <2>0 DEF Grouped, DoneIsPaired, Control, TypeOK
  <2>6. BothPending'
    <3> SUFFICES ASSUME NEW d \in Clients, d \notin lost'
                 PROVE  Pending(Active(d))' <=> (InInbox(d)' \/ d \in dialing' \/ Pending(Passive(d))')
      BY DEF BothPending
    <3>1. CASE d = c
      <4>1. ~Pending(Passive(c))' BY <1>1, <1>2, <1>3 DEF Pending, Alone
      <4>2. Pending(a)' <=> v = "pairing" BY <1>2 DEF Pending, Alone
      <4> QED BY <3>1, <4>1, <4>2, <1>1 DEF a
    <3>2. CASE d # c
      <4>1. /\ Pending(Active(d))' <=> Pending(Active(d))
            /\ Pending(Passive(d))' <=> Pending(Passive(d))
        BY <3>2, <1>2, <1>3, <2>0 DEF Pending, Alone
      <4> QED BY <3>2, <4>1, <1>9 DEF Grouped, BothPending
    <3> QED BY <3>1, <3>2
  <2> QED BY <2>1, <2>2, <2>3, <2>4, <2>5, <2>6 DEF Grouped
<1> QED BY <1>5, <1>6, <1>7, <1>8, <1>9 DEF ForwardIInv, Control

\* The agent reads a Link.
LEMMA RecvStep ==
  ASSUME ForwardIInv, TypeOK', NEW n \in Names, AgentRecvLink(n)
  PROVE  ForwardIInv'
<1> DEFINE m == agent[n]
<1> DEFINE h == Head(inbox[m])
<1>1. /\ m \in Manages /\ inbox[m] # <<>> /\ inbox' = [inbox EXCEPT ![m] = Tail(inbox[m])]
      /\ dialing' = dialing \cup {h}
      /\ UNCHANGED <<pc, code, groupVars, lost>>
  BY DEF AgentRecvLink, Spawned, ForwardIInv, Control, TypeOK
<1>2. /\ LinksDiffer' /\ h \in Clients /\ InInbox(h)
      /\ \A d \in Clients : InInbox(d)' <=> InInbox(d) /\ d # h
  BY <1>1, InboxRead DEF ForwardIInv, Control
<1> HIDE DEF h, m
<1>3. \A c \in Clients : Linked(c)' <=> Linked(c) BY <1>1 DEF Linked
<1>4. (LinkOnce /\ CodeOf /\ RelayHasPair)'
  BY <1>1, <1>2, <1>3 DEF groupVars, ForwardIInv, Control, LinkOnce, CodeOf, RelayHasPair
<1>5. DistinctCodes' => DistinctCodes BY <1>1 DEF DistinctCodes
<1>6. Grouped => BothPending'
  BY <1>1, <1>2 DEF groupVars, Grouped, BothPending, Pending, Alone
<1>7. Grouped => (RelaysPartner /\ TableHoldsFirst /\ AloneIsInTable /\ WaitsAloneOrPaired /\ DoneIsPaired)'
  BY <1>1 DEF groupVars, Grouped, RelaysPartner, TableHoldsFirst, AloneIsInTable,
     WaitsAloneOrPaired, DoneIsPaired, Alone
<1> QED BY <1>2, <1>4, <1>5, <1>6, <1>7 DEF ForwardIInv, Control, Grouped

\* The agent dials back with the code of the Link.
LEMMA DialStep ==
  ASSUME ForwardIInv, TypeOK', NEW c \in Clients, PassiveDial(c)
  PROVE  ForwardIInv'
<1> DEFINE a == Passive(c)
<1>0. Control /\ a \in Conn /\ Active(c) \in Conn /\ Active(c) # a
  BY ConnFacts DEF ForwardIInv
<1>1. /\ c \in dialing /\ dialing' = dialing \ {c} /\ pc' = [pc EXCEPT ![a] = "pairing"]
      /\ code' = [code EXCEPT ![a] = code[Active(c)]]
      /\ UNCHANGED <<inbox, groupVars, lost>>
  BY DEF PassiveDial, LinkCode
<1>2. pc[a] = "idle" /\ Linked(c) /\ ~InInbox(c) BY <1>0, <1>1 DEF Control, LinkOnce
<1>3. /\ pc'[a] = "pairing" /\ code'[a] = code[Active(c)]
      /\ \A x \in Conn : x # a => pc'[x] = pc[x] /\ code'[x] = code[x]
  BY <1>0, <1>1 DEF Control, TypeOK
<1>4. \A d \in Clients : /\ Active(d) \in Conn /\ Passive(d) \in Conn /\ Active(d) # a
                         /\ d # c => Passive(d) # a
  BY ConnFacts
<1> HIDE DEF a
<1>5. \A d \in Clients : (InInbox(d)' <=> InInbox(d)) /\ (Linked(d)' <=> Linked(d))
  BY <1>1, <1>3, <1>4 DEF Linked, InInbox
<1>6. LinksDiffer' BY <1>0, <1>1 DEF Control, LinksDiffer
<1>7. LinkOnce'
  BY <1>0, <1>1, <1>2, <1>3, <1>4, <1>5 DEF Control, LinkOnce
<1>8. CodeOf'
  <2> SUFFICES ASSUME NEW d \in Clients
               PROVE  /\ pc'[Active(d)] \in {"idle", "found"} => code'[Active(d)] = NoCode
                      /\ pc'[Active(d)] \in {"writing", "pairing", "waiting", "relaying", "deleting"}
                           => code'[Active(d)] \in Codes
                      /\ pc'[Passive(d)] # "idle" => Linked(d)' /\ code'[Passive(d)] = code'[Active(d)]
                      /\ pc'[Passive(d)] \notin {"found", "writing"}
    BY DEF CodeOf
  <2>1. CASE d = c BY <2>1, <1>0, <1>2, <1>3, <1>4, <1>5 DEF a, Control, CodeOf
  <2>2. CASE d # c BY <2>2, <1>0, <1>3, <1>4, <1>5 DEF Control, CodeOf
  <2> QED BY <2>1, <2>2
<1>9. RelayHasPair' BY <1>0, <1>1, <1>3 DEF Control, RelayHasPair, groupVars
<1>10. DistinctCodes' => DistinctCodes BY <1>3, <1>4 DEF DistinctCodes
<1>11. ASSUME Grouped PROVE Grouped'
  <2>0. UNCHANGED <<groupConn, members, pairOf, done>> BY <1>1 DEF groupVars
  <2>1. RelaysPartner' BY <1>2, <1>3, <1>11, <2>0, ConnFacts DEF Grouped, RelaysPartner
  <2>2. TableHoldsFirst'
    <3> SUFFICES ASSUME NEW j \in Codes, groupConn[j] # NoConn
                 PROVE  /\ code'[groupConn[j]] = j /\ pc'[groupConn[j]] \in {"waiting", "closed"}
                        /\ \/ members[groupConn[j]] = <<groupConn[j]>>
                           \/ pc'[Partner(groupConn[j])] \in {"relaying", "deleting", "closed"}
      BY <2>0 DEF TableHoldsFirst
    <3>1. groupConn[j] \in Conn /\ Partner(groupConn[j]) \in Conn
      BY <1>0, ConnFacts DEF Control, TypeOK
    <3>2. groupConn[j] # a BY <1>2, <1>11 DEF Grouped, TableHoldsFirst
    <3> QED BY <1>2, <1>3, <1>11, <3>1, <3>2 DEF Grouped, TableHoldsFirst
  <2>3. AloneIsInTable' BY <1>3, <1>11, <2>0 DEF Grouped, AloneIsInTable, Alone
  <2>4. WaitsAloneOrPaired' BY <1>3, <1>11, <2>0 DEF Grouped, WaitsAloneOrPaired
  <2>5. DoneIsPaired'
    BY <1>0, <1>2, <1>3, <1>11, <2>0 DEF Grouped, DoneIsPaired, Control, TypeOK
  <2>6. BothPending'
    <3> SUFFICES ASSUME NEW d \in Clients, d \notin lost
                 PROVE  Pending(Active(d))' <=> (InInbox(d)' \/ d \in dialing' \/ Pending(Passive(d))')
      BY <1>1 DEF BothPending
    <3>1. Pending(Active(d))' <=> Pending(Active(d)) BY <1>3, <1>4, <2>0 DEF Pending, Alone
    <3>2. CASE d = c
      <4>1. Pending(Passive(c))' BY <1>3 DEF Pending, a
      <4> QED BY <1>1, <1>11, <3>1, <3>2, <4>1 DEF Grouped, BothPending
    <3>3. CASE d # c
      <4>1. Pending(Passive(d))' <=> Pending(Passive(d))
        BY <3>3, <1>3, <1>4, <2>0 DEF Pending, Alone
      <4> QED BY <3>1, <3>3, <4>1, <1>1, <1>5, <1>11 DEF Grouped, BothPending
    <3> QED BY <3>2, <3>3
  <2> QED BY <2>1, <2>2, <2>3, <2>4, <2>5, <2>6 DEF Grouped
<1> QED BY <1>6, <1>7, <1>8, <1>9, <1>10, <1>11 DEF ForwardIInv, Control

\* A connection goes through the pairing and the relay: what is said of Links
\* and codes stays.
LEMMA PairingControl ==
  ASSUME Control, NEW x \in Conn, pc[x] \in {"pairing", "waiting", "relaying", "deleting"},
         NEW v \in {"waiting", "relaying", "deleting", "closed"},
         pc' = [pc EXCEPT ![x] = v], UNCHANGED <<inbox, dialing, code>>
  PROVE  /\ LinksDiffer' /\ LinkOnce' /\ CodeOf'
         /\ \A c \in Clients : InInbox(c)' <=> InInbox(c)
         /\ DistinctCodes' => DistinctCodes
         /\ pc'[x] = v /\ \A y \in Conn : y # x => pc'[y] = pc[y]
<1>1. pc'[x] = v /\ \A y \in Conn : y # x => pc'[y] = pc[y] BY DEF Control, TypeOK
<1>2. \A c \in Clients : InInbox(c)' <=> InInbox(c) BY DEF InInbox
<1>3. \A c \in Clients : Active(c) \in Conn /\ Passive(c) \in Conn BY ConnFacts
<1>4. \A c \in Clients : Linked(c) => Linked(c)' BY <1>1, <1>3 DEF Linked
<1>5. LinksDiffer' BY DEF Control, LinksDiffer
<1>6. LinkOnce' BY <1>1, <1>2, <1>3, <1>4 DEF Control, LinkOnce
<1>7. CodeOf' BY <1>1, <1>3, <1>4 DEF Control, CodeOf
<1>8. DistinctCodes' => DistinctCodes BY DEF DistinctCodes
<1> QED BY <1>1, <1>2, <1>5, <1>6, <1>7, <1>8

\* With distinct codes, two connections under one code belong to one request.
LEMMA SameCode ==
  ASSUME Control, DistinctCodes, NEW x \in Conn, NEW y \in Conn, code[x] = code[y],
         pc[x] \notin {"idle", "found", "closed"},
         pc[y] \notin {"idle", "found"}
  PROVE  y = x \/ y = Partner(x)
<1>1. code[x] \in Codes /\ code[x] = code[Active(x.id)] /\ NoCode \notin Codes BY CodeFacts
<1>2. code[y] = code[Active(y.id)] BY CodeFacts, ConnFacts
<1>3. x.id \in Clients /\ y.id \in Clients BY ConnFacts
<1>4. x.id = y.id BY <1>1, <1>2, <1>3 DEF DistinctCodes
<1> QED BY <1>4, ConnFacts

\* First under its code.
LEMMA FirstStep ==
  ASSUME ForwardIInv, TypeOK', NEW x \in Conn, PairFirst(x)
  PROVE  ForwardIInv'
<1>0. Control /\ NoConn \notin Conn BY ConnFacts DEF ForwardIInv
<1>1. /\ pc[x] = "pairing" /\ groupConn[code[x]] = NoConn /\ pc' = [pc EXCEPT ![x] = "waiting"]
      /\ groupConn' = [groupConn EXCEPT ![code[x]] = x] /\ members' = [members EXCEPT ![x] = <<x>>]
      /\ UNCHANGED <<inbox, dialing, code, pairOf, done, lost>>
  BY DEF PairFirst, First, manageVars
<1>2. /\ LinksDiffer' /\ LinkOnce' /\ CodeOf' /\ (DistinctCodes' => DistinctCodes)
      /\ \A c \in Clients : InInbox(c)' <=> InInbox(c)
      /\ pc'[x] = "waiting" /\ \A y \in Conn : y # x => pc'[y] = pc[y]
  BY <1>0, <1>1, PairingControl
<1>3. /\ code[x] \in Codes /\ groupConn'[code[x]] = x /\ members'[x] = <<x>>
      /\ \A k \in Codes : k # code[x] => groupConn'[k] = groupConn[k]
      /\ \A y \in Conn : y # x => members'[y] = members[y]
  BY <1>0, <1>1, CodeFacts DEF Control, TypeOK
<1>4. RelayHasPair' BY <1>0, <1>1, <1>2 DEF Control, RelayHasPair
<1>5. ASSUME Grouped PROVE Grouped'
  <2>1. RelaysPartner'
    <3> SUFFICES ASSUME NEW y \in Conn, pc'[y] \in {"relaying", "deleting"}
                 PROVE  /\ pairOf'[y] = Partner(y) /\ members'[Partner(y)] = <<Partner(y), y>>
                        /\ pc'[Partner(y)] \in {"waiting", "closed"}
      BY DEF RelaysPartner
    <3>1. pc[y] \in {"relaying", "deleting"} BY <1>2
    <3>2. Partner(y) \in Conn /\ pairOf[y] = Partner(y) /\ members[Partner(y)] = <<Partner(y), y>>
          /\ pc[Partner(y)] \in {"waiting", "closed"}
      BY <1>5, <3>1, ConnFacts DEF Grouped, RelaysPartner
    <3>3. Partner(y) # x BY <1>1, <3>2
    <3> QED BY <1>1, <1>2, <1>3, <3>2, <3>3
  <2>2. TableHoldsFirst'
    <3> SUFFICES ASSUME NEW j \in Codes, groupConn'[j] # NoConn
                 PROVE  /\ code[groupConn'[j]] = j /\ pc'[groupConn'[j]] \in {"waiting", "closed"}
                        /\ \/ members'[groupConn'[j]] = <<groupConn'[j]>>
                           \/ pc'[Partner(groupConn'[j])] \in {"relaying", "deleting", "closed"}
      BY <1>1 DEF TableHoldsFirst
    <3>1. CASE j = code[x] BY <1>2, <1>3, <3>1
    <3>2. CASE j # code[x]
      <4> DEFINE g == groupConn[j]
      <4>1. groupConn'[j] = g /\ g \in Conn /\ Partner(g) \in Conn
        BY <1>0, <1>3, <3>2, ConnFacts DEF Control, TypeOK
      <4>2. /\ code[g] = j /\ pc[g] \in {"waiting", "closed"}
            /\ members[g] = <<g>> \/ pc[Partner(g)] \in {"relaying", "deleting", "closed"}
        BY <1>5, <4>1 DEF Grouped, TableHoldsFirst
      <4> HIDE DEF g
      <4>3. g # x BY <1>1, <4>2
      <4>4. pc'[g] = pc[g] /\ members'[g] = members[g] BY <1>2, <1>3, <4>1, <4>3
      <4>5. pc[Partner(g)] \in {"relaying", "deleting", "closed"} => pc'[Partner(g)] = pc[Partner(g)]
        BY <1>1, <1>2, <4>1
      <4> QED BY <4>1, <4>2, <4>4, <4>5
    <3> QED BY <3>1, <3>2
  <2>3. AloneIsInTable'
    <3> SUFFICES ASSUME NEW y \in Conn, Alone(y)' PROVE groupConn'[code[y]] = y
      BY <1>1 DEF AloneIsInTable
    <3>1. CASE y = x BY <1>3, <3>1
    <3>2. CASE y # x
      <4>1. Alone(y) BY <1>2, <1>3, <3>2 DEF Alone
      <4>2. groupConn[code[y]] = y BY <4>1, <1>5 DEF Grouped, AloneIsInTable
      <4>3. code[y] # code[x] BY <1>0, <1>1, <4>2
      <4>4. code[y] \in Codes BY <1>0, <4>1, CodeFacts DEF Alone
      <4> QED BY <1>3, <4>2, <4>3, <4>4
    <3> QED BY <3>1, <3>2
  <2>4. WaitsAloneOrPaired' BY <1>2, <1>3, <1>5 DEF Grouped, WaitsAloneOrPaired
  <2>5. DoneIsPaired'
    <3>1. x \notin done BY <1>1, <1>5 DEF Grouped, DoneIsPaired
    <3> QED BY <1>0, <1>1, <1>2, <1>3, <1>5, <3>1 DEF Grouped, DoneIsPaired, Control, TypeOK
  <2>6. BothPending'
    <3>1. \A y \in Conn : Pending(y)' <=> Pending(y) BY <1>1, <1>2, <1>3 DEF Pending, Alone
    <3> QED BY <1>1, <1>2, <1>5, <3>1, ConnFacts DEF Grouped, BothPending
  <2> QED BY <2>1, <2>2, <2>3, <2>4, <2>5, <2>6 DEF Grouped
<1> QED BY <1>2, <1>4, <1>5 DEF ForwardIInv, Control

\* Second under its code: with distinct codes it joins its partner.
LEMMA SecondStep ==
  ASSUME ForwardIInv, TypeOK', NEW x \in Conn, PairSecond(x)
  PROVE  ForwardIInv'
<1>0. Control BY DEF ForwardIInv
<1>a. groupConn[code[x]] \in Conn
  <2>1. pc[x] = "pairing" /\ groupConn[code[x]] # NoConn BY DEF PairSecond, First
  <2>2. code[x] \in Codes BY <1>0, <2>1, CodeFacts
  <2> QED BY <1>0, <2>1, <2>2 DEF Control, TypeOK
<1>b. PICK p \in Conn : p = groupConn[code[x]] BY <1>a
<1>1. /\ pc[x] = "pairing" /\ p # NoConn /\ pc' = [pc EXCEPT ![x] = "relaying"]
      /\ members' = [members EXCEPT ![p] = Append(members[p], x)]
      /\ pairOf' = [pairOf EXCEPT ![x] = p]
      /\ UNCHANGED <<inbox, dialing, code, groupConn, done, lost>>
  BY <1>b DEF PairSecond, First, manageVars
<1>2. /\ LinksDiffer' /\ LinkOnce' /\ CodeOf' /\ (DistinctCodes' => DistinctCodes)
      /\ \A c \in Clients : InInbox(c)' <=> InInbox(c)
      /\ pc'[x] = "relaying" /\ \A y \in Conn : y # x => pc'[y] = pc[y]
  BY <1>0, <1>1, PairingControl
<1>3. code[x] \in Codes BY <1>0, <1>1, CodeFacts
<1>4. /\ members'[p] = Append(members[p], x) /\ pairOf'[x] = p
      /\ \A y \in Conn : y # p => members'[y] = members[y]
      /\ \A y \in Conn : y # x => pairOf'[y] = pairOf[y]
  BY <1>0, <1>1, <1>3 DEF Control, TypeOK
<1>5. RelayHasPair' BY <1>0, <1>2, <1>3, <1>4 DEF Control, RelayHasPair
<1>6. ASSUME Grouped, DistinctCodes PROVE Grouped'
  <2>1. /\ code[p] = code[x] /\ pc[p] \in {"waiting", "closed"}
        /\ members[p] = <<p>> \/ pc[Partner(p)] \in {"relaying", "deleting", "closed"}
    BY <1>1, <1>3, <1>6, <1>b DEF Grouped, TableHoldsFirst
  <2>2. p # x /\ p = Partner(x) /\ x = Partner(p)
    <3>1. p # x BY <1>1, <2>1
    <3>2. p = x \/ p = Partner(x) BY <1>0, <1>1, <1>3, <1>6, <2>1, SameCode
    <3> QED BY <3>1, <3>2, ConnFacts
  <2>3. members[p] = <<p>> BY <1>1, <2>1, <2>2
  <2>4. members'[p] = <<p, x>>
    <3> DEFINE a == Append(<<p>>, x)
    <3> DEFINE b == <<p, x>>
    <3>1. <<p>> \in Seq(Conn) /\ Len(<<p>>) = 1 /\ <<p>>[1] = p OBVIOUS
    <3>2. a \in Seq(Conn) /\ Len(a) = 2 /\ a[1] = p /\ a[2] = x BY <3>1
    <3>3. b \in Seq(Conn) /\ Len(b) = 2 /\ b[1] = p /\ b[2] = x OBVIOUS
    <3> HIDE DEF a, b
    <3>4. a = b BY <3>2, <3>3
    <3> QED BY <1>4, <2>3, <3>4 DEF a, b
  <2>5. RelaysPartner'
    <3> SUFFICES ASSUME NEW y \in Conn, pc'[y] \in {"relaying", "deleting"}
                 PROVE  /\ pairOf'[y] = Partner(y) /\ members'[Partner(y)] = <<Partner(y), y>>
                        /\ pc'[Partner(y)] \in {"waiting", "closed"}
      BY DEF RelaysPartner
    <3>1. CASE y = x BY <1>2, <1>3, <1>4, <2>1, <2>2, <2>4, <3>1
    <3>2. CASE y # x
      <4>1. pc[y] \in {"relaying", "deleting"} BY <1>2, <3>2
      <4>2. Partner(y) \in Conn /\ pairOf[y] = Partner(y) /\ members[Partner(y)] = <<Partner(y), y>>
            /\ pc[Partner(y)] \in {"waiting", "closed"}
        BY <1>6, <4>1, ConnFacts DEF Grouped, RelaysPartner
      <4>3. Partner(y) # x BY <1>1, <4>2
      <4>4. Partner(y) # p BY <2>2, <3>2, ConnFacts
      <4> QED BY <1>2, <1>4, <3>2, <4>2, <4>3, <4>4
    <3> QED BY <3>1, <3>2
  <2>6. TableHoldsFirst'
    <3> SUFFICES ASSUME NEW j \in Codes, groupConn[j] # NoConn
                 PROVE  /\ code[groupConn[j]] = j /\ pc'[groupConn[j]] \in {"waiting", "closed"}
                        /\ \/ members'[groupConn[j]] = <<groupConn[j]>>
                           \/ pc'[Partner(groupConn[j])] \in {"relaying", "deleting", "closed"}
      BY <1>1 DEF TableHoldsFirst
    <3> DEFINE g == groupConn[j]
    <3>1. g \in Conn /\ Partner(g) \in Conn BY <1>0, ConnFacts DEF Control, TypeOK
    <3>2. /\ code[g] = j /\ pc[g] \in {"waiting", "closed"}
          /\ members[g] = <<g>> \/ pc[Partner(g)] \in {"relaying", "deleting", "closed"}
      BY <1>6 DEF Grouped, TableHoldsFirst
    <3>3. g # x BY <1>1, <3>2
    <3> HIDE DEF g
    <3>4. CASE g = p BY <1>2, <2>2, <3>2, <3>3, <3>1, <3>4 DEF g
    <3>5. CASE g # p
      <4>1. Partner(g) # x BY <2>2, <3>1, <3>5, ConnFacts
      <4> QED BY <1>2, <1>4, <3>1, <3>2, <3>3, <3>5, <4>1 DEF g
    <3> QED BY <3>4, <3>5
  <2>7. <<p, x>> # <<p>> OBVIOUS
  <2>8. AloneIsInTable'
    <3> SUFFICES ASSUME NEW y \in Conn, Alone(y)' PROVE groupConn[code[y]] = y
      BY <1>1 DEF AloneIsInTable
    <3>1. y # p /\ y # x BY <1>2, <2>4, <2>7 DEF Alone
    <3>2. Alone(y) BY <1>2, <1>4, <3>1 DEF Alone
    <3> QED BY <1>6, <3>2 DEF Grouped, AloneIsInTable
  <2>9. WaitsAloneOrPaired'
    <3> SUFFICES ASSUME NEW y \in Conn, pc'[y] = "waiting"
                 PROVE  members'[y] = <<y>> \/ members'[y] = <<y, Partner(y)>>
      BY DEF WaitsAloneOrPaired
    <3>1. y # x BY <1>2
    <3>2. CASE y = p BY <2>2, <2>4, <3>2
    <3>3. CASE y # p BY <1>2, <1>4, <1>6, <3>1, <3>3 DEF Grouped, WaitsAloneOrPaired
    <3> QED BY <3>2, <3>3
  <2>10. DoneIsPaired'
    <3>1. p \notin done
      <4>1. <<p>> # <<p, Partner(p)>> OBVIOUS
      <4> QED BY <1>6, <2>3, <4>1 DEF Grouped, DoneIsPaired
    <3>2. x \notin done BY <1>1, <1>6 DEF Grouped, DoneIsPaired
    <3> QED BY <1>0, <1>1, <1>2, <1>4, <1>6, <3>1, <3>2 DEF Grouped, DoneIsPaired, Control, TypeOK
  <2>11. BothPending'
    <3> SUFFICES ASSUME NEW d \in Clients, d \notin lost
                 PROVE  Pending(Active(d))' <=> (InInbox(d)' \/ d \in dialing' \/ Pending(Passive(d))')
      BY <1>1 DEF BothPending
    <3>1. ~Pending(x)' /\ ~Pending(p)'
      BY <1>2, <1>3, <2>1, <2>2, <2>4, <2>7 DEF Pending, Alone
    <3>2. \A y \in Conn : y # x /\ y # p => (Pending(y)' <=> Pending(y))
      BY <1>2, <1>4 DEF Pending, Alone
    <3>3. CASE Active(d) = x \/ Passive(d) = x
      <4>1. {Active(d), Passive(d)} = {x, p} BY <2>2, <3>3, ConnFacts
      <4>2. pc[Passive(d)] # "idle" BY <1>1, <2>1, <4>1
      <4>3. ~InInbox(d) /\ d \notin dialing BY <1>0, <4>2 DEF Control, LinkOnce
      <4>4. ~Pending(Active(d))' /\ ~Pending(Passive(d))'
        <5>1. CASE Active(d) = x /\ Passive(d) = p BY <3>1, <5>1
        <5>2. CASE Active(d) = p /\ Passive(d) = x BY <3>1, <5>2
        <5> QED BY <4>1, <5>1, <5>2, ConnFacts
      <4> QED BY <1>1, <1>2, <4>3, <4>4
    <3>4. CASE Active(d) # x /\ Passive(d) # x
      <4>1. Active(d) # p /\ Passive(d) # p BY <2>2, <3>4, ConnFacts
      <4> QED BY <1>1, <1>2, <1>6, <3>2, <3>4, <4>1, ConnFacts DEF Grouped, BothPending
    <3> QED BY <3>3, <3>4
  <2> QED BY <2>5, <2>6, <2>8, <2>9, <2>10, <2>11 DEF Grouped
<1> QED BY <1>2, <1>5, <1>6 DEF ForwardIInv, Control

\* The end of a handler that relayed or waited: no connection stops or starts
\* to wait for a partner, and the table keeps every connection that does.
LEMMA ReturnStep ==
  ASSUME ForwardIInv, TypeOK', NEW x \in Conn,
         pc[x] \in {"waiting", "relaying", "deleting"},
         NEW v \in {"deleting", "closed"}, v = "deleting" => pc[x] = "relaying",
         pc' = [pc EXCEPT ![x] = v],
         UNCHANGED <<inbox, dialing, code, members, pairOf, lost>>,
         pc[x] = "waiting" => x \in done,
         done' = done \/ (pc[x] = "relaying" /\ done' = done \cup {pairOf[x]}),
         groupConn' = groupConn
           \/ (pc[x] = "deleting" /\ groupConn' = [groupConn EXCEPT ![code[x]] = NoConn])
  PROVE  ForwardIInv'
<1>0. Control BY DEF ForwardIInv
<1>1. /\ LinksDiffer' /\ LinkOnce' /\ CodeOf' /\ (DistinctCodes' => DistinctCodes)
      /\ \A c \in Clients : InInbox(c)' <=> InInbox(c)
      /\ pc'[x] = v /\ \A y \in Conn : y # x => pc'[y] = pc[y]
  BY <1>0, PairingControl
<1>2. RelayHasPair' BY <1>0, <1>1 DEF Control, RelayHasPair
<1>3. ASSUME Grouped, DistinctCodes PROVE Grouped'
  <2>1. RelaysPartner'
    <3> SUFFICES ASSUME NEW y \in Conn, pc'[y] \in {"relaying", "deleting"}
                 PROVE  /\ pairOf[y] = Partner(y) /\ members[Partner(y)] = <<Partner(y), y>>
                        /\ pc'[Partner(y)] \in {"waiting", "closed"}
      BY DEF RelaysPartner
    <3>1. pc[y] \in {"relaying", "deleting"} BY <1>1
    <3>2. Partner(y) \in Conn /\ pairOf[y] = Partner(y) /\ members[Partner(y)] = <<Partner(y), y>>
          /\ pc[Partner(y)] \in {"waiting", "closed"}
      BY <1>3, <3>1, ConnFacts DEF Grouped, RelaysPartner
    <3> QED BY <1>1, <3>2
  <2>2. \A y \in Conn : Alone(y)' <=> Alone(y)
    <3>1. ~Alone(x)
      <4>1. <<x>> # <<x, Partner(x)>> OBVIOUS
      <4> QED BY <1>3, <4>1 DEF Grouped, DoneIsPaired, Alone
    <3> QED BY <1>1, <3>1 DEF Alone
  <2>3. TableHoldsFirst'
    <3> SUFFICES ASSUME NEW j \in Codes, groupConn'[j] # NoConn
                 PROVE  /\ code[groupConn'[j]] = j /\ pc'[groupConn'[j]] \in {"waiting", "closed"}
                        /\ \/ members[groupConn'[j]] = <<groupConn'[j]>>
                           \/ pc'[Partner(groupConn'[j])] \in {"relaying", "deleting", "closed"}
      BY DEF TableHoldsFirst
    <3>1. groupConn'[j] = groupConn[j] BY <1>0 DEF Control, TypeOK
    <3> DEFINE g == groupConn[j]
    <3>2. g \in Conn /\ Partner(g) \in Conn BY <1>0, <3>1, ConnFacts DEF Control, TypeOK
    <3>3. /\ code[g] = j /\ pc[g] \in {"waiting", "closed"}
          /\ members[g] = <<g>> \/ pc[Partner(g)] \in {"relaying", "deleting", "closed"}
      BY <1>3, <3>1 DEF Grouped, TableHoldsFirst
    <3>4. pc'[g] \in {"waiting", "closed"} BY <1>1, <3>2, <3>3
    <3>5. pc[Partner(g)] \in {"relaying", "deleting", "closed"}
            => pc'[Partner(g)] \in {"relaying", "deleting", "closed"}
      BY <1>1, <3>2
    <3> QED BY <3>1, <3>3, <3>4, <3>5
  <2>4. AloneIsInTable'
    <3> SUFFICES ASSUME NEW y \in Conn, Alone(y) PROVE groupConn'[code[y]] = y
      BY <2>2 DEF AloneIsInTable
    <3>1. groupConn[code[y]] = y BY <1>3 DEF Grouped, AloneIsInTable
    <3>2. CASE groupConn' = groupConn BY <3>1, <3>2
    <3>3. CASE pc[x] = "deleting" /\ groupConn' = [groupConn EXCEPT ![code[x]] = NoConn]
      <4>1. code[y] # code[x]
        <5> SUFFICES ASSUME code[x] = code[y] PROVE FALSE OBVIOUS
        <5>1. y = x \/ y = Partner(x) BY <1>0, <1>3, <3>3, SameCode DEF Alone
        <5>2. y # x BY <3>3 DEF Alone
        <5>3. members[y] = <<y, x>> BY <1>3, <3>3, <5>1, <5>2 DEF Grouped, RelaysPartner
        <5>4. <<y>> # <<y, x>> OBVIOUS
        <5> QED BY <5>3, <5>4 DEF Alone
      <4> QED BY <1>0, <3>1, <3>3, <4>1, CodeFacts DEF Control, TypeOK, Alone
    <3> QED BY <3>2, <3>3
  <2>5. WaitsAloneOrPaired' BY <1>1, <1>3 DEF Grouped, WaitsAloneOrPaired
  <2>6. DoneIsPaired'
    <3> SUFFICES ASSUME NEW y \in done'
                 PROVE  members[y] = <<y, Partner(y)>> /\ pc'[y] \in {"waiting", "closed"}
      BY DEF DoneIsPaired
    <3>1. y \in Conn BY DEF TypeOK
    <3>2. CASE y \in done BY <1>1, <1>3, <3>1, <3>2 DEF Grouped, DoneIsPaired
    <3>3. CASE y \notin done
      <4>1. pc[x] = "relaying" /\ y = pairOf[x] BY <3>3
      <4>2. y = Partner(x) /\ members[y] = <<y, x>> /\ pc[y] \in {"waiting", "closed"}
        BY <1>3, <4>1 DEF Grouped, RelaysPartner
      <4> QED BY <1>1, <3>1, <4>2, ConnFacts
    <3> QED BY <3>2, <3>3
  <2>7. BothPending'
    <3>1. \A y \in Conn : Pending(y)' <=> Pending(y) BY <1>1, <2>2 DEF Pending
    <3> QED BY <1>1, <1>3, <3>1, ConnFacts DEF Grouped, BothPending
  <2> QED BY <2>1, <2>3, <2>4, <2>5, <2>6, <2>7 DEF Grouped
<1> QED BY <1>1, <1>2, <1>3 DEF ForwardIInv, Control

-----------------------------------------------------------------------------
\* Every step of the switch and its agents keeps the invariant.
LEMMA NextStep ==
  ASSUME ForwardIInv, Next
  PROVE  ForwardIInv'
<1>0. Control /\ TypeOK /\ LinksDiffer /\ TypeOK' BY TypeStep DEF ForwardIInv, Control
<1>1. CASE Tick BY <1>0, <1>1, QuietStep DEF Tick, manageVars
<1>2. ASSUME NEW n \in Names, AgentNotice(n) PROVE ForwardIInv'
  BY <1>0, <1>2, QuietStep DEF AgentNotice
<1>3. ASSUME NEW n \in Names, AgentRecvLink(n) PROVE ForwardIInv' BY <1>0, <1>3, RecvStep
<1>4. ASSUME NEW n \in Names, NEW m \in Manages, AgentDial(n, m) PROVE ForwardIInv'
  BY <1>0, <1>4, QuietStep DEF AgentDial
<1>5. ASSUME NEW m \in Manages, ManageStore(m) \/ PingBegin(m) PROVE ForwardIInv'
  BY <1>0, <1>5, QuietStep DEF ManageStore, PingBegin
<1>6. ASSUME NEW m \in Manages, inbox' = [inbox EXCEPT ![m] = <<>>],
             lost' = lost \cup {inbox[m][i] : i \in 1 .. Len(inbox[m])},
             UNCHANGED <<dialing, pc, code, groupVars>>
      PROVE  ForwardIInv'
  <2>1. /\ LinksDiffer'
        /\ \A c \in Clients : InInbox(c)' => InInbox(c)
        /\ \A c \in Clients : InInbox(c) /\ ~InInbox(c)' =>
              c \in {inbox[m][i] : i \in 1 .. Len(inbox[m])}
    BY <1>0, <1>6, InboxDropped
  <2> QED BY <1>0, <1>6, <2>1, LossStep
<1>7. ASSUME NEW m \in Manages, ManageBreak(m) PROVE ForwardIInv' BY <1>6, <1>7 DEF ManageBreak
<1>8. ASSUME NEW m \in Manages, PingEnd(m) PROVE ForwardIInv'
  <2>1. UNCHANGED <<dialing, pc, code, groupVars>> BY <1>8 DEF PingEnd
  <2>2. CASE UNCHANGED <<inbox, lost>> BY <1>0, <2>1, <2>2, QuietStep
  <2>3. CASE ManageExit(m) BY <1>6, <2>1, <2>3 DEF ManageExit
  <2> QED BY <1>8, <2>2, <2>3 DEF PingEnd
<1>9. ASSUME NEW c \in Clients,
             \/ \E n \in Names \cup {None} : ForwardRefuse(c, n)
             \/ \E n \in Names : ForwardFound(c, n)
      PROVE  ForwardIInv'
  <2>1. /\ pc[Active(c)] = "idle"
        /\ pc' = [pc EXCEPT ![Active(c)] = "closed"] \/ pc' = [pc EXCEPT ![Active(c)] = "found"]
        /\ UNCHANGED <<inbox, dialing, code, groupVars, lost>>
    BY <1>9 DEF ForwardRefuse, ForwardFound, manageVars
  <2>2. /\ code[Active(c)] = NoCode /\ Active(c) \in Conn BY <1>0, <2>1, ConnFacts DEF Control, CodeOf
  <2>3. code' = [code EXCEPT ![Active(c)] = NoCode] BY <1>0, <2>1, <2>2 DEF TypeOK
  <2>4. \A d \in Clients : InInbox(d)' <=> InInbox(d) BY <2>1 DEF InInbox
  <2>5. ~InInbox(c) BY <1>0, <2>1, NotLinked
  <2>6. LinksDiffer' BY <1>0, <2>1 DEF LinksDiffer
  <2>7. CASE pc' = [pc EXCEPT ![Active(c)] = "closed"]
    BY <1>0, <2>1, <2>2, <2>3, <2>4, <2>5, <2>6, <2>7, ClientStep
  <2>8. CASE pc' = [pc EXCEPT ![Active(c)] = "found"]
    BY <1>0, <2>1, <2>2, <2>3, <2>4, <2>5, <2>6, <2>8, ClientStep
  <2> QED BY <2>1, <2>7, <2>8
<1>10. ASSUME NEW c \in Clients, LinkBegin(c) PROVE ForwardIInv'
  <2>1. /\ pc[Active(c)] = "found" /\ pc' = [pc EXCEPT ![Active(c)] = "writing"]
        /\ code' = [code EXCEPT ![Active(c)] = clock]
        /\ UNCHANGED <<inbox, dialing, groupVars, lost>>
    BY <1>10 DEF LinkBegin
  <2>2. code[Active(c)] = NoCode BY <1>0, <2>1 DEF Control, CodeOf
  <2>3. clock \in Codes BY <1>0 DEF TypeOK
  <2>4. \A d \in Clients : InInbox(d)' <=> InInbox(d) BY <2>1 DEF InInbox
  <2>5. ~InInbox(c) BY <1>0, <2>1, NotLinked
  <2>6. LinksDiffer' BY <1>0, <2>1 DEF LinksDiffer
  <2> QED BY <1>0, <2>1, <2>2, <2>3, <2>4, <2>5, <2>6, ClientStep
<1>11. ASSUME NEW c \in Clients, LinkEnd(c) \/ LinkPanic(c) PROVE ForwardIInv'
  <2>1. /\ pc[Active(c)] = "writing" /\ UNCHANGED <<dialing, code, groupVars>>
        /\ lost' = lost \/ lost' = lost \cup {c}
        /\ inbox' = inbox \/ inbox' = [inbox EXCEPT ![target[c]] = Append(inbox[target[c]], c)]
    BY <1>11 DEF LinkEnd, LinkPanic
  <2>2. /\ target[c] \in Manages /\ code[Active(c)] \in Codes /\ Active(c) \in Conn
    BY <1>0, <2>1, ConnFacts DEF TypeOK, Control, CodeOf
  <2>3. code' = [code EXCEPT ![Active(c)] = code[Active(c)]] BY <1>0, <2>1, <2>2 DEF TypeOK
  <2>4. ~InInbox(c) BY <1>0, <2>1, NotLinked
  <2>5. /\ LinksDiffer' /\ \A d \in Clients : d # c => (InInbox(d)' <=> InInbox(d))
        /\ inbox' # inbox => InInbox(c)'
    <3>1. CASE inbox' = inbox BY <1>0, <3>1 DEF LinksDiffer, InInbox
    <3>2. CASE inbox' = [inbox EXCEPT ![target[c]] = Append(inbox[target[c]], c)]
      BY <1>0, <2>2, <2>4, <3>2, InboxGrows
    <3> QED BY <2>1, <3>1, <3>2
  <2>6. CASE LinkEnd(c)
    <3>1. pc' = [pc EXCEPT ![Active(c)] = "pairing"] BY <2>6 DEF LinkEnd
    <3>2. c \in lost' \/ InInbox(c)'
      <4>1. CASE inbox' = [inbox EXCEPT ![target[c]] = Append(inbox[target[c]], c)]
        BY <1>0, <2>2, <2>4, <4>1, InboxGrows
      <4>2. CASE lost' = lost \cup {c} BY <4>2
      <4> QED BY <2>6, <4>1, <4>2 DEF LinkEnd
    <3> QED BY <1>0, <2>1, <2>2, <2>3, <2>5, <3>1, <3>2, ClientStep
  <2>7. CASE LinkPanic(c)
    <3>1. pc' = [pc EXCEPT ![Active(c)] = "closed"] /\ c \in lost' BY <2>7 DEF LinkPanic
    <3> QED BY <1>0, <2>1, <2>2, <2>3, <2>5, <3>1, ClientStep
  <2> QED BY <1>11, <2>6, <2>7
<1>12. ASSUME NEW c \in Clients, PassiveDial(c) PROVE ForwardIInv' BY <1>0, <1>12, DialStep
<1>13. ASSUME NEW c \in Clients, PassiveDialFail(c) PROVE ForwardIInv'
  <2>1. /\ dialing' = dialing \ {c} /\ lost' = lost \cup {c} /\ inbox' = inbox
        /\ UNCHANGED <<pc, code, groupVars>>
    BY <1>13 DEF PassiveDialFail
  <2>2. \A d \in Clients : InInbox(d)' <=> InInbox(d) BY <2>1 DEF InInbox
  <2>3. LinksDiffer' BY <1>0, <2>1 DEF LinksDiffer
  <2> QED BY <1>0, <2>1, <2>2, <2>3, LossStep
<1>14. ASSUME NEW x \in Conn, PairFirst(x) PROVE ForwardIInv' BY <1>0, <1>14, FirstStep
<1>15. ASSUME NEW x \in Conn, PairSecond(x) PROVE ForwardIInv' BY <1>0, <1>15, SecondStep
<1>16. ASSUME NEW x \in Conn, RelayEnd(x) PROVE ForwardIInv'
  <2>1. /\ pc[x] = "relaying"
        /\ UNCHANGED <<inbox, dialing, code, groupConn, members, pairOf, lost>>
        /\ \/ pc' = [pc EXCEPT ![x] = "closed"] /\ done' = done
           \/ pc' = [pc EXCEPT ![x] = "deleting"] /\ done' = done \cup {pairOf[x]}
    BY <1>16 DEF RelayEnd, DoneClosed, manageVars
  <2>2. CASE pc' = [pc EXCEPT ![x] = "closed"] /\ done' = done BY <1>0, <2>1, <2>2, ReturnStep
  <2>3. CASE pc' = [pc EXCEPT ![x] = "deleting"] /\ done' = done \cup {pairOf[x]}
    BY <1>0, <2>1, <2>3, ReturnStep
  <2> QED BY <2>1, <2>2, <2>3
<1>17. ASSUME NEW x \in Conn, RelayDelete(x) PROVE ForwardIInv'
  <2>1. /\ pc[x] = "deleting" /\ pc' = [pc EXCEPT ![x] = "closed"]
        /\ groupConn' = [groupConn EXCEPT ![code[x]] = NoConn]
        /\ UNCHANGED <<inbox, dialing, code, members, pairOf, done, lost>>
    BY <1>17 DEF RelayDelete, manageVars
  <2> QED BY <1>0, <2>1, ReturnStep
<1>18. ASSUME NEW x \in Conn, WaiterReturn(x) PROVE ForwardIInv'
  <2>1. /\ pc[x] = "waiting" /\ x \in done /\ pc' = [pc EXCEPT ![x] = "closed"]
        /\ UNCHANGED <<inbox, dialing, code, groupConn, members, pairOf, done, lost>>
    BY <1>18 DEF WaiterReturn, manageVars, groupVars
  <2> QED BY <1>0, <2>1, ReturnStep
<1>19. ASSUME NEW x \in Conn, Hangup(x) PROVE ForwardIInv'
  BY <1>0, <1>19, QuietStep DEF Hangup, manageVars
<1> QED
  BY <1>1, <1>2, <1>3, <1>4, <1>5, <1>7, <1>8, <1>9, <1>10, <1>11, <1>12, <1>13, <1>14,
     <1>15, <1>16, <1>17, <1>18, <1>19 DEF Next

\* The invariant of the forwarding switch: Links, codes, table and PairGroups
\* agree, whatever the network, the agents and the clients do.
THEOREM ForwardInvariant == Spec => []ForwardIInv
<1>1. ForwardIInv /\ [Next]_vars => ForwardIInv'
  <2> SUFFICES ASSUME ForwardIInv, [Next]_vars PROVE ForwardIInv' OBVIOUS
  <2>1. CASE Next BY <2>1, NextStep
  <2>2. CASE UNCHANGED vars
    <3>1. TypeOK' BY <2>2 DEF vars, ForwardIInv, Control, TypeOK
    <3> QED BY <2>2, <3>1, QuietStep DEF vars, groupVars
  <2> QED BY <2>1, <2>2
<1> QED BY <1>1, InitOK, PTL DEF Spec

\* Type correctness of the switch and its agents.
THEOREM ForwardTypeCorrect == Spec => []TypeOK
<1>1. ForwardIInv => TypeOK BY DEF ForwardIInv, Control
<1> QED BY <1>1, ForwardInvariant, PTL

\* The pairing section of forwardConnect: unless two requests were given the
\* same code, what it relays is a client and the connection its own agent
\* dialled for it, for any number of clients, agents and reconnects.
THEOREM ClientsMeetTheirAgents == Spec => []RelayJoinsClientWithItsAgent
<1>1. ForwardIInv => RelayJoinsClientWithItsAgent
  <2> SUFFICES ASSUME ForwardIInv, DistinctCodes, NEW x \in Conn, pc[x] \in {"relaying", "deleting"}
               PROVE  {Left(x), Right(x)} = {Active(x.id), Passive(x.id)}
    BY DEF RelayJoinsClientWithItsAgent
  <2>1. pairOf[x] = Partner(x) /\ members[Partner(x)] = <<Partner(x), x>>
    BY DEF ForwardIInv, Grouped, RelaysPartner
  <2>2. Left(x) = Partner(x) /\ Right(x) = x BY <2>1 DEF Left, Right
  <2> QED BY <2>2, ConnFacts
<1> QED BY <1>1, ForwardInvariant, PTL

\* forwardConnect strands nobody: a connection alone in groupConn has a Link,
\* a dial back or a partner's handler under way, or one of them was lost.
THEOREM ParkedIsExpected == Spec => []ParkedMeansPartnerComing
<1>1. ForwardIInv => ParkedMeansPartnerComing
  <2> SUFFICES ASSUME ForwardIInv, DistinctCodes, NEW x \in Conn, pc[x] = "waiting",
                      Len(members[x]) = 1, x.id \notin lost
               PROVE  PartnerComing(x)
    BY DEF ParkedMeansPartnerComing
  <2>1. Grouped /\ Control BY DEF ForwardIInv
  <2>2. Alone(x)
    <3>1. Len(<<x, Partner(x)>>) = 2 OBVIOUS
    <3> QED BY <2>1, <3>1 DEF Grouped, WaitsAloneOrPaired, Alone
  <2>3. ~Alone(Partner(x))
    <3> SUFFICES ASSUME Alone(Partner(x)) PROVE FALSE OBVIOUS
    <3>1. groupConn[code[x]] = x /\ groupConn[code[Partner(x)]] = Partner(x) /\ Partner(x) # x
      BY <2>1, <2>2, ConnFacts DEF Grouped, AloneIsInTable
    <3>2. code[x] = code[Partner(x)]
      BY <2>1, <2>2, CodeFacts, ConnFacts DEF Alone
    <3> QED BY <3>1, <3>2
  <2>4. InInbox(x.id) \/ x.id \in dialing \/ pc[Partner(x)] = "pairing"
    <3>1. x.id \in Clients /\ (x = Active(x.id) \/ x = Passive(x.id)) BY ConnFacts
    <3>2. CASE x = Active(x.id)
      <4>1. Partner(x) = Passive(x.id) BY <3>1, <3>2, ConnFacts
      <4>2. Pending(Active(x.id)) BY <2>2, <3>2 DEF Pending
      <4> QED BY <2>1, <2>3, <3>1, <4>1, <4>2 DEF Grouped, BothPending, Pending
    <3>3. CASE x = Passive(x.id)
      <4>1. Partner(x) = Active(x.id) BY <3>1, <3>3, ConnFacts
      <4>2. Pending(Passive(x.id)) BY <2>2, <3>3 DEF Pending
      <4> QED BY <2>1, <2>3, <3>1, <4>1, <4>2 DEF Grouped, BothPending, Pending
    <3> QED BY <3>1, <3>2, <3>3
  <2> QED BY <2>4, ConnFacts DEF PartnerComing, InInbox
<1> QED BY <1>1, ForwardInvariant, PTL
=============================================================================
