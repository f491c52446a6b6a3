--------------------------- MODULE SocksHandshake ---------------------------
(* socks5: ServerHandshake and ClientHandshake, byte by byte, over a       *)
(* connection that either end may close.                                   *)
EXTENDS Integers, Sequences

CONSTANTS Logins,       \* what a client may log in with: <<user, password>> as byte sequences
          Accounts,     \* the logins the authenticator knows
          Addresses,    \* addresses a client may ask for, as byte sequences
          Commands      \* the commands it may ask with

None == <<>>
CmdConnect == 1
CmdUDPAssociate == 3
LocalAddr == <<1, 127, 0, 0, 1, 4, 56>>

VARIABLES authn,        \* the server has an authenticator
          login,        \* the client's user, or None
          wish,         \* the address and the command the client asks for
          toServer, toClient,   \* bytes on their way
          clientAt, serverAt,   \* the read each end waits in, or how it ended
          asked,        \* the address and the command ServerHandshake returns
          bound,        \* the address ClientHandshake returns
          gone          \* ends that have closed the connection

socksVars == <<authn, login, wish, toServer, toClient, clientAt, serverAt, asked, bound, gone>>
socksFixed == <<authn, login, wish>>

Handshakes == [authn : BOOLEAN, login : Logins \cup {None}, wish : [addr : Addresses, cmd : Commands]]
SocksInit(H) ==
  /\ \E h \in H : authn = h.authn /\ login = h.login /\ wish = h.wish
  /\ toServer = (IF login = None THEN <<5, 1, 0>> ELSE <<5, 1, 2>>) /\ toClient = <<>>
  /\ clientAt = "method" /\ serverAt = "hello" /\ asked = [addr |-> <<>>, cmd |-> 0] /\ bound = None /\ gone = {}

\* Bytes n + 1 and on.
From(s, n) == SubSeq(s, n + 1, Len(s))
FirstOf(s, n) == SubSeq(s, 1, n)

\* ReadAddr: the length of the address at the head of s; 0 while it cannot be told, -1 for
\* a type that is not supported.
AddrLen(s) ==
  IF s = <<>> THEN 0
  ELSE CASE s[1] = 1 -> 1 + 4 + 2
         [] s[1] = 4 -> 1 + 16 + 2
         [] s[1] = 3 -> IF Len(s) < 2 THEN 0 ELSE 1 + 1 + s[2] + 2
         [] OTHER -> -1

\* An Addr is what ParseAddr makes, or has a type that ReadAddr does not know.
ASSUME SocksAssumption ==
  /\ Logins \subseteq Seq(Nat) \X Seq(Nat) /\ Commands \subseteq Nat
  /\ Addresses \subseteq Seq(Nat) \ {<<>>} /\ \A a \in Addresses : AddrLen(a) \in {Len(a), -1}

-----------------------------------------------------------------------------
(* ServerHandshake; on an error the caller closes the connection.          *)

ServerSays(rest, bytes, place) ==
  /\ toServer' = rest /\ toClient' = toClient \o bytes /\ serverAt' = place
  /\ gone' = IF place = "error" THEN gone \cup {"server"} ELSE gone
  /\ UNCHANGED <<clientAt, bound>> /\ UNCHANGED socksFixed

\* VER, NMETHODS and METHODS, which nobody looks at.
ServerHello ==
  /\ serverAt = "hello" /\ Len(toServer) >= 2 /\ Len(toServer) >= 2 + toServer[2]
  /\ ServerSays(From(toServer, 2 + toServer[2]), <<5, IF authn THEN 2 ELSE 0>>, IF authn THEN "auth" ELSE "request")
  /\ UNCHANGED asked

\* A mutant: any password will do.
VerifyUser(user, pass) == \E a \in Accounts : a[1] = user

\* Authenticator.Verify
Verify(user, pass) == <<user, pass>> \in Accounts

\* User name and password; an empty one is refused as soon as its length is read.
ServerAuth ==
  /\ serverAt = "auth" /\ Len(toServer) >= 2
  /\ LET ul == toServer[2]
         after == From(toServer, 2 + ul)
     IN IF ul = 0 THEN ServerSays(From(toServer, 2), <<1, 1>>, "error")
        ELSE /\ Len(toServer) > 2 + ul
             /\ IF after[1] = 0 THEN ServerSays(Tail(after), <<1, 1>>, "error")
                ELSE /\ Len(after) >= 1 + after[1]
                     /\ LET ok == Verify(SubSeq(toServer, 3, 2 + ul), SubSeq(after, 2, 1 + after[1]))
                        IN ServerSays(From(after, 1 + after[1]), <<1, IF ok THEN 0 ELSE 1>>,
                                      IF ok THEN "request" ELSE "error")
  /\ UNCHANGED asked

\* VER, CMD, RSV and the address.
ServerRequest ==
  /\ serverAt = "request" /\ Len(toServer) >= 4
  /\ LET cmd == toServer[2]
         n == AddrLen(From(toServer, 3))
     IN IF n = -1 THEN ServerSays(From(toServer, 4), <<>>, "error") /\ UNCHANGED asked
        ELSE /\ n > 0 /\ Len(toServer) >= 3 + n
             /\ asked' = [addr |-> SubSeq(toServer, 4, 3 + n), cmd |-> cmd]
             /\ IF cmd \in {CmdConnect, CmdUDPAssociate}
                THEN ServerSays(From(toServer, 3 + n), <<5, 0, 0>> \o LocalAddr, "done")
                ELSE ServerSays(From(toServer, 3 + n), <<>>, "error")

\* A read that cannot be satisfied any more.
ServerFails ==
  /\ serverAt \in {"hello", "auth", "request"} /\ "client" \in gone
  /\ ~ENABLED ServerHello /\ ~ENABLED ServerAuth /\ ~ENABLED ServerRequest
  /\ serverAt' = "error" /\ gone' = gone \cup {"server"}
  /\ UNCHANGED <<toServer, toClient, clientAt, asked, bound>> /\ UNCHANGED socksFixed

-----------------------------------------------------------------------------
(* ClientHandshake.                                                        *)

ClientSays(rest, bytes, place) ==
  /\ toClient' = rest /\ toServer' = toServer \o bytes /\ clientAt' = place
  /\ gone' = IF place = "error" THEN gone \cup {"client"} ELSE gone
  /\ UNCHANGED <<serverAt, asked>> /\ UNCHANGED socksFixed

Request == <<5, wish.cmd, 0>> \o wish.addr
AuthMsg == <<1, Len(login[1]) % 256>> \o login[1] \o <<Len(login[2]) % 256>> \o login[2]

\* With a user it logs in, whatever method the server chose.
ClientMethod ==
  /\ clientAt = "method" /\ Len(toClient) >= 2
  /\ IF toClient[1] # 5 THEN ClientSays(From(toClient, 2), <<>>, "error")
     ELSE IF login # None THEN ClientSays(From(toClient, 2), AuthMsg, "auth")
     ELSE IF toClient[2] # 0 THEN ClientSays(From(toClient, 2), <<>>, "error")
     ELSE ClientSays(From(toClient, 2), Request, "reply")
  /\ UNCHANGED bound

ClientAuth ==
  /\ clientAt = "auth" /\ Len(toClient) >= 2
  /\ IF toClient[2] # 0 THEN ClientSays(From(toClient, 2), <<>>, "error")
     ELSE ClientSays(From(toClient, 2), Request, "reply")
  /\ UNCHANGED bound

ClientReply ==
  /\ clientAt = "reply" /\ Len(toClient) >= 4
  /\ LET n == AddrLen(From(toClient, 3)) IN
     /\ n # 0 /\ Len(toClient) >= 3 + n
     /\ IF n = -1 THEN ClientSays(From(toClient, 4), <<>>, "error") /\ UNCHANGED bound
        ELSE ClientSays(From(toClient, 3 + n), <<>>, "done") /\ bound' = SubSeq(toClient, 4, 3 + n)

ClientFails ==
  /\ clientAt \in {"method", "auth", "reply"} /\ "server" \in gone
  /\ ~ENABLED ClientMethod /\ ~ENABLED ClientAuth /\ ~ENABLED ClientReply
  /\ clientAt' = "error" /\ gone' = gone \cup {"client"}
  /\ UNCHANGED <<toServer, toClient, serverAt, asked, bound>> /\ UNCHANGED socksFixed

\* The client may give up while it waits.
ClientLeaves ==
  /\ clientAt \in {"method", "auth", "reply"} /\ "client" \notin gone
  /\ clientAt' = "left" /\ gone' = gone \cup {"client"}
  /\ UNCHANGED <<toServer, toClient, serverAt, asked, bound>> /\ UNCHANGED socksFixed

SocksNext == ServerHello \/ ServerAuth \/ ServerRequest \/ ServerFails
             \/ ClientMethod \/ ClientAuth \/ ClientReply \/ ClientFails \/ ClientLeaves

-----------------------------------------------------------------------------
(* Property.                                                               *)

\* The two ends understand each other: when both have succeeded, the server has been
\* asked for what the client wished, by a client that the authenticator (if any) knows,
\* and no byte of the handshake is left to be taken for data; a server that succeeds
\* was never fooled; and nobody waits for an answer that will not come.  A client that
\* logs in although the server has no authenticator is not understood: it sends its
\* login all the same, and the server reads it as a request.
HandshakeIsUnderstood ==
  (authn \/ login = None) =>
    /\ serverAt = "done" => asked = wish /\ (authn => login \in Accounts) /\ toServer = <<>>
    /\ clientAt = "done" => serverAt = "done" /\ bound = LocalAddr /\ toClient = <<>>
    /\ ~(serverAt \in {"hello", "auth", "request"} /\ clientAt \in {"method", "auth", "reply"}
         /\ toServer = <<>> /\ toClient = <<>>)
=============================================================================
