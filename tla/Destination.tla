---------------------------- MODULE Destination ----------------------------
(* The journey of a destination: from the request of an application through *)
(* the inbound listeners (socks5, inbound), the metadata (ctx, the         *)
(* dispatcher), the outbound encodings (vless, wless, mux) and the server  *)
(* that reads them, to the address that is dialled.                        *)
(*                                                                         *)
(* A name is its length, an IP address the form it is held in; indices     *)
(* that the code computes in a byte are computed modulo 256.               *)
EXTENDS Integers

CONSTANTS NameLengths,   \* lengths of host names to try
          Ports          \* ports to try

\* Lengths and ports are unsigned.
ASSUME DestinationAssumption == NameLengths \subseteq Nat /\ Ports \subseteq Nat

VARIABLE trip            \* [dst, via, out, mux, at]: a destination and its way

\* What the application asks for; "text4" and "text6" are IP addresses in text, "special"
\* is a name that stands for a mux session (IsSpecialFqdn).
Asked == [kind : {"special"}, len : {20}, port : Ports] \cup
         [kind : {"name"}, len : NameLengths, port : Ports]
         \cup [kind : {"ip4"}, len : {4}, port : Ports] \cup [kind : {"ip6"}, len : {16}, port : Ports]
         \cup [kind : {"text4"}, len : {9}, port : Ports] \cup [kind : {"text6"}, len : {19}, port : Ports]

Byte(n) == n % 256
Digits(port) == IF port < 10 THEN 1 ELSE IF port < 100 THEN 2 ELSE IF port < 1000 THEN 3
                ELSE IF port < 10000 THEN 4 ELSE 5

Crash == [kind |-> "crash"]      \* a slice out of range
Refused == [kind |-> "refused"]  \* an error, or nil
Mux == [kind |-> "mux"]          \* the connection becomes a mux session
IsText(kind) == kind \in {"name", "special", "text4", "text6"}
IsSpecialFqdn(host) == host = "special"

-----------------------------------------------------------------------------
(* socks5.Addr: [kind, n, port], n the length byte of a name.              *)

\* net.ParseIP and socks5.ParseAddr: addresses in text are recognised.
Recognised(kind) == CASE kind = "text4" -> "ip4" [] kind = "text6" -> "ip6" [] OTHER -> kind
ParseAddr(dst) ==
  IF dst.kind = "name" /\ dst.len > 255 THEN Refused
  ELSE [kind |-> Recognised(dst.kind), n |-> dst.len, port |-> dst.port]

\* ReadAddr, ReadAddr0 and SplitAddr compute with 16 bits and more: what the client
\* wrote is what is read, as long as its length fits the one byte.
ReadAddr(dst) == [kind |-> dst.kind, n |-> Byte(dst.len), port |-> dst.port]

\* inbound.parseSocksAddr: the place of the port is computed in a byte.
ParseSocksAddr(a) ==
  IF ~IsText(a.kind) THEN [host |-> "", len |-> 0, ip |-> a.kind, port |-> a.port]
  ELSE LET end == Byte(2 + a.n) IN
       IF end < 2 THEN Crash
       ELSE [host |-> IF a.n = 0 THEN "" ELSE a.kind, len |-> a.n, ip |-> "none",
             port |-> IF Byte(end + 1) = end + 1 THEN a.port ELSE (a.port \div 256) * 256 + 3]

\* inbound.parseHTTPAddr: text, of any length; DstIP is set beside it.
ParseHTTPAddr(dst) == [host |-> CASE dst.kind = "ip4" -> "text4" [] dst.kind = "ip6" -> "text6" [] OTHER -> dst.kind,
                       len |-> dst.len, ip |-> "none", port |-> dst.port]

\* NewSocket, NewHTTP and NewHTTPS: what a listener makes of a request.
NewSocket(dst) == ParseSocksAddr(ReadAddr(dst))
NewHTTP(dst) == LET a == ParseAddr(dst) IN IF a = Refused THEN Refused ELSE ParseSocksAddr(a)
NewHTTPS(dst) == ParseHTTPAddr(dst)

Inbound(via, dst) == CASE via = "socks" -> NewSocket(dst) [] via = "http" -> NewHTTP(dst) [] via = "connect" -> NewHTTPS(dst)

-----------------------------------------------------------------------------
(* Metadata: [host, len, ip, port]; an IPv4 address is held in 4 or 16 bytes. *)

Valid(md) == md.host # "" \/ md.ip # "none"

\* preHandleMetadata: net.ParseIP gives an IPv4 address in its 16 bytes.
PreHandle(md) ==
  CASE md.host = "text4" -> [md EXCEPT !.ip = "ip4in16", !.host = ""]
    [] md.host = "text6" -> [md EXCEPT !.ip = "ip6", !.host = ""]
    [] OTHER -> md

\* RemoteAddress: the host, or the IP address in text.
RemoteAddress(md) ==
  [kind |-> IF md.host # "" THEN md.host 
            ELSE CASE md.ip \in {"ip4", "ip4in16"} -> "text4" [] md.ip = "ip6" -> "text6" [] OTHER -> md.ip,
   len |-> IF md.host # "" THEN md.len ELSE IF md.ip = "ip6" THEN 19 ELSE 9, port |-> md.port]

-----------------------------------------------------------------------------
(* The outbound encodings and the server's decodings.                      *)

\* A mutant: the port is sent in one byte.
ParseVlessAddrByte(md) == [kind |-> IF md.host # "" THEN md.host ELSE md.ip, n |-> Byte(md.len), port |-> Byte(md.port)]

\* parseVlessAddr copies the first bytes of DstIP: those of the 16 byte form of an
\* IPv4 address are zero.
ParseVlessAddr(md) ==
  [kind |-> IF md.host # "" THEN md.host ELSE IF md.ip = "ip4in16" THEN "zero4" ELSE md.ip,
   n |-> Byte(md.len), port |-> md.port]

\* vless.ReadAddr: the name is read to b[2:2+domainLength], computed in a byte.
VlessReadAddr(a) == IF IsText(a.kind) /\ Byte(2 + a.n) < 2 THEN Crash ELSE a

\* wless: the length of "host:port" in one byte, the text after it.  When it wraps,
\* only a part of the text is read.
WlessSend(r) == [kind |-> r.kind, text |-> r.len + 1 + Digits(r.port) + (IF r.kind = "text6" THEN 2 ELSE 0),
                 n |-> r.len, port |-> r.port]
WlessReadAddr(m) == IF Byte(m.text) # m.text THEN Refused ELSE [kind |-> m.kind, n |-> Byte(m.n), port |-> m.port]

\* mux: EncodeStreamRequest sends text, readAddrPort reads it back with int lengths.
EncodeStreamRequest(r) == [kind |-> r.kind, n |-> Byte(r.len), port |-> r.port]
ReadAddrPort(a) == [kind |-> a.kind, len |-> a.n, port |-> a.port]

\* An address that was read becomes metadata; the special names open a mux session, and
\* the RemoteAddress of the others is dialled.
Dialled(a) ==
  IF a \in {Crash, Refused} THEN a
  ELSE LET md == ParseSocksAddr(a) IN
       IF md = Crash THEN Crash ELSE IF IsSpecialFqdn(md.host) THEN Mux ELSE RemoteAddress(md)

\* Who takes the connection: the server, or the agent it forwards to.  Both read the
\* address in the encoding that the proto header names.
ReadProtoAddr(proto, msg) == IF proto = "vless" THEN VlessReadAddr(msg) ELSE WlessReadAddr(msg)
DirectConnect(proto, msg) == Dialled(ReadProtoAddr(proto, msg))
ConnectLocal(proto, msg) == Dialled(ReadProtoAddr(proto, msg))
Serve(at, proto, msg) == IF at = "server" THEN DirectConnect(proto, msg) ELSE ConnectLocal(proto, msg)

\* Clients that come to the server's own ports: Server.SS and Server.TCPVless.
SS(dst) == Dialled(ReadAddr(dst))
TCPVless(dst) == Dialled(VlessReadAddr(ReadAddr(dst)))

\* The carrier of a mux session is a connection to the special name.
Carrier == [host |-> "special", len |-> 20, ip |-> "none", port |-> 444]
OverMux(carried, md) == IF carried = Mux THEN ReadAddrPort(EncodeStreamRequest(RemoteAddress(md))) ELSE Refused

WlessDispatcher(mux, at, md) ==
  IF mux THEN OverMux(Serve(at, "wless", WlessSend(RemoteAddress(Carrier))), md)
  ELSE Serve(at, "wless", WlessSend(RemoteAddress(md)))
VlessDispatcher(mux, at, md) ==
  IF mux THEN OverMux(Serve(at, "vless", ParseVlessAddr(Carrier)), md)
  ELSE Serve(at, "vless", ParseVlessAddr(md))

Outbound(t, md) ==
  CASE t.out = "direct" -> RemoteAddress(md)
    [] t.out = "wless" -> WlessDispatcher(t.mux, t.at, md)
    [] t.out = "vless" -> VlessDispatcher(t.mux, t.at, md)

\* handleTCPConn, unless the client comes to a port of the server.
Journey(t) ==
  IF t.via = "ss" THEN SS(t.dst)
  ELSE IF t.via = "vless" THEN TCPVless(t.dst)
  ELSE LET md == Inbound(t.via, t.dst) IN
       IF md \in {Crash, Refused} THEN md
       ELSE IF ~Valid(md) THEN Refused
       ELSE Outbound(t, PreHandle(md))

Trips == {t \in [dst : Asked, via : {"socks", "http", "connect", "ss", "vless"}, out : {"direct", "vless", "wless"},
                 mux : BOOLEAN, at : {"server", "agent"}] :
            t.via \in {"ss", "vless"} \/ t.out = "direct" => ~t.mux /\ t.at = "server"}
TripInit(T) == trip \in T

-----------------------------------------------------------------------------
(* Property.                                                               *)

\* The same host in text.
Text(dst) == [kind |-> CASE dst.kind = "ip4" -> "text4" [] dst.kind = "ip6" -> "text6" [] OTHER -> dst.kind,
              len |-> CASE dst.kind = "ip4" -> 9 [] dst.kind = "ip6" -> 19 [] OTHER -> dst.len, port |-> dst.port]

\* An IPv4 address that comes in text and leaves through vless is sent as 0.0.0.0.
LosesTheAddress(t) ==
  /\ t.out = "vless" /\ ~t.mux
  /\ <<t.dst.kind, t.via>> \in {<<"text4", "socks">>, <<"text4", "connect">>, <<"ip4", "connect">>}

\* What is dialled at the end is the host and the port that were asked for: names up
\* to 252 bytes survive every combination of inbound and outbound, plain or through a
\* mux session, each with lengths of one byte.  wless has room for 255 bytes of
\* "host:port"; the special names are dialled only where nobody looks for them.
DialsWhatWasAsked ==
  (/\ trip.dst.len \in 1 .. 252 /\ ~LosesTheAddress(trip)
   /\ trip.via \in {"socks", "http", "connect"} /\ trip.out = "wless" /\ ~trip.mux
      => trip.dst.len + 1 + Digits(trip.dst.port) <= 255)
  => IF trip.dst.kind = "special" /\ ~trip.mux /\ (trip.out # "direct" \/ trip.via \in {"ss", "vless"})
     THEN Journey(trip) = Mux
     ELSE Journey(trip) = Text(trip.dst)
=============================================================================
