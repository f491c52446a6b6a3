---------------------------- MODULE PartsProofs ----------------------------
(* Proofs about parts that work by themselves: the way of a destination,   *)
(* for names of any length and any port, the SOCKS handshake, for any      *)
(* logins, accounts, addresses and commands, the LRU cache, for any keys,  *)
(* sizes and ages, the padded writer, for schemes that fit their lengths,  *)
(* shadowsocks connections, for any writes and reads, the disguises, for   *)
(* any number of writes and of pieces that come back, and the records of   *)
(* ssr, for any sizes of writes and reads, any heads and any padding.      *)
EXTENDS Destination, SocksHandshake, LruCache, Padding, Shadow, Obfs, SsrProtocol,
        SequenceTheorems, FiniteSetTheorems, WellFoundedInduction, TLAPS

-----------------------------------------------------------------------------
(* The way of a destination.                                               *)

\* What is asked for has one of six kinds, each with its length.
LEMMA AskedKinds ==
  ASSUME NEW dst \in Asked
  PROVE  /\ dst.kind \in {"special", "name", "ip4", "ip6", "text4", "text6"}
         /\ dst.len \in Nat /\ dst.port \in Nat
         /\ dst.kind = "special" => dst.len = 20
         /\ dst.kind \in {"ip4", "text4"} => dst.len \in {4, 9} /\ (dst.kind = "text4" => dst.len = 9)
         /\ dst.kind \in {"ip6", "text6"} => dst.len \in {16, 19} /\ (dst.kind = "text6" => dst.len = 19)
<1>1. dst.port \in Ports
  BY DEF Asked
<1>2. \/ dst.kind = "special" /\ dst.len = 20
      \/ dst.kind = "name" /\ dst.len \in NameLengths
      \/ dst.kind = "ip4" /\ dst.len = 4
      \/ dst.kind = "ip6" /\ dst.len = 16
      \/ dst.kind = "text4" /\ dst.len = 9
      \/ dst.kind = "text6" /\ dst.len = 19
  BY DEF Asked
<1>3. \A x : (x \in Ports => x \in Nat) /\ (x \in NameLengths => x \in Nat)
  BY DestinationAssumption
<1>4. dst.len \in Nat
  BY <1>2, <1>3
<1>5. dst.port \in Nat
  BY <1>1, <1>3
<1>6. dst.kind \in {"special", "name", "ip4", "ip6", "text4", "text6"}
  BY <1>2
<1>7. dst.kind = "special" => dst.len = 20
  BY <1>2
<1> QED
  BY <1>2, <1>4, <1>5, <1>6, <1>7

\* Metadata is neither a crash nor a refusal: those have no host.
LEMMA MetadataIsNoError ==
  ASSUME NEW h, NEW l, NEW i, NEW p
  PROVE  [host |-> h, len |-> l, ip |-> i, port |-> p] \notin {Crash, Refused}
<1> DEFINE md == [host |-> h, len |-> l, ip |-> i, port |-> p]
<1>1. "host" \in DOMAIN md
  OBVIOUS
<1>2. "host" \notin DOMAIN Crash /\ "host" \notin DOMAIN Refused
  BY DEF Crash, Refused
<1> QED
  BY <1>1, <1>2

\* Nor is an address that was read.
LEMMA AddressIsNoError ==
  ASSUME NEW k, NEW n, NEW p
  PROVE  [kind |-> k, n |-> n, port |-> p] \notin {Crash, Refused}
<1> DEFINE a == [kind |-> k, n |-> n, port |-> p]
<1>1. "port" \in DOMAIN a
  OBVIOUS
<1>2. "port" \notin DOMAIN Crash /\ "port" \notin DOMAIN Refused
  BY DEF Crash, Refused
<1> QED
  BY <1>1, <1>2

\* parseSocksAddr keeps a name of up to 252 bytes.
LEMMA ParseSocksAddrName ==
  ASSUME NEW k \in {"special", "name", "text4", "text6"}, NEW n \in Nat, n >= 1, n <= 252, NEW p
  PROVE  ParseSocksAddr([kind |-> k, n |-> n, port |-> p]) =
           [host |-> k, len |-> n, ip |-> "none", port |-> p]
<1> DEFINE a == [kind |-> k, n |-> n, port |-> p]
<1>1. a.kind = k /\ a.n = n /\ a.port = p /\ IsText(k)
  BY DEF IsText
<1>2. Byte(2 + n) = 2 + n /\ Byte(2 + n + 1) = 2 + n + 1 /\ ~(2 + n < 2) /\ n # 0
  BY DEF Byte
<1> HIDE DEF a
<1> QED
  BY <1>1, <1>2 DEF ParseSocksAddr, a

\* parseSocksAddr keeps an IP address.
LEMMA ParseSocksAddrIP ==
  ASSUME NEW k \in {"ip4", "ip6"}, NEW n, NEW p
  PROVE  ParseSocksAddr([kind |-> k, n |-> n, port |-> p]) =
           [host |-> "", len |-> 0, ip |-> k, port |-> p]
  BY DEF ParseSocksAddr, IsText

\* The metadata holds the host that was asked for: a name as it is, an IP address in
\* one of its forms.
Carries(md, dst) ==
  /\ md.port = dst.port
  /\ dst.kind \in {"name", "special"} => md.host = dst.kind /\ md.len = dst.len
  /\ dst.kind \in {"ip4", "text4"} => md.host = "" /\ md.ip \in {"ip4", "ip4in16"}
  /\ dst.kind \in {"ip6", "text6"} => md.host = "" /\ md.ip = "ip6"

\* A listener has taken the request: `md' is its metadata.
Taken(md, dst) == md \notin {Crash, Refused} /\ Valid(md) /\ Carries(PreHandle(md), dst)

\* Metadata with the host that was asked for, in its own kind or in text.
LEMMA TakenAsHost ==
  ASSUME NEW dst \in Asked, NEW h \in {"special", "name", "text4", "text6"},
         dst.kind \in {"name", "special"} => h = dst.kind,
         dst.kind \in {"ip4", "text4"} => h = "text4",
         dst.kind \in {"ip6", "text6"} => h = "text6"
  PROVE  Taken([host |-> h, len |-> dst.len, ip |-> "none", port |-> dst.port], dst)
<1> DEFINE md == [host |-> h, len |-> dst.len, ip |-> "none", port |-> dst.port]
<1>1. md \notin {Crash, Refused}
  BY MetadataIsNoError
<1>2. Valid(md)
  BY DEF Valid
<1>3. dst.kind \in {"special", "name", "ip4", "ip6", "text4", "text6"}
  BY AskedKinds
<1>4. CASE h \in {"special", "name"}
  <2>1. PreHandle(md) = md
    BY <1>4 DEF PreHandle
  <2>2. Carries(md, dst)
    BY <1>3, <1>4 DEF Carries
  <2> QED
    BY <1>1, <1>2, <2>1, <2>2 DEF Taken
<1>5. CASE h = "text4"
  <2>1. PreHandle(md) = [host |-> "", len |-> dst.len, ip |-> "ip4in16", port |-> dst.port]
    BY <1>5 DEF PreHandle
  <2>2. Carries([host |-> "", len |-> dst.len, ip |-> "ip4in16", port |-> dst.port], dst)
    BY <1>3, <1>5 DEF Carries
  <2> QED
    BY <1>1, <1>2, <2>1, <2>2 DEF Taken
<1>6. CASE h = "text6"
  <2>1. PreHandle(md) = [host |-> "", len |-> dst.len, ip |-> "ip6", port |-> dst.port]
    BY <1>6 DEF PreHandle
  <2>2. Carries([host |-> "", len |-> dst.len, ip |-> "ip6", port |-> dst.port], dst)
    BY <1>3, <1>6 DEF Carries
  <2> QED
    BY <1>1, <1>2, <2>1, <2>2 DEF Taken
<1> QED
  BY <1>4, <1>5, <1>6

\* Metadata with an IP address.
LEMMA TakenAsIP ==
  ASSUME NEW dst \in Asked, NEW i \in {"ip4", "ip6"}, dst.kind \notin {"name", "special"},
         dst.kind \in {"ip4", "text4"} => i = "ip4",
         dst.kind \in {"ip6", "text6"} => i = "ip6"
  PROVE  /\ Taken([host |-> "", len |-> 0, ip |-> i, port |-> dst.port], dst)
         /\ PreHandle([host |-> "", len |-> 0, ip |-> i, port |-> dst.port]).ip = i
<1> DEFINE md == [host |-> "", len |-> 0, ip |-> i, port |-> dst.port]
<1>1. md \notin {Crash, Refused}
  BY MetadataIsNoError
<1>2. Valid(md)
  BY DEF Valid
<1>3. PreHandle(md) = md
  BY DEF PreHandle
<1>4. Carries(md, dst)
  BY DEF Carries
<1>5. md.ip = i
  OBVIOUS
<1>6. PreHandle(md).ip = i
  BY <1>3, <1>5
<1>7. Taken(md, dst)
  BY <1>1, <1>2, <1>3, <1>4 DEF Taken
<1> QED
  BY <1>6, <1>7

\* The listener of SOCKS keeps what was asked for; text is recognised later.
LEMMA SocksTakes ==
  ASSUME NEW dst \in Asked, dst.len >= 1, dst.len <= 252
  PROVE  /\ Taken(NewSocket(dst), dst)
         /\ dst.kind = "ip4" => PreHandle(NewSocket(dst)).ip = "ip4"
<1>1. dst.kind \in {"special", "name", "ip4", "ip6", "text4", "text6"} /\ dst.len \in Nat
  BY AskedKinds
<1>2. Byte(dst.len) = dst.len
  BY <1>1 DEF Byte
<1>3. NewSocket(dst) = ParseSocksAddr([kind |-> dst.kind, n |-> dst.len, port |-> dst.port])
  BY <1>2 DEF NewSocket, ReadAddr
<1>4. CASE dst.kind \in {"special", "name", "text4", "text6"}
  <2>1. NewSocket(dst) = [host |-> dst.kind, len |-> dst.len, ip |-> "none", port |-> dst.port]
    BY <1>1, <1>3, <1>4, ParseSocksAddrName
  <2> QED
    BY <1>4, <2>1, TakenAsHost
<1>5. CASE dst.kind \in {"ip4", "ip6"}
  <2>1. NewSocket(dst) = [host |-> "", len |-> 0, ip |-> dst.kind, port |-> dst.port]
    BY <1>3, <1>5, ParseSocksAddrIP
  <2> QED
    BY <1>5, <2>1, TakenAsIP
<1> QED
  BY <1>1, <1>4, <1>5

\* The listener of HTTP recognises text at once.
LEMMA HTTPTakes ==
  ASSUME NEW dst \in Asked, dst.len >= 1, dst.len <= 252
  PROVE  /\ Taken(NewHTTP(dst), dst)
         /\ dst.kind \in {"ip4", "text4"} => PreHandle(NewHTTP(dst)).ip = "ip4"
<1>1. /\ dst.kind \in {"special", "name", "ip4", "ip6", "text4", "text6"} /\ dst.len \in Nat
      /\ ~(dst.len > 255)
  BY AskedKinds
<1> DEFINE k == Recognised(dst.kind)
<1>2. ParseAddr(dst) = [kind |-> k, n |-> dst.len, port |-> dst.port]
  BY <1>1 DEF ParseAddr
<1>3. NewHTTP(dst) = ParseSocksAddr([kind |-> k, n |-> dst.len, port |-> dst.port])
  BY <1>2, AddressIsNoError DEF NewHTTP
<1>4. CASE dst.kind \in {"special", "name"}
  <2>1. k = dst.kind
    BY <1>4 DEF Recognised
  <2>2. NewHTTP(dst) = [host |-> dst.kind, len |-> dst.len, ip |-> "none", port |-> dst.port]
    BY <1>1, <1>3, <1>4, <2>1, ParseSocksAddrName
  <2> QED
    BY <1>4, <2>2, TakenAsHost
<1>5. CASE dst.kind \in {"ip4", "text4"}
  <2>1. k = "ip4"
    BY <1>5 DEF Recognised
  <2>2. NewHTTP(dst) = [host |-> "", len |-> 0, ip |-> "ip4", port |-> dst.port]
    BY <1>3, <2>1, ParseSocksAddrIP
  <2> QED
    BY <1>5, <2>2, TakenAsIP
<1>6. CASE dst.kind \in {"ip6", "text6"}
  <2>1. k = "ip6"
    BY <1>6 DEF Recognised
  <2>2. NewHTTP(dst) = [host |-> "", len |-> 0, ip |-> "ip6", port |-> dst.port]
    BY <1>3, <2>1, ParseSocksAddrIP
  <2> QED
    BY <1>6, <2>2, TakenAsIP
<1> QED
  BY <1>1, <1>4, <1>5, <1>6

\* The listener of CONNECT holds everything in text.
LEMMA HTTPSTakes ==
  ASSUME NEW dst \in Asked
  PROVE  Taken(NewHTTPS(dst), dst)
<1>1. dst.kind \in {"special", "name", "ip4", "ip6", "text4", "text6"}
  BY AskedKinds
<1> DEFINE h == CASE dst.kind = "ip4" -> "text4" [] dst.kind = "ip6" -> "text6" [] OTHER -> dst.kind
<1>2. /\ h \in {"special", "name", "text4", "text6"}
      /\ dst.kind \in {"name", "special"} => h = dst.kind
      /\ dst.kind \in {"ip4", "text4"} => h = "text4"
      /\ dst.kind \in {"ip6", "text6"} => h = "text6"
  BY <1>1
<1>3. NewHTTPS(dst) = [host |-> h, len |-> dst.len, ip |-> "none", port |-> dst.port]
  BY DEF NewHTTPS, ParseHTTPAddr
<1> HIDE DEF h
<1> QED
  BY <1>2, <1>3, TakenAsHost

\* The address of such metadata is the text of what was asked for.
LEMMA RemoteAddressIsText ==
  ASSUME NEW dst \in Asked, NEW md, Carries(md, dst)
  PROVE  RemoteAddress(md) = Text(dst)
<1>1. dst.kind \in {"special", "name", "ip4", "ip6", "text4", "text6"}
  BY AskedKinds
<1>2. CASE dst.kind \in {"special", "name"}
  BY <1>2 DEF Carries, RemoteAddress, Text
<1>3. CASE dst.kind \in {"ip4", "text4"}
  BY <1>3, AskedKinds DEF Carries, RemoteAddress, Text
<1>4. CASE dst.kind \in {"ip6", "text6"}
  BY <1>4, AskedKinds DEF Carries, RemoteAddress, Text
<1> QED
  BY <1>1, <1>2, <1>3, <1>4

\* What the server dials for an address of text that it has read.
LEMMA DialledText ==
  ASSUME NEW k \in {"special", "name", "text4", "text6"}, NEW n \in Nat, n >= 1, n <= 252, NEW p
  PROVE  Dialled([kind |-> k, n |-> n, port |-> p]) =
           IF k = "special" THEN Mux ELSE [kind |-> k, len |-> n, port |-> p]
<1> DEFINE a == [kind |-> k, n |-> n, port |-> p]
           md == [host |-> k, len |-> n, ip |-> "none", port |-> p]
<1>1. a \notin {Crash, Refused}
  BY AddressIsNoError
<1>2. ParseSocksAddr(a) = md /\ md # Crash
  BY ParseSocksAddrName, MetadataIsNoError
<1>3. md.host = k
  OBVIOUS
<1>4. RemoteAddress(md) = [kind |-> k, len |-> n, port |-> p]
  BY DEF RemoteAddress
<1> HIDE DEF a, md
<1>5. Dialled(a) = IF IsSpecialFqdn(md.host) THEN Mux ELSE RemoteAddress(md)
  BY <1>1, <1>2 DEF Dialled
<1> QED
  BY <1>3, <1>4, <1>5 DEF IsSpecialFqdn, a

\* And for an IP address.
LEMMA DialledIP ==
  ASSUME NEW k \in {"ip4", "ip6"}, NEW n, NEW p
  PROVE  Dialled([kind |-> k, n |-> n, port |-> p]) =
           IF k = "ip4" THEN [kind |-> "text4", len |-> 9, port |-> p]
           ELSE [kind |-> "text6", len |-> 19, port |-> p]
<1> DEFINE a == [kind |-> k, n |-> n, port |-> p]
           md == [host |-> "", len |-> 0, ip |-> k, port |-> p]
<1>1. a \notin {Crash, Refused}
  BY AddressIsNoError
<1>2. ParseSocksAddr(a) = md /\ md # Crash
  BY ParseSocksAddrIP, MetadataIsNoError
<1>3. md.host = ""
  OBVIOUS
<1>4. RemoteAddress(md) = IF k = "ip4" THEN [kind |-> "text4", len |-> 9, port |-> p]
                          ELSE [kind |-> "text6", len |-> 19, port |-> p]
  BY DEF RemoteAddress
<1> HIDE DEF a, md
<1>5. Dialled(a) = IF IsSpecialFqdn(md.host) THEN Mux ELSE RemoteAddress(md)
  BY <1>1, <1>2 DEF Dialled
<1> QED
  BY <1>3, <1>4, <1>5 DEF IsSpecialFqdn, a

\* Whoever serves the connection dials what it reads.
LEMMA ServeDials ==
  ASSUME NEW at, NEW inbound, NEW msg
  PROVE  Serve(at, inbound, msg) = Dialled(ReadProtoAddr(inbound, msg))
  BY DEF Serve, DirectConnect, ConnectLocal

\* What a destination is served with: a mux session for the special names, and its
\* text for the others.
Served(dst) == IF dst.kind = "special" THEN Mux ELSE Text(dst)

\* The text of a destination has the length of a name.
LEMMA TextOf ==
  ASSUME NEW dst \in Asked, dst.len >= 1, dst.len <= 252
  PROVE  /\ Text(dst).kind \in {"special", "name", "text4", "text6"}
         /\ Text(dst).kind = "special" <=> dst.kind = "special"
         /\ Text(dst).kind = "text6" => Text(dst).len = 19
         /\ Text(dst).len \in Nat /\ Text(dst).len >= 1 /\ Text(dst).len <= 252
         /\ Text(dst).kind \in {"special", "name"} => Text(dst).len = dst.len
         /\ Text(dst).kind = "text4" => Text(dst).len = 9
         /\ Text(dst).port = dst.port
         /\ Text(dst) = [kind |-> Text(dst).kind, len |-> Text(dst).len, port |-> dst.port]
<1>1. dst.kind \in {"special", "name", "ip4", "ip6", "text4", "text6"} /\ dst.len \in Nat
  BY AskedKinds
<1>2. CASE dst.kind \in {"special", "name"}
  BY <1>1, <1>2 DEF Text
<1>3. CASE dst.kind \in {"ip4", "text4"}
  BY <1>3, AskedKinds DEF Text
<1>4. CASE dst.kind \in {"ip6", "text6"}
  BY <1>4, AskedKinds DEF Text
<1> QED
  BY <1>1, <1>2, <1>3, <1>4

\* A port has at most five digits.
LEMMA DigitsOf ==
  ASSUME NEW p
  PROVE  Digits(p) \in Nat /\ Digits(p) >= 1 /\ Digits(p) <= 5
  BY DEF Digits

\* wless has room for the text.
LEMMA WlessServes ==
  ASSUME NEW at, NEW r, NEW k \in {"special", "name", "text4", "text6"}, NEW n \in Nat, NEW p,
         r = [kind |-> k, len |-> n, port |-> p], n >= 1, n <= 252,
         n + 1 + Digits(p) + (IF k = "text6" THEN 2 ELSE 0) <= 255
  PROVE  Serve(at, "wless", WlessSend(r)) = IF k = "special" THEN Mux ELSE r
<1> DEFINE m == WlessSend(r)
<1>1. m = [kind |-> k, text |-> n + 1 + Digits(p) + (IF k = "text6" THEN 2 ELSE 0), n |-> n, port |-> p]
  BY DEF WlessSend
<1>2. m.kind = k /\ m.n = n /\ m.port = p /\ m.text = n + 1 + Digits(p) + (IF k = "text6" THEN 2 ELSE 0)
  BY <1>1
<1>3. Byte(m.text) = m.text /\ Byte(n) = n
  BY <1>2, DigitsOf DEF Byte
<1> HIDE DEF m
<1>4. ReadProtoAddr("wless", m) = [kind |-> k, n |-> n, port |-> p]
  BY <1>2, <1>3 DEF ReadProtoAddr, WlessReadAddr
<1> QED
  BY <1>4, ServeDials, DialledText DEF m

\* vless sends a name with its length, and the bytes of an IP address.
LEMMA VlessServes ==
  ASSUME NEW at, NEW dst \in Asked, dst.len >= 1, dst.len <= 252, NEW md, Carries(md, dst),
         dst.kind \in {"ip4", "text4"} => md.ip = "ip4"
  PROVE  Serve(at, "vless", ParseVlessAddr(md)) = Served(dst)
<1>1. dst.kind \in {"special", "name", "ip4", "ip6", "text4", "text6"} /\ dst.len \in Nat
  BY AskedKinds
<1>2. CASE dst.kind \in {"special", "name"}
  <2>1. Byte(dst.len) = dst.len /\ ~(Byte(2 + dst.len) < 2)
    BY <1>1 DEF Byte
  <2> DEFINE a == [kind |-> dst.kind, n |-> dst.len, port |-> dst.port]
  <2>2. ParseVlessAddr(md) = a
    <3>1. md.host = dst.kind /\ md.len = dst.len /\ md.port = dst.port /\ md.host # ""
      BY <1>2 DEF Carries
    <3> QED
      BY <2>1, <3>1 DEF ParseVlessAddr
  <2>3. a.n = dst.len
    OBVIOUS
  <2>4. Dialled(a) = Served(dst)
    BY <1>1, <1>2, DialledText DEF Served, Text
  <2> HIDE DEF a
  <2>5. ReadProtoAddr("vless", a) = a
    BY <2>1, <2>3 DEF ReadProtoAddr, VlessReadAddr
  <2> QED
    BY <2>2, <2>4, <2>5, ServeDials
<1>3. CASE dst.kind \in {"ip4", "ip6", "text4", "text6"}
  <2> DEFINE k == IF dst.kind \in {"ip4", "text4"} THEN "ip4" ELSE "ip6"
             a == [kind |-> k, n |-> Byte(md.len), port |-> dst.port]
  <2>1. ParseVlessAddr(md) = a
    BY <1>3 DEF ParseVlessAddr, Carries
  <2>2. a.kind \in {"ip4", "ip6"}
    OBVIOUS
  <2>3. Dialled(a) = Text(dst)
    <3>1. CASE dst.kind \in {"ip4", "text4"}
      <4>1. a = [kind |-> "ip4", n |-> Byte(md.len), port |-> dst.port]
        BY <3>1
      <4>2. Text(dst) = [kind |-> "text4", len |-> 9, port |-> dst.port]
        BY <3>1, AskedKinds DEF Text
      <4> QED
        BY <4>1, <4>2, DialledIP
    <3>2. CASE dst.kind \in {"ip6", "text6"}
      <4>1. a = [kind |-> "ip6", n |-> Byte(md.len), port |-> dst.port]
        BY <3>2
      <4>2. Text(dst) = [kind |-> "text6", len |-> 19, port |-> dst.port]
        BY <3>2, AskedKinds DEF Text
      <4> QED
        BY <4>1, <4>2, DialledIP
    <3> QED
      BY <1>3, <3>1, <3>2
  <2> HIDE DEF a
  <2>4. ReadProtoAddr("vless", a) = a
    BY <2>2 DEF ReadProtoAddr, VlessReadAddr, IsText
  <2> QED
    BY <1>3, <2>1, <2>3, <2>4, ServeDials DEF Served
<1> QED
  BY <1>1, <1>2, <1>3

\* The carrier of a mux session becomes one, in both encodings.
LEMMA CarrierIsMux ==
  ASSUME NEW at
  PROVE  /\ Serve(at, "wless", WlessSend(RemoteAddress(Carrier))) = Mux
         /\ Serve(at, "vless", ParseVlessAddr(Carrier)) = Mux
<1>1. RemoteAddress(Carrier) = [kind |-> "special", len |-> 20, port |-> 444]
  BY DEF RemoteAddress, Carrier
<1>2. Serve(at, "wless", WlessSend(RemoteAddress(Carrier))) = Mux
  BY <1>1, WlessServes, DigitsOf
<1>3. ParseVlessAddr(Carrier) = [kind |-> "special", n |-> 20, port |-> 444]
  BY DEF ParseVlessAddr, Carrier, Byte
<1>4. ReadProtoAddr("vless", [kind |-> "special", n |-> 20, port |-> 444])
        = [kind |-> "special", n |-> 20, port |-> 444]
  BY DEF ReadProtoAddr, VlessReadAddr, Byte
<1>5. Dialled([kind |-> "special", n |-> 20, port |-> 444]) = Mux
  BY DialledText
<1> QED
  BY <1>2, <1>3, <1>4, <1>5, ServeDials

\* A stream of a mux session carries the text of the destination.
LEMMA OverMuxIsText ==
  ASSUME NEW dst \in Asked, dst.len >= 1, dst.len <= 252, NEW md, Carries(md, dst)
  PROVE  OverMux(Mux, md) = Text(dst)
<1> DEFINE k == Text(dst).kind
           n == Text(dst).len
<1>1. RemoteAddress(md) = [kind |-> k, len |-> n, port |-> dst.port]
  BY RemoteAddressIsText, TextOf
<1>2. n \in Nat /\ n <= 252
  BY TextOf
<1>3. Text(dst) = [kind |-> k, len |-> n, port |-> dst.port]
  BY TextOf
<1> HIDE DEF k, n
<1>4. Byte(n) = n
  BY <1>2 DEF Byte
<1>5. EncodeStreamRequest([kind |-> k, len |-> n, port |-> dst.port])
        = [kind |-> k, n |-> n, port |-> dst.port]
  BY <1>4 DEF EncodeStreamRequest
<1>6. ReadAddrPort([kind |-> k, n |-> n, port |-> dst.port])
        = [kind |-> k, len |-> n, port |-> dst.port]
  BY DEF ReadAddrPort
<1> QED
  BY <1>1, <1>3, <1>5, <1>6 DEF OverMux

\* A client that comes to a port of the server.
LEMMA OwnPortServes ==
  ASSUME NEW dst \in Asked, dst.len >= 1, dst.len <= 252
  PROVE  SS(dst) = Served(dst) /\ TCPVless(dst) = Served(dst)
<1>1. dst.kind \in {"special", "name", "ip4", "ip6", "text4", "text6"} /\ dst.len \in Nat
  BY AskedKinds
<1>2. Byte(dst.len) = dst.len /\ ~(Byte(2 + dst.len) < 2)
  BY <1>1 DEF Byte
<1> DEFINE a == [kind |-> dst.kind, n |-> dst.len, port |-> dst.port]
<1>3. ReadAddr(dst) = a /\ a.n = dst.len
  BY <1>2 DEF ReadAddr
<1>4. VlessReadAddr(a) = a
  <2> HIDE DEF a
  <2> QED
    BY <1>2, <1>3 DEF VlessReadAddr
<1>5. Dialled(a) = Served(dst)
  <2>1. CASE dst.kind \in {"special", "name", "text4", "text6"}
    <3>1. Text(dst) = [kind |-> dst.kind, len |-> dst.len, port |-> dst.port]
      BY <2>1 DEF Text
    <3> QED
      BY <1>1, <2>1, <3>1, DialledText DEF Served
  <2>2. CASE dst.kind = "ip4"
    <3>1. Text(dst) = [kind |-> "text4", len |-> 9, port |-> dst.port]
      BY <2>2 DEF Text
    <3> QED
      BY <2>2, <3>1, DialledIP DEF Served
  <2>3. CASE dst.kind = "ip6"
    <3>1. Text(dst) = [kind |-> "text6", len |-> 19, port |-> dst.port]
      BY <2>3 DEF Text
    <3> QED
      BY <2>3, <3>1, DialledIP DEF Served
  <2> QED
    BY <1>1, <2>1, <2>2, <2>3
<1> HIDE DEF a
<1> QED
  BY <1>3, <1>4, <1>5 DEF SS, TCPVless

\* Every listener takes the request, with the address of an IPv4 destination in the four
\* bytes that vless sends unless it is one of the cases that lose it.
LEMMA InboundTakes ==
  ASSUME NEW t \in Trips, t.dst.len >= 1, t.dst.len <= 252, t.via \in {"socks", "http", "connect"}
  PROVE  /\ Taken(Inbound(t.via, t.dst), t.dst)
         /\ /\ t.out = "vless" /\ ~t.mux /\ ~LosesTheAddress(t) /\ t.dst.kind \in {"ip4", "text4"}
            => PreHandle(Inbound(t.via, t.dst)).ip = "ip4"
<1>1. t.dst \in Asked
  BY DEF Trips
<1>2. CASE t.via = "socks"
  <2>1. Inbound(t.via, t.dst) = NewSocket(t.dst)
    BY <1>2 DEF Inbound
  <2> QED
    BY <1>1, <1>2, <2>1, SocksTakes DEF LosesTheAddress
<1>3. CASE t.via = "http"
  <2>1. Inbound(t.via, t.dst) = NewHTTP(t.dst)
    BY <1>3 DEF Inbound
  <2> QED
    BY <1>1, <2>1, HTTPTakes
<1>4. CASE t.via = "connect"
  <2>1. Inbound(t.via, t.dst) = NewHTTPS(t.dst)
    BY <1>4 DEF Inbound
  <2> QED
    BY <1>1, <1>4, <2>1, HTTPSTakes DEF LosesTheAddress
<1> QED
  BY <1>2, <1>3, <1>4

\* Every outbound serves it.
LEMMA OutboundServes ==
  ASSUME NEW t \in Trips, t.dst.len >= 1, t.dst.len <= 252, NEW md, Carries(md, t.dst),
         t.out = "vless" /\ ~t.mux /\ t.dst.kind \in {"ip4", "text4"} => md.ip = "ip4",
         t.out = "wless" /\ ~t.mux => t.dst.len + 1 + Digits(t.dst.port) <= 255
  PROVE  Outbound(t, md) = IF t.out = "direct" \/ t.mux THEN Text(t.dst) ELSE Served(t.dst)
<1>1. t.dst \in Asked /\ t.out \in {"direct", "vless", "wless"} /\ t.mux \in BOOLEAN
  BY DEF Trips
<1>2. CASE t.out = "direct"
  BY <1>1, <1>2, RemoteAddressIsText DEF Outbound
<1>3. CASE t.out # "direct" /\ t.mux
  BY <1>1, <1>3, CarrierIsMux, OverMuxIsText DEF Outbound, WlessDispatcher, VlessDispatcher
<1>4. CASE t.out = "vless" /\ ~t.mux
  BY <1>1, <1>4, VlessServes DEF Outbound, VlessDispatcher
<1>5. CASE t.out = "wless" /\ ~t.mux
  <2> DEFINE k == Text(t.dst).kind
             n == Text(t.dst).len
             p == t.dst.port
             r == RemoteAddress(md)
  <2>1. /\ k \in {"special", "name", "text4", "text6"} /\ n \in Nat /\ n >= 1 /\ n <= 252
        /\ Text(t.dst) = [kind |-> k, len |-> n, port |-> p]
        /\ k = "special" <=> t.dst.kind = "special"
    BY <1>1, TextOf
  <2>2. r = Text(t.dst)
    BY <1>1, RemoteAddressIsText
  <2>3. /\ k \in {"special", "name"} => n = t.dst.len
        /\ k = "text4" => n = 9
        /\ k = "text6" => n = 19
    BY <1>1, TextOf
  <2>4. n + 1 + Digits(p) + (IF k = "text6" THEN 2 ELSE 0) <= 255
    <3> HIDE DEF k, n
    <3>1. Digits(p) \in Nat /\ Digits(p) <= 5
      BY DigitsOf
    <3>2. t.dst.len + 1 + Digits(p) <= 255
      BY <1>5
    <3> QED
      BY <2>1, <2>3, <3>1, <3>2
  <2>5. Outbound(t, md) = Serve(t.at, "wless", WlessSend(r))
    BY <1>5 DEF Outbound, WlessDispatcher
  <2> HIDE DEF k, n, p, r
  <2>6. Serve(t.at, "wless", WlessSend(r)) = IF k = "special" THEN Mux ELSE r
    BY <2>1, <2>2, <2>4, WlessServes
  <2> QED
    BY <1>5, <2>1, <2>2, <2>5, <2>6 DEF Served
<1> QED
  BY <1>1, <1>2, <1>3, <1>4, <1>5

\* A journey ends at the destination, or in a mux session for the special names.
LEMMA JourneyEnds ==
  ASSUME NEW t \in Trips, t.dst.len >= 1, t.dst.len <= 252, ~LosesTheAddress(t),
         t.via \in {"socks", "http", "connect"} /\ t.out = "wless" /\ ~t.mux
           => t.dst.len + 1 + Digits(t.dst.port) <= 255
  PROVE  Journey(t) = IF t.via \in {"ss", "vless"} \/ (t.out # "direct" /\ ~t.mux) THEN Served(t.dst)
                      ELSE Text(t.dst)
<1>1. t.dst \in Asked /\ t.via \in {"socks", "http", "connect", "ss", "vless"}
  BY DEF Trips
<1>2. CASE t.via \in {"ss", "vless"}
  BY <1>1, <1>2, OwnPortServes DEF Journey
<1>3. CASE t.via \in {"socks", "http", "connect"}
  <2> DEFINE md == Inbound(t.via, t.dst)
  <2>1. md \notin {Crash, Refused} /\ Valid(md) /\ Carries(PreHandle(md), t.dst)
    BY <1>3, InboundTakes DEF Taken
  <2>2. t.out = "vless" /\ ~t.mux /\ t.dst.kind \in {"ip4", "text4"} => PreHandle(md).ip = "ip4"
    BY <1>3, InboundTakes
  <2>3. Journey(t) = Outbound(t, PreHandle(md))
    BY <1>3, <2>1 DEF Journey
  <2> HIDE DEF md
  <2>4. Outbound(t, PreHandle(md)) = IF t.out = "direct" \/ t.mux THEN Text(t.dst) ELSE Served(t.dst)
    BY <1>3, <2>1, <2>2, OutboundServes
  <2> QED
    BY <1>3, <2>3, <2>4
<1> QED
  BY <1>1, <1>2, <1>3

\* The way of a destination by itself: it is chosen once.
TripSpec == TripInit(Trips) /\ [][UNCHANGED trip]_trip

\* Every destination with a name of 1 to 252 bytes, and every IP address, is dialled as
\* it was asked for, for names of any length, any port and every way through the program.
THEOREM DestinationSurvives == TripSpec => []DialsWhatWasAsked
<1>1. TripInit(Trips) => trip \in Trips
  BY DEF TripInit
<1>2. trip \in Trips /\ [UNCHANGED trip]_trip => (trip \in Trips)'
  OBVIOUS
<1>3. trip \in Trips => DialsWhatWasAsked
  <2> SUFFICES ASSUME trip \in Trips, trip.dst.len \in 1 .. 252, ~LosesTheAddress(trip),
                      trip.via \in {"socks", "http", "connect"} /\ trip.out = "wless" /\ ~trip.mux
                        => trip.dst.len + 1 + Digits(trip.dst.port) <= 255
               PROVE  IF trip.dst.kind = "special" /\ ~trip.mux /\ (trip.out # "direct" \/ trip.via \in {"ss", "vless"})
                      THEN Journey(trip) = Mux
                      ELSE Journey(trip) = Text(trip.dst)
    BY DEF DialsWhatWasAsked
  <2>1. trip.dst.len >= 1 /\ trip.dst.len <= 252
    OBVIOUS
  <2>2. Journey(trip) = IF trip.via \in {"ss", "vless"} \/ (trip.out # "direct" /\ ~trip.mux)
                        THEN Served(trip.dst) ELSE Text(trip.dst)
    BY <2>1, JourneyEnds
  <2>3. trip.via \in {"ss", "vless"} \/ trip.out = "direct" => ~trip.mux
    BY DEF Trips
  <2> QED
    BY <2>2, <2>3 DEF Served
<1> QED
  BY <1>1, <1>2, <1>3, PTL DEF TripSpec

-----------------------------------------------------------------------------
(* The SOCKS handshake.                                                    *)

\* What follows the first bytes.
LEMMA FromConcat ==
  ASSUME NEW a \in Seq(Nat), NEW b \in Seq(Nat)
  PROVE  /\ From(a \o b, Len(a)) = b
         /\ SubSeq(a \o b, Len(a) + 1, Len(a) + Len(b)) = b
         /\ From(a \o b, Len(a) + Len(b)) = <<>>
<1>1. Len(a \o b) = Len(a) + Len(b) /\ Len(a) \in Nat /\ Len(b) \in Nat
  BY ConcatProperties
<1>2. SubSeq(a \o b, Len(a) + 1, Len(a) + Len(b)) = b
  <2>1. CASE Len(b) = 0
    BY <1>1, <2>1, SubSeqEmpty, EmptySeq
  <2>2. CASE Len(b) > 0
    <3>1. SubSeq(a \o b, Len(a) + 1, Len(a) + Len(b)) = SubSeq(b, 1, Len(b))
      <4>1. Len(a) + 1 \in Len(a) + 1 .. Len(a) + Len(b) /\ Len(a) + Len(b) \in Len(a) + 1 .. Len(a) + Len(b)
        BY <1>1, <2>2
      <4>2. Len(a) + 1 - Len(a) = 1 /\ Len(a) + Len(b) - Len(a) = Len(b)
        BY <1>1
      <4> QED
        BY <4>1, <4>2, SubSeqOfConcat2
    <3> QED
      BY <3>1, SubSeqFull
  <2> QED
    BY <1>1, <2>1, <2>2
<1>3. From(a \o b, Len(a) + Len(b)) = <<>>
  BY <1>1, SubSeqEmpty DEF From
<1> QED
  BY <1>1, <1>2, <1>3 DEF From

\* The same where the first bytes are counted by n.
LEMMA FromConcatAt ==
  ASSUME NEW a \in Seq(Nat), NEW b \in Seq(Nat), NEW n \in Nat, n >= Len(a), n <= Len(a)
  PROVE  /\ From(a \o b, n) = b
         /\ SubSeq(a \o b, n + 1, n + Len(b)) = b
         /\ From(a \o b, n + Len(b)) = <<>>
<1>1. Len(a) = n
  OBVIOUS
<1> QED
  BY <1>1, FromConcat, Zenon

\* What ServerHandshake reads of the client's first message.
LEMMA HelloIs ==
  ASSUME NEW m \in Nat
  PROVE  /\ Len(<<5, 1, m>>) = 3 /\ <<5, 1, m>>[2] = 1
         /\ From(<<5, 1, m>>, 3) = <<>>
<1>1. Len(<<5, 1, m>>) = 3 /\ <<5, 1, m>>[2] = 1
  OBVIOUS
<1>2. From(<<5, 1, m>>, 3) = <<>>
  BY <1>1, SubSeqEmpty DEF From
<1> QED
  BY <1>1, <1>2

\* Two bytes are read whole.
LEMMA PairIs ==
  ASSUME NEW m \in Nat, NEW n \in Nat
  PROVE  /\ Len(<<m, n>>) = 2 /\ <<m, n>>[1] = m /\ <<m, n>>[2] = n
         /\ From(<<m, n>>, 2) = <<>>
<1>1. Len(<<m, n>>) = 2 /\ <<m, n>>[1] = m /\ <<m, n>>[2] = n
  OBVIOUS
<1>2. From(<<m, n>>, 2) = <<>>
  BY <1>1, SubSeqEmpty DEF From
<1> QED
  BY <1>1, <1>2

\* What a concatenation is.
LEMMA ConcatIs ==
  ASSUME NEW a \in Seq(Nat), NEW b \in Seq(Nat)
  PROVE  /\ a \o b \in Seq(Nat) /\ Len(a \o b) = Len(a) + Len(b)
         /\ Len(a) \in Nat /\ Len(b) \in Nat
         /\ \A i \in Nat : i >= 1 /\ i <= Len(a) => (a \o b)[i] = a[i]
  OBVIOUS

\* Concatenation is associative.
LEMMA ThreeParts ==
  ASSUME NEW x \in Seq(Nat), NEW y \in Seq(Nat), NEW z \in Seq(Nat)
  PROVE  (x \o y) \o z = x \o (y \o z)
  BY ConcatAssociative, SMTT(60)

\* The same for four parts.
LEMMA FourParts ==
  ASSUME NEW x \in Seq(Nat), NEW y \in Seq(Nat), NEW z \in Seq(Nat), NEW v \in Seq(Nat)
  PROVE  x \o y \o z \o v = (x \o y) \o (z \o v)
<1>1. x \o y \in Seq(Nat)
  OBVIOUS
<1>2. PICK q \in Seq(Nat) : q = x \o y
  BY <1>1
<1>3. (q \o z) \o v = q \o (z \o v)
  BY ThreeParts, Zenon
<1> QED
  BY <1>2, <1>3, Zenon

\* A message of three bytes and an address.
LEMMA ThreeAndRest ==
  ASSUME NEW h \in Seq(Nat), NEW a \in Seq(Nat), Len(h) >= 3, Len(h) <= 3
  PROVE  /\ h \o a \in Seq(Nat) /\ Len(h \o a) = 3 + Len(a) /\ (h \o a)[2] = h[2]
         /\ From(h \o a, 3) = a /\ SubSeq(h \o a, 4, 3 + Len(a)) = a /\ From(h \o a, 3 + Len(a)) = <<>>
<1>1. h \o a \in Seq(Nat) /\ Len(h \o a) = 3 + Len(a) /\ Len(a) \in Nat
  OBVIOUS
<1>2. (h \o a)[2] = h[2]
  OBVIOUS
<1>3. /\ From(h \o a, 3) = a /\ SubSeq(h \o a, 3 + 1, 3 + Len(a)) = a
      /\ From(h \o a, 3 + Len(a)) = <<>>
  BY FromConcatAt
<1>4. 3 + 1 = 4
  OBVIOUS
<1> QED
  BY <1>1, <1>2, <1>3, <1>4, Zenon

\* A request.
LEMMA RequestIs ==
  ASSUME NEW c \in Nat, NEW a \in Seq(Nat)
  PROVE  LET q == <<5, c, 0>> \o a IN
         /\ q \in Seq(Nat) /\ Len(q) = 3 + Len(a) /\ q[2] = c
         /\ From(q, 3) = a /\ SubSeq(q, 4, 3 + Len(a)) = a /\ From(q, 3 + Len(a)) = <<>>
<1>1. <<5, c, 0>> \in Seq(Nat) /\ Len(<<5, c, 0>>) >= 3 /\ Len(<<5, c, 0>>) <= 3 /\ <<5, c, 0>>[2] = c
  OBVIOUS
<1>2. PICK h \in Seq(Nat) : h = <<5, c, 0>> /\ Len(h) >= 3 /\ Len(h) <= 3 /\ h[2] = c
  BY <1>1
<1>3. /\ h \o a \in Seq(Nat) /\ Len(h \o a) = 3 + Len(a) /\ (h \o a)[2] = c
      /\ From(h \o a, 3) = a /\ SubSeq(h \o a, 4, 3 + Len(a)) = a /\ From(h \o a, 3 + Len(a)) = <<>>
  BY <1>2, ThreeAndRest
<1> QED
  BY <1>2, <1>3

\* A login begins with two bytes and the user name.
LEMMA TwoAndRest ==
  ASSUME NEW h \in Seq(Nat), NEW u \in Seq(Nat), Len(h) >= 2, Len(h) <= 2
  PROVE  /\ h \o u \in Seq(Nat) /\ Len(h \o u) = 2 + Len(u) /\ (h \o u)[2] = h[2]
         /\ SubSeq(h \o u, 3, 2 + Len(u)) = u
<1>1. h \o u \in Seq(Nat) /\ Len(h \o u) = 2 + Len(u)
  OBVIOUS
<1>2. (h \o u)[2] = h[2]
  OBVIOUS
<1>3. SubSeq(h \o u, 2 + 1, 2 + Len(u)) = u
  BY FromConcatAt
<1>4. 2 + 1 = 3
  OBVIOUS
<1> QED
  BY <1>1, <1>2, <1>3, <1>4, Zenon

\* One byte and the password follow.
LEMMA OneAndRest ==
  ASSUME NEW b \in Seq(Nat), NEW w \in Seq(Nat), Len(b) >= 1, Len(b) <= 1
  PROVE  /\ b \o w \in Seq(Nat) /\ Len(b \o w) = 1 + Len(w) /\ (b \o w)[1] = b[1]
         /\ SubSeq(b \o w, 2, 1 + Len(w)) = w /\ From(b \o w, 1 + Len(w)) = <<>>
<1>1. b \o w \in Seq(Nat) /\ Len(b \o w) = 1 + Len(w)
  OBVIOUS
<1>2. (b \o w)[1] = b[1]
  OBVIOUS
<1>3. SubSeq(b \o w, 1 + 1, 1 + Len(w)) = w /\ From(b \o w, 1 + Len(w)) = <<>>
  BY FromConcatAt
<1>4. 1 + 1 = 2
  OBVIOUS
<1> QED
  BY <1>1, <1>2, <1>3, <1>4, Zenon

\* The two together.
LEMMA TwoParts ==
  ASSUME NEW x \in Seq(Nat), NEW y \in Seq(Nat), NEW k \in Nat, NEW l \in Nat,
         Len(x) >= 2 + k, Len(x) <= 2 + k, Len(y) >= l, Len(y) <= l
  PROVE  /\ x \o y \in Seq(Nat) /\ Len(x \o y) = 2 + k + l /\ (x \o y)[2] = x[2]
         /\ From(x \o y, 2 + k) = y
         /\ SubSeq(x \o y, 3, 2 + k) = SubSeq(x, 3, 2 + k)
<1>1. x \o y \in Seq(Nat) /\ Len(x \o y) = 2 + k + l
  OBVIOUS
<1>2. (x \o y)[2] = x[2]
  OBVIOUS
<1>3. From(x \o y, 2 + k) = y
  BY FromConcatAt
<1>4. SubSeq(x \o y, 3, 2 + k) = SubSeq(x, 3, 2 + k)
  <2>1. CASE k = 0
    BY <2>1, SubSeqEmpty
  <2>2. CASE k > 0
    <3>1. 3 \in 1 .. Len(x) /\ 2 + k \in 1 .. Len(x)
      BY <2>2
    <3> QED
      BY <3>1, SubSeqOfConcat1
  <2> QED
    BY <2>1, <2>2
<1> QED
  BY <1>1, <1>2, <1>3, <1>4

\* A length below 256 fits a byte.
LEMMA ByteFits ==
  ASSUME NEW n \in Nat, n <= 255
  PROVE  n % 256 = n
  OBVIOUS

\* A message in which ServerHandshake finds the user u and the password w.
LoginOf(msg, u, w) ==
  /\ msg \in Seq(Nat) /\ Len(msg) = 2 + Len(u) + (1 + Len(w))
  /\ msg[2] = Len(u) /\ SubSeq(msg, 3, 2 + Len(u)) = u
  /\ \E after \in Seq(Nat) :
       /\ after = From(msg, 2 + Len(u))
       /\ Len(after) = 1 + Len(w) /\ after[1] = Len(w)
       /\ SubSeq(after, 2, 1 + Len(w)) = w /\ From(after, 1 + Len(w)) = <<>>

\* AuthMsg is one.
LEMMA LoginIs ==
  ASSUME NEW u \in Seq(Nat), NEW w \in Seq(Nat), Len(u) <= 255, Len(w) <= 255, NEW msg,
         msg = <<1, Len(u) % 256>> \o u \o <<Len(w) % 256>> \o w
  PROVE  LoginOf(msg, u, w)
<1>0. Len(u) \in Nat /\ Len(w) \in Nat
  OBVIOUS
<1>1. PICK h \in Seq(Nat) : h = <<1, Len(u) % 256>> /\ Len(h) >= 2 /\ Len(h) <= 2 /\ h[2] = Len(u)
  <2>1. Len(u) % 256 = Len(u)
    BY <1>0, ByteFits, Zenon
  <2>2. \A k \in Nat : /\ <<1, k>> \in Seq(Nat) /\ Len(<<1, k>>) >= 2 /\ Len(<<1, k>>) <= 2
                       /\ <<1, k>>[2] = k
    OBVIOUS
  <2> QED
    BY <1>0, <2>1, <2>2, Zenon
<1>2. PICK b \in Seq(Nat) : b = <<Len(w) % 256>> /\ Len(b) >= 1 /\ Len(b) <= 1 /\ b[1] = Len(w)
  <2>1. Len(w) % 256 = Len(w)
    BY <1>0, ByteFits, Zenon
  <2>2. \A k \in Nat : <<k>> \in Seq(Nat) /\ Len(<<k>>) >= 1 /\ Len(<<k>>) <= 1 /\ <<k>>[1] = k
    OBVIOUS
  <2> QED
    BY <1>0, <2>1, <2>2, Zenon
<1>3. /\ h \o u \in Seq(Nat) /\ Len(h \o u) = 2 + Len(u) /\ (h \o u)[2] = h[2]
      /\ SubSeq(h \o u, 3, 2 + Len(u)) = u
  <2>1. Len(h) >= 2 /\ Len(h) <= 2
    BY <1>1, Zenon
  <2> QED
    BY <2>1, TwoAndRest, Zenon
<1>4. /\ b \o w \in Seq(Nat) /\ Len(b \o w) = 1 + Len(w) /\ (b \o w)[1] = b[1]
      /\ SubSeq(b \o w, 2, 1 + Len(w)) = w /\ From(b \o w, 1 + Len(w)) = <<>>
  BY <1>2, OneAndRest, Zenon
<1>5. PICK x \in Seq(Nat) : x = h \o u
  BY <1>3, Zenon
<1>6. PICK y \in Seq(Nat) : y = b \o w
  BY <1>4, Zenon
<1>7. msg = x \o y
  <2>1. msg = (x \o b) \o w
    BY <1>1, <1>2, <1>5, Zenon
  <2>2. (x \o b) \o w = x \o (b \o w)
    BY ThreeParts, Zenon
  <2> QED
    BY <1>6, <2>1, <2>2, Zenon
<1>8. PICK k \in Nat, l \in Nat : k = Len(u) /\ l = 1 + Len(w)
  BY <1>0
<1>9. Len(x) = 2 + k /\ Len(y) = l
  BY <1>3, <1>4, <1>5, <1>6, <1>8, Zenon
<1>10. Len(x) >= 2 + k /\ Len(x) <= 2 + k /\ Len(y) >= l /\ Len(y) <= l
  <2>1. \A i \in Nat : i >= i /\ i <= i
    OBVIOUS
  <2>2. 2 + k \in Nat
    OBVIOUS
  <2> QED
    BY <1>9, <2>1, <2>2, Zenon
<1>11. /\ x \o y \in Seq(Nat) /\ Len(x \o y) = 2 + k + l /\ (x \o y)[2] = x[2]
       /\ From(x \o y, 2 + k) = y /\ SubSeq(x \o y, 3, 2 + k) = SubSeq(x, 3, 2 + k)
  BY <1>10, TwoParts, Zenon
<1>12. msg \in Seq(Nat) /\ Len(msg) = 2 + Len(u) + (1 + Len(w)) /\ msg[2] = Len(u)
  <2>1. msg \in Seq(Nat)
    BY <1>7, <1>11, Zenon
  <2>2. Len(msg) = 2 + Len(u) + (1 + Len(w))
    BY <1>7, <1>8, <1>11, Zenon
  <2>3. msg[2] = Len(u)
    BY <1>1, <1>3, <1>5, <1>7, <1>11, Zenon
  <2> QED
    BY <2>1, <2>2, <2>3, Zenon
<1>13. SubSeq(msg, 3, 2 + Len(u)) = u
  BY <1>3, <1>5, <1>7, <1>8, <1>11, Zenon
<1>14. y = From(msg, 2 + Len(u))
  BY <1>7, <1>8, <1>11, Zenon
<1>15. Len(y) = 1 + Len(w) /\ y[1] = Len(w) /\ SubSeq(y, 2, 1 + Len(w)) = w /\ From(y, 1 + Len(w)) = <<>>
  BY <1>2, <1>4, <1>6, Zenon
<1> QED
  BY <1>12, <1>13, <1>14, <1>15, Zenon DEF LoginOf

\* The messages of the handshake that have no part of any length.
Greeting == IF login = None THEN <<5, 1, 0>> ELSE <<5, 1, 2>>
\* The method the server has chosen.
Chosen == IF authn THEN <<5, 2>> ELSE <<5, 0>>
\* Its answer to a request.
Reply == <<5, 0, 0>> \o LocalAddr

\* Lengths are sent in a byte, which ClientHandshake does not check (RFC 1929 allows 255).
Fits(user) == user = None \/ (Len(user[1]) <= 255 /\ Len(user[2]) <= 255)

\* What the two ends start with.
Parties == login \in Logins \cup {None} /\ Fits(login) /\ wish \in [addr : Addresses, cmd : Commands]

\* What is on its way to the server, by what it waits for; and what it knows.
ServerPart ==
  /\ serverAt \in {"hello", "auth", "request", "done", "error"}
  /\ serverAt = "hello" => toServer = Greeting
  /\ serverAt = "auth" => authn /\ (toServer = <<>> \/ (login # None /\ toServer = AuthMsg))
  /\ serverAt = "request" => (authn => login \in Accounts) /\ (toServer = <<>> \/ toServer = Request)
  /\ serverAt = "done" => (authn => login \in Accounts) /\ toServer = <<>> /\ asked = wish

\* The two ends are in step: who waits has a message coming, or the other end has it.
ClientPart ==
  /\ clientAt = "method" =>
       \/ serverAt = "hello" /\ toServer = Greeting /\ toClient = <<>>
       \/ serverAt = (IF authn THEN "auth" ELSE "request") /\ toServer = <<>> /\ toClient = Chosen
  /\ clientAt = "auth" =>
       \/ serverAt = "auth" /\ login # None /\ toServer = AuthMsg /\ toClient = <<>>
       \/ serverAt = "request" /\ toServer = <<>> /\ toClient = <<1, 0>>
       \/ serverAt = "error" /\ toClient = <<1, 1>>
  /\ clientAt = "reply" =>
       \/ serverAt = "request" /\ toServer = Request /\ toClient = <<>>
       \/ serverAt = "done" /\ toServer = <<>> /\ toClient = Reply
       \/ serverAt = "error" /\ toClient = <<>>
  /\ clientAt = "done" => serverAt = "done" /\ bound = LocalAddr /\ toClient = <<>>
  /\ clientAt \in {"method", "auth", "reply", "done", "error", "left"}
  /\ "client" \in gone => clientAt \in {"error", "left"}

\* The inductive invariant.
SocksIInv == Parties /\ (authn \/ login = None => ServerPart /\ ClientPart)

\* The client speaks first.
LEMMA SocksInitIInv ==
  ASSUME SocksInit({h \in Handshakes : Fits(h.login)})
  PROVE  SocksIInv
<1>1. PICK h \in Handshakes : Fits(h.login) /\ authn = h.authn /\ login = h.login /\ wish = h.wish
  BY DEF SocksInit
<1>2. Parties
  BY <1>1 DEF Handshakes, Parties
<1>3. /\ toServer = Greeting /\ toClient = <<>> /\ clientAt = "method" /\ serverAt = "hello" /\ gone = {}
  BY DEF SocksInit, Greeting
<1> QED
  BY <1>2, <1>3 DEF SocksIInv, ServerPart, ClientPart

\* A message that comes when nothing else is on its way.
LEMMA FirstMessage ==
  ASSUME NEW q \in Seq(Nat)
  PROVE  <<>> \o q = q /\ q \o <<>> = q
  BY ConcatEmptySeq

\* The messages as sequences.
LEMMA Messages ==
  /\ Greeting \in Seq(Nat) /\ Len(Greeting) = 3 /\ Greeting[2] = 1 /\ From(Greeting, 3) = <<>>
  /\ Chosen \in Seq(Nat) /\ Len(Chosen) = 2 /\ Chosen[1] = 5 /\ From(Chosen, 2) = <<>>
  /\ authn => Chosen[2] # 0
<1>1. \A m \in Nat : <<5, 1, m>> \in Seq(Nat) /\ <<5, m>> \in Seq(Nat)
  OBVIOUS
<1>2. CASE login = None
  BY <1>1, <1>2, HelloIs, PairIs DEF Greeting, Chosen
<1>3. CASE login # None
  BY <1>1, <1>3, HelloIs, PairIs DEF Greeting, Chosen
<1> QED
  BY <1>2, <1>3

\* ServerHandshake reads the methods and answers.
LEMMA ServerHelloStep == SocksIInv /\ ServerHello => SocksIInv'
<1> SUFFICES ASSUME SocksIInv, ServerHello, authn \/ login = None
             PROVE  (ServerPart /\ ClientPart)'
  BY DEF SocksIInv, Parties, ServerHello, ServerSays, socksFixed, Greeting, Chosen
<1>1. serverAt = "hello" /\ toServer = Greeting /\ ServerPart /\ ClientPart
  BY DEF SocksIInv, ServerPart, ServerHello
<1>2. /\ toServer' = From(Greeting, 2 + Greeting[2]) /\ toClient' = toClient \o <<5, IF authn THEN 2 ELSE 0>>
      /\ serverAt' = (IF authn THEN "auth" ELSE "request") /\ gone' = gone
      /\ UNCHANGED <<clientAt, bound, asked, authn, login, wish>>
  BY <1>1 DEF ServerHello, ServerSays, socksFixed
<1>3. toServer' = <<>>
  BY <1>2, Messages
<1>4. <<5, IF authn THEN 2 ELSE 0>> = Chosen
  BY DEF Chosen
<1>5. clientAt = "method" => toClient' = Chosen
  BY <1>1, <1>2, <1>4, Messages, FirstMessage DEF ClientPart
<1>6. Chosen' = Chosen
  BY <1>2 DEF Chosen
<1>7. ServerPart'
  BY <1>2, <1>3 DEF ServerPart
<1>8. ClientPart'
  BY <1>1, <1>2, <1>3, <1>5, <1>6 DEF ClientPart
<1> QED
  BY <1>7, <1>8

\* What ServerAuth finds in a login.
LEMMA AuthMsgIs ==
  ASSUME Parties, login # None
  PROVE  /\ login = <<login[1], login[2]>> /\ login[1] \in Seq(Nat) /\ login[2] \in Seq(Nat)
         /\ LoginOf(AuthMsg, login[1], login[2])
<1>1. login \in Seq(Nat) \X Seq(Nat)
  BY SocksAssumption DEF Parties
<1>2. login[1] \in Seq(Nat) /\ login[2] \in Seq(Nat) /\ login = <<login[1], login[2]>>
  BY <1>1
<1>3. Len(login[1]) \in Nat /\ Len(login[2]) \in Nat /\ Len(login[1]) <= 255 /\ Len(login[2]) <= 255
  BY <1>2 DEF Parties, Fits
<1>4. PICK u \in Seq(Nat), w \in Seq(Nat) : u = login[1] /\ w = login[2]
  BY <1>2, Zenon
<1>5. PICK msg : msg = AuthMsg
  OBVIOUS
<1>6. msg = <<1, Len(u) % 256>> \o u \o <<Len(w) % 256>> \o w /\ Len(u) <= 255 /\ Len(w) <= 255
  BY <1>3, <1>4, <1>5, Zenon DEF AuthMsg
<1>7. LoginOf(msg, u, w)
  BY <1>6, LoginIs, Zenon
<1> QED
  BY <1>2, <1>4, <1>5, <1>7, Zenon

\* The outcome of ServerAuth.
LEMMA ServerAuthSays ==
  ASSUME Parties, login # None, toServer = AuthMsg, ServerAuth
  PROVE  /\ UNCHANGED <<clientAt, bound, asked, authn, login, wish>>
         /\ \/ /\ serverAt' = "error" /\ toClient' = toClient \o <<1, 1>>
               /\ gone' = gone \cup {"server"}
            \/ /\ serverAt' = "request" /\ toServer' = <<>> /\ toClient' = toClient \o <<1, 0>>
               /\ gone' = gone /\ login \in Accounts
<1>1. PICK u \in Seq(Nat), w \in Seq(Nat), after \in Seq(Nat) :
        /\ login = <<u, w>> /\ AuthMsg[2] = Len(u) /\ SubSeq(AuthMsg, 3, 2 + Len(u)) = u
        /\ after = From(AuthMsg, 2 + Len(u)) /\ after[1] = Len(w)
        /\ SubSeq(after, 2, 1 + Len(w)) = w /\ From(after, 1 + Len(w)) = <<>>
  <2>1. PICK u \in Seq(Nat), w \in Seq(Nat) : login = <<u, w>> /\ LoginOf(AuthMsg, u, w)
    BY AuthMsgIs, Zenon
  <2> QED
    BY <2>1, Zenon DEF LoginOf
<1>2. \/ \E others : ServerSays(others, <<1, 1>>, "error")
      \/ LET ok == Verify(u, w)
         IN ServerSays(<<>>, <<1, IF ok THEN 0 ELSE 1>>, IF ok THEN "request" ELSE "error")
  BY <1>1, Zenon DEF ServerAuth
<1>3. asked' = asked
  BY DEF ServerAuth
<1>4. ASSUME NEW others, ServerSays(others, <<1, 1>>, "error")
      PROVE  /\ UNCHANGED <<clientAt, bound, authn, login, wish>>
             /\ serverAt' = "error" /\ toClient' = toClient \o <<1, 1>> /\ gone' = gone \cup {"server"}
  BY <1>4 DEF ServerSays, socksFixed
<1>5. ASSUME ~Verify(u, w), ServerSays(<<>>, <<1, 1>>, "error")
      PROVE  /\ UNCHANGED <<clientAt, bound, authn, login, wish>>
             /\ serverAt' = "error" /\ toClient' = toClient \o <<1, 1>> /\ gone' = gone \cup {"server"}
  BY <1>4, <1>5
<1>6. ASSUME Verify(u, w), ServerSays(<<>>, <<1, 0>>, "request")
      PROVE  /\ UNCHANGED <<clientAt, bound, authn, login, wish>>
             /\ serverAt' = "request" /\ toServer' = <<>> /\ toClient' = toClient \o <<1, 0>>
             /\ gone' = gone /\ login \in Accounts
  BY <1>1, <1>6 DEF ServerSays, socksFixed, Verify
<1>7. CASE Verify(u, w)
  BY <1>2, <1>3, <1>4, <1>6, <1>7
<1>8. CASE ~Verify(u, w)
  BY <1>2, <1>3, <1>4, <1>5, <1>8
<1> QED
  BY <1>7, <1>8

\* ServerHandshake checks the login.
LEMMA ServerAuthStep == SocksIInv /\ ServerAuth => SocksIInv'
<1> SUFFICES ASSUME SocksIInv, ServerAuth, authn \/ login = None
             PROVE  SocksIInv'
  BY DEF SocksIInv, Parties, ServerAuth, ServerSays, socksFixed
<1>1. serverAt = "auth" /\ ServerPart /\ ClientPart /\ Parties
  BY DEF SocksIInv, ServerAuth
<1>2. authn /\ login # None /\ toServer = AuthMsg
  BY <1>1 DEF ServerPart, ServerAuth
<1>3. /\ UNCHANGED <<clientAt, bound, asked, authn, login, wish>>
      /\ \/ /\ serverAt' = "error" /\ toClient' = toClient \o <<1, 1>> /\ gone' = gone \cup {"server"}
         \/ /\ serverAt' = "request" /\ toServer' = <<>> /\ toClient' = toClient \o <<1, 0>>
            /\ gone' = gone /\ login \in Accounts
  BY <1>1, <1>2, ServerAuthSays
<1>4. AuthMsg # <<>>
  <2>1. Len(toServer) >= 2
    BY DEF ServerAuth
  <2> QED
    BY <1>2, <2>1
<1>5. clientAt \in {"auth", "error", "left"} /\ (clientAt = "auth" => toClient = <<>>)
  BY <1>1, <1>2, <1>4 DEF ClientPart
<1>6. <<>> \o <<1, 1>> = <<1, 1>> /\ <<>> \o <<1, 0>> = <<1, 0>>
  OBVIOUS
<1>7. ServerPart'
  BY <1>3 DEF ServerPart
<1>8. ClientPart'
  BY <1>1, <1>3, <1>5, <1>6 DEF ClientPart
<1> QED
  BY <1>1, <1>3, <1>7, <1>8 DEF SocksIInv, Parties

\* A message in which ServerHandshake and ClientHandshake find the address a.
AddrOf(msg, a) ==
  /\ msg \in Seq(Nat) /\ Len(msg) = 3 + Len(a) /\ Len(a) \in Nat
  /\ From(msg, 3) = a /\ SubSeq(msg, 4, 3 + Len(a)) = a /\ From(msg, 3 + Len(a)) = <<>>

\* A request is one.
LEMMA RequestHasAddr ==
  ASSUME Parties
  PROVE  /\ wish = [addr |-> wish.addr, cmd |-> wish.cmd]
         /\ wish.addr \in Seq(Nat) /\ wish.addr # <<>> /\ AddrLen(wish.addr) \in {Len(wish.addr), -1}
         /\ AddrOf(Request, wish.addr) /\ Request[2] = wish.cmd
<1>1. wish = [addr |-> wish.addr, cmd |-> wish.cmd] /\ wish.addr \in Addresses /\ wish.cmd \in Nat
  BY SocksAssumption DEF Parties
<1>2. wish.addr \in Seq(Nat) /\ wish.addr # <<>> /\ AddrLen(wish.addr) \in {Len(wish.addr), -1}
  BY <1>1, SocksAssumption, Zenon
<1>3. PICK a \in Seq(Nat), c \in Nat : a = wish.addr /\ c = wish.cmd
  BY <1>1, <1>2, Zenon
<1>4. /\ <<5, c, 0>> \o a \in Seq(Nat) /\ Len(<<5, c, 0>> \o a) = 3 + Len(a) /\ (<<5, c, 0>> \o a)[2] = c
      /\ From(<<5, c, 0>> \o a, 3) = a /\ SubSeq(<<5, c, 0>> \o a, 4, 3 + Len(a)) = a
      /\ From(<<5, c, 0>> \o a, 3 + Len(a)) = <<>>
  BY RequestIs, Zenon
<1>5. Len(a) \in Nat
  OBVIOUS
<1>6. Request = <<5, c, 0>> \o a
  BY <1>3, Zenon DEF Request
<1>7. AddrOf(Request, a) /\ Request[2] = c
  BY <1>4, <1>5, <1>6, Zenon DEF AddrOf
<1> QED
  BY <1>1, <1>2, <1>3, <1>7, Zenon

\* The outcome of ServerRequest.
LEMMA ServerRequestSays ==
  ASSUME Parties, toServer = Request, ServerRequest
  PROVE  /\ UNCHANGED <<clientAt, bound, authn, login, wish>>
         /\ \/ /\ serverAt' = "error" /\ toClient' = toClient \o <<>> /\ gone' = gone \cup {"server"}
            \/ /\ serverAt' = "done" /\ toServer' = <<>> /\ toClient' = toClient \o Reply
               /\ gone' = gone /\ asked' = wish
<1>1. PICK a \in Seq(Nat) :
        /\ a = wish.addr /\ wish = [addr |-> a, cmd |-> Request[2]] /\ AddrLen(a) \in {Len(a), -1}
        /\ AddrOf(Request, a)
  BY RequestHasAddr, Zenon
<1>2. AddrLen(From(toServer, 3)) = AddrLen(a)
  BY <1>1, Zenon DEF AddrOf
<1>3. CASE AddrLen(a) = -1
  <2>1. ServerSays(From(toServer, 4), <<>>, "error")
    BY <1>2, <1>3 DEF ServerRequest
  <2> QED
    BY <2>1 DEF ServerSays, socksFixed
<1>4. CASE AddrLen(a) # -1
  <2>1. AddrLen(a) = Len(a)
    BY <1>1, <1>4
  <2>2. /\ asked' = [addr |-> SubSeq(toServer, 4, 3 + Len(a)), cmd |-> toServer[2]]
        /\ \/ ServerSays(From(toServer, 3 + Len(a)), <<5, 0, 0>> \o LocalAddr, "done")
           \/ ServerSays(From(toServer, 3 + Len(a)), <<>>, "error")
    BY <1>2, <1>4, <2>1, Zenon DEF ServerRequest
  <2>3. asked' = wish /\ From(toServer, 3 + Len(a)) = <<>>
    BY <1>1, <2>2, Zenon DEF AddrOf
  <2>4. CASE ServerSays(From(toServer, 3 + Len(a)), <<5, 0, 0>> \o LocalAddr, "done")
    BY <2>3, <2>4 DEF ServerSays, socksFixed, Reply
  <2>5. CASE ServerSays(From(toServer, 3 + Len(a)), <<>>, "error")
    BY <2>5 DEF ServerSays, socksFixed
  <2> QED
    BY <2>2, <2>4, <2>5
<1> QED
  BY <1>3, <1>4

\* ServerHandshake reads the request.
LEMMA ServerRequestStep == SocksIInv /\ ServerRequest => SocksIInv'
<1> SUFFICES ASSUME SocksIInv, ServerRequest, authn \/ login = None
             PROVE  SocksIInv'
  BY DEF SocksIInv, Parties, ServerRequest, ServerSays, socksFixed
<1>1. serverAt = "request" /\ ServerPart /\ ClientPart /\ Parties
  BY DEF SocksIInv, ServerRequest
<1>2. Len(toServer) >= 4 /\ toServer # <<>>
  BY DEF ServerRequest
<1>3. (authn => login \in Accounts) /\ toServer = Request
  BY <1>1, <1>2 DEF ServerPart
<1>4. /\ UNCHANGED <<clientAt, bound, authn, login, wish>>
      /\ \/ /\ serverAt' = "error" /\ toClient' = toClient \o <<>> /\ gone' = gone \cup {"server"}
         \/ /\ serverAt' = "done" /\ toServer' = <<>> /\ toClient' = toClient \o Reply
            /\ gone' = gone /\ asked' = wish
  BY <1>1, <1>3, ServerRequestSays
<1>5. clientAt \in {"reply", "error", "left"} /\ (clientAt = "reply" => toClient = <<>>)
  BY <1>1, <1>2 DEF ClientPart
<1>6. <<>> \o <<>> = <<>> /\ <<>> \o Reply = Reply
  BY DEF Reply, LocalAddr
<1>7. ServerPart'
  BY <1>3, <1>4 DEF ServerPart
<1>8. Reply' = Reply
  BY DEF Reply
<1>9. ClientPart'
  BY <1>1, <1>4, <1>5, <1>6, <1>8 DEF ClientPart
<1> QED
  BY <1>1, <1>4, <1>7, <1>9 DEF SocksIInv, Parties

\* The messages of the client.
LEMMA ClientMessages ==
  ASSUME Parties
  PROVE  /\ <<>> \o <<>> = <<>> /\ <<>> \o Request = Request
         /\ login # None => <<>> \o AuthMsg = AuthMsg
<1>1. Request \in Seq(Nat) /\ (login # None => AuthMsg \in Seq(Nat))
  BY RequestHasAddr, AuthMsgIs, Zenon DEF AddrOf, LoginOf
<1> QED
  BY <1>1, FirstMessage, EmptySeq

\* What ClientHandshake finds in the server's reply.
LEMMA ReplyHasAddr == AddrOf(Reply, LocalAddr) /\ AddrLen(LocalAddr) = 7 /\ Len(LocalAddr) = 7
<1>1. LocalAddr \in Seq(Nat) /\ Len(LocalAddr) = 7 /\ LocalAddr[1] = 1 /\ LocalAddr # <<>>
  BY DEF LocalAddr
<1>2. AddrLen(LocalAddr) = 7
  <2> HIDE DEF LocalAddr
  <2> QED
    BY <1>1 DEF AddrLen
<1>3. PICK a \in Seq(Nat), c \in Nat : a = LocalAddr /\ c = 0
  BY <1>1
<1>4. /\ <<5, c, 0>> \o a \in Seq(Nat) /\ Len(<<5, c, 0>> \o a) = 3 + Len(a)
      /\ From(<<5, c, 0>> \o a, 3) = a /\ SubSeq(<<5, c, 0>> \o a, 4, 3 + Len(a)) = a
      /\ From(<<5, c, 0>> \o a, 3 + Len(a)) = <<>>
  BY RequestIs, Zenon
<1>5. Reply = <<5, c, 0>> \o a
  BY <1>3, Zenon DEF Reply
<1>6. Len(a) \in Nat
  OBVIOUS
<1>7. AddrOf(Reply, a)
  BY <1>4, <1>5, <1>6, Zenon DEF AddrOf
<1> QED
  BY <1>1, <1>2, <1>3, <1>7, Zenon

\* ClientHandshake reads the method.
LEMMA ClientMethodStep == SocksIInv /\ ClientMethod => SocksIInv'
<1> SUFFICES ASSUME SocksIInv, ClientMethod, authn \/ login = None
             PROVE  SocksIInv'
  BY DEF SocksIInv, Parties, ClientMethod, ClientSays, socksFixed
<1>1. clientAt = "method" /\ ServerPart /\ ClientPart /\ Parties
  BY DEF SocksIInv, ClientMethod
<1>2. Len(toClient) >= 2 /\ toClient # <<>>
  BY DEF ClientMethod
<1>3. serverAt = (IF authn THEN "auth" ELSE "request") /\ toServer = <<>> /\ toClient = Chosen
  BY <1>1, <1>2 DEF ClientPart
<1>4. toClient[1] = 5 /\ From(toClient, 2) = <<>> /\ (authn => toClient[2] # 0)
  BY <1>3, Messages
<1>5. /\ UNCHANGED <<serverAt, asked, authn, login, wish, bound>> /\ toClient' = <<>>
      /\ \/ login # None /\ toServer' = <<>> \o AuthMsg /\ clientAt' = "auth" /\ gone' = gone
         \/ toServer' = <<>> \o <<>> /\ clientAt' = "error"
         \/ ~authn /\ toServer' = <<>> \o Request /\ clientAt' = "reply" /\ gone' = gone
  BY <1>3, <1>4 DEF ClientMethod, ClientSays, socksFixed
<1>6. \/ login # None /\ toServer' = AuthMsg /\ clientAt' = "auth" /\ gone' = gone
      \/ toServer' = <<>> /\ clientAt' = "error"
      \/ ~authn /\ toServer' = Request /\ clientAt' = "reply" /\ gone' = gone
  BY <1>1, <1>5, ClientMessages
<1>7. AuthMsg' = AuthMsg /\ Request' = Request
  BY <1>5 DEF AuthMsg, Request
<1>8. ServerPart'
  BY <1>1, <1>3, <1>5, <1>6, <1>7 DEF ServerPart
<1>9. ClientPart'
  BY <1>1, <1>3, <1>5, <1>6, <1>7 DEF ClientPart
<1> QED
  BY <1>1, <1>5, <1>8, <1>9 DEF SocksIInv, Parties

\* ClientHandshake reads what came of its login.
LEMMA ClientAuthStep == SocksIInv /\ ClientAuth => SocksIInv'
<1> SUFFICES ASSUME SocksIInv, ClientAuth, authn \/ login = None
             PROVE  SocksIInv'
  BY DEF SocksIInv, Parties, ClientAuth, ClientSays, socksFixed
<1>1. clientAt = "auth" /\ ServerPart /\ ClientPart /\ Parties
  BY DEF SocksIInv, ClientAuth
<1>2. Len(toClient) >= 2 /\ toClient # <<>>
  BY DEF ClientAuth
<1>3. CASE serverAt = "request" /\ toServer = <<>> /\ toClient = <<1, 0>>
  <2>1. toClient[2] = 0 /\ From(toClient, 2) = <<>>
    BY <1>3, PairIs
  <2>2. /\ UNCHANGED <<serverAt, asked, authn, login, wish, bound>> /\ toClient' = <<>>
        /\ toServer' = <<>> \o Request /\ clientAt' = "reply" /\ gone' = gone
    BY <1>3, <2>1 DEF ClientAuth, ClientSays, socksFixed
  <2>3. toServer' = Request /\ Request' = Request
    BY <1>1, <2>2, ClientMessages DEF Request
  <2>4. ServerPart'
    BY <1>1, <1>3, <2>2, <2>3 DEF ServerPart
  <2>5. ClientPart'
    BY <1>1, <1>3, <2>2, <2>3 DEF ClientPart
  <2> QED
    BY <1>1, <2>2, <2>4, <2>5 DEF SocksIInv, Parties
<1>4. CASE serverAt = "error" /\ toClient = <<1, 1>>
  <2>1. toClient[2] # 0
    BY <1>4, PairIs
  <2>2. UNCHANGED <<serverAt, asked, authn, login, wish, bound>> /\ clientAt' = "error"
    BY <2>1 DEF ClientAuth, ClientSays, socksFixed
  <2>3. ServerPart' /\ ClientPart'
    BY <1>4, <2>2 DEF ServerPart, ClientPart
  <2> QED
    BY <1>1, <2>2, <2>3 DEF SocksIInv, Parties
<1> QED
  BY <1>1, <1>2, <1>3, <1>4 DEF ClientPart

\* ClientHandshake reads the reply.
LEMMA ClientReplyStep == SocksIInv /\ ClientReply => SocksIInv'
<1> SUFFICES ASSUME SocksIInv, ClientReply, authn \/ login = None
             PROVE  SocksIInv'
  BY DEF SocksIInv, Parties, ClientReply, ClientSays, socksFixed
<1>1. clientAt = "reply" /\ ServerPart /\ ClientPart /\ Parties
  BY DEF SocksIInv, ClientReply
<1>2. Len(toClient) >= 4 /\ toClient # <<>>
  BY DEF ClientReply
<1>3. serverAt = "done" /\ toServer = <<>> /\ toClient = Reply
  BY <1>1, <1>2 DEF ClientPart
<1>4. From(toClient, 3) = LocalAddr /\ SubSeq(toClient, 4, 3 + 7) = LocalAddr /\ From(toClient, 3 + 7) = <<>>
  BY <1>3, ReplyHasAddr, Zenon DEF AddrOf
<1>5. AddrLen(From(toClient, 3)) = 7 /\ 7 # -1
  BY <1>4, ReplyHasAddr
<1>6. ClientSays(From(toClient, 3 + 7), <<>>, "done") /\ bound' = SubSeq(toClient, 4, 3 + 7)
  BY <1>5, Zenon DEF ClientReply
<1>7. /\ UNCHANGED <<serverAt, asked, authn, login, wish, gone>> /\ clientAt' = "done"
      /\ toClient' = <<>> /\ toServer' = <<>> \o <<>> /\ bound' = LocalAddr
  <2>1. "done" # "error"
    OBVIOUS
  <2> QED
    BY <1>3, <1>4, <1>6, <2>1, Zenon DEF ClientSays, socksFixed
<1>8. toServer' = <<>>
  BY <1>1, <1>7, ClientMessages, Zenon
<1>9. LocalAddr' = LocalAddr
  BY DEF LocalAddr
<1>10. ServerPart'
  BY <1>1, <1>3, <1>7, <1>8 DEF ServerPart
<1>11. ClientPart'
  BY <1>1, <1>3, <1>7, <1>8, <1>9 DEF ClientPart
<1> QED
  BY <1>1, <1>7, <1>10, <1>11 DEF SocksIInv, Parties

\* An end that fails, or a client that leaves, says nothing more.
LEMMA EndsStep == SocksIInv /\ (ServerFails \/ ClientFails \/ ClientLeaves) => SocksIInv'
<1> SUFFICES ASSUME SocksIInv, ServerFails \/ ClientFails \/ ClientLeaves
             PROVE  SocksIInv'
  OBVIOUS
<1>1. CASE ServerFails
  <2>1. /\ "client" \in gone /\ serverAt' = "error" /\ gone' = gone \cup {"server"}
        /\ UNCHANGED <<toServer, toClient, clientAt, asked, bound>> /\ UNCHANGED socksFixed
    BY <1>1, Zenon DEF ServerFails
  <2> QED
    BY <2>1 DEF SocksIInv, Parties, ServerPart, ClientPart, socksFixed
<1>2. CASE ClientFails \/ ClientLeaves
  <2>1. /\ clientAt' \in {"error", "left"}
        /\ UNCHANGED <<toServer, toClient, serverAt, asked, bound>> /\ UNCHANGED socksFixed
    BY <1>2, Zenon DEF ClientFails, ClientLeaves
  <2>2. AuthMsg' = AuthMsg /\ Request' = Request /\ Greeting' = Greeting
    BY <2>1 DEF socksFixed, AuthMsg, Request, Greeting
  <2> QED
    BY <2>1, <2>2 DEF SocksIInv, Parties, ServerPart, ClientPart, socksFixed
<1> QED
  BY <1>1, <1>2

\* Every step keeps the invariant.
LEMMA SocksNextIInv == SocksIInv /\ [SocksNext]_socksVars => SocksIInv'
<1> SUFFICES ASSUME SocksIInv, [SocksNext]_socksVars PROVE SocksIInv'
  OBVIOUS
<1>1. CASE SocksNext
  BY <1>1, ServerHelloStep, ServerAuthStep, ServerRequestStep, ClientMethodStep, ClientAuthStep,
     ClientReplyStep, EndsStep DEF SocksNext
<1>2. CASE UNCHANGED socksVars
  <2>1. UNCHANGED <<authn, login, wish, toServer, toClient, clientAt, serverAt, asked, bound, gone>>
    BY <1>2 DEF socksVars
  <2>2. AuthMsg' = AuthMsg /\ Request' = Request /\ Greeting' = Greeting /\ Chosen' = Chosen /\ Reply' = Reply
    BY <2>1 DEF AuthMsg, Request, Greeting, Chosen, Reply
  <2> QED
    BY <2>1, <2>2 DEF SocksIInv, Parties, ServerPart, ClientPart
<1> QED
  BY <1>1, <1>2

\* A handshake with a login whose parts fit their length bytes.
SocksSpec == SocksInit({h \in Handshakes : Fits(h.login)}) /\ [][SocksNext]_socksVars

\* Two ends that speak the same method understand each other, whatever the accounts, the
\* login, the address and the command, and whenever the client leaves.
THEOREM EndsUnderstandEachOther == SocksSpec => []HandshakeIsUnderstood
<1>1. SocksIInv => HandshakeIsUnderstood
  <2> SUFFICES ASSUME SocksIInv, authn \/ login = None
               PROVE  /\ serverAt = "done" => asked = wish /\ (authn => login \in Accounts) /\ toServer = <<>>
                      /\ clientAt = "done" => serverAt = "done" /\ bound = LocalAddr /\ toClient = <<>>
                      /\ ~(serverAt \in {"hello", "auth", "request"} /\ clientAt \in {"method", "auth", "reply"}
                           /\ toServer = <<>> /\ toClient = <<>>)
    BY DEF HandshakeIsUnderstood
  <2>1. ServerPart /\ ClientPart /\ Parties
    BY DEF SocksIInv
  <2>2. Greeting # <<>> /\ Chosen # <<>> /\ <<1, 0>> # <<>> /\ <<1, 1>> # <<>>
    <3>1. Len(<<>>) = 0 /\ 3 # 0 /\ 2 # 0
      OBVIOUS
    <3>2. Greeting # <<>> /\ Chosen # <<>>
      BY <3>1, Messages, Zenon
    <3>3. <<1, 0>> # <<>> /\ <<1, 1>> # <<>>
      OBVIOUS
    <3> QED
      BY <3>2, <3>3
  <2>3. Request # <<>>
    <3>1. Len(Request) = 3 + Len(wish.addr) /\ Len(wish.addr) \in Nat
      BY <2>1, RequestHasAddr, Zenon DEF AddrOf
    <3>2. PICK n \in Nat : n = Len(wish.addr)
      BY <3>1
    <3>3. Len(<<>>) = 0 /\ 3 + n # 0
      OBVIOUS
    <3> QED
      BY <3>1, <3>2, <3>3, Zenon
  <2>4. login # None => AuthMsg # <<>>
    <3> SUFFICES ASSUME login # None
                 PROVE  AuthMsg # <<>>
      OBVIOUS
    <3>1. Len(AuthMsg) = 2 + Len(login[1]) + (1 + Len(login[2]))
      BY <2>1, AuthMsgIs, Zenon DEF LoginOf
    <3>2. PICK n \in Nat, k \in Nat : n = Len(login[1]) /\ k = Len(login[2])
      BY <2>1, AuthMsgIs
    <3>3. Len(<<>>) = 0 /\ 2 + n + (1 + k) # 0
      OBVIOUS
    <3> QED
      BY <3>1, <3>2, <3>3, Zenon
  <2>5. serverAt = "done" => asked = wish /\ (authn => login \in Accounts) /\ toServer = <<>>
    BY <2>1 DEF ServerPart
  <2>6. clientAt = "done" => serverAt = "done" /\ bound = LocalAddr /\ toClient = <<>>
    BY <2>1 DEF ClientPart
  <2>7. ASSUME serverAt \in {"hello", "auth", "request"}, clientAt \in {"method", "auth", "reply"},
               toServer = <<>>, toClient = <<>>
        PROVE  FALSE
    <3>1. CASE clientAt = "method"
      BY <2>1, <2>2, <2>7, <3>1 DEF ClientPart
    <3>2. CASE clientAt = "auth"
      BY <2>1, <2>2, <2>4, <2>7, <3>2 DEF ClientPart
    <3>3. CASE clientAt = "reply"
      BY <2>1, <2>3, <2>7, <3>3 DEF ClientPart
    <3> QED
      BY <2>7, <3>1, <3>2, <3>3
  <2> QED
    BY <2>5, <2>6, <2>7
<1> QED
  BY <1>1, SocksInitIInv, SocksNextIInv, PTL DEF SocksSpec

-----------------------------------------------------------------------------
(* The LRU cache.                                                          *)

\* What is in a list, and what comes before what.
In(q, e) == \E i \in 1 .. Len(q) : q[i] = e
Before(q, a, b) == \E i, j \in 1 .. Len(q) : i < j /\ q[i] = a /\ q[j] = b
Once(q) == \A i, j \in 1 .. Len(q) : q[i] = q[j] => i = j

Entry == [key : LruKeys, value : LruValues, expires : Nat]

\* The map and the list of a cache agree.
Agree(c, es) ==
  /\ c.map \in [LruKeys -> Nat \cup {NoEntry}]
  /\ c.list \in Seq(1 .. Len(es)) /\ Once(c.list)
  /\ \A k \in LruKeys : c.map[k] # NoEntry => In(c.list, c.map[k]) /\ es[c.map[k]].key = k
  /\ \A e \in 1 .. Len(es) : In(c.list, e) => c.map[es[e].key] = e

\* The keys behind a key are among those used since.
Behind(c, es, u) ==
  \A k \in LruKeys, e \in 1 .. Len(es) :
    c.map[k] # NoEntry /\ Before(c.list, c.map[k], e) => es[e].key \in u[k]

\* A key that was evicted made room for maxSize others.
Evicted(c, u, d, size) ==
  \A k \in LruKeys : k \notin d /\ c.map[k] = NoEntry => size > 0 /\ Cardinality(u[k]) >= size

\* What has expired and is still there is among what was dropped.
Lapsed(c, es, d) ==
  \A k \in LruKeys : c.map[k] # NoEntry /\ Aged /\ es[c.map[k]].expires <= now => k \in d

\* A set of numbers has a least one.
LEMMA LeastOne ==
  ASSUME NEW T \in SUBSET Nat, T # {}
  PROVE  \E m \in T : \A j \in T : m <= j
<1>1. PICK R : R = OpToRel(<, Nat) /\ IsWellFoundedOn(R, Nat)
  BY NatLessThanWellFounded
<1>2. PICK m \in T : \A j \in T : ~(<<j, m>> \in R)
  BY <1>1, WFMin
<1>3. \A j \in T : ~(j < m)
  BY <1>1, <1>2 DEF OpToRel
<1> QED
  BY <1>3

\* A list of some things is a list of more things.
LEMMA MoreThings ==
  ASSUME NEW S, NEW T, S \subseteq T, NEW q \in Seq(S)
  PROVE  q \in Seq(T)
<1>1. PICK n \in Nat : q \in [1 .. n -> S]
  BY SeqDef
<1>2. q \in [1 .. n -> T]
  BY <1>1
<1> QED
  BY <1>2, SeqDef

\* An element is taken out of a list: the others stay, in order.
LEMMA WithoutKeeps ==
  ASSUME NEW S, NEW q \in Seq(S), Once(q), NEW e, In(q, e), NEW r, r = Without(q, e)
  PROVE  /\ r \in Seq(S) /\ Once(r) /\ Len(r) = Len(q) - 1
         /\ \A a : In(r, a) <=> In(q, a) /\ a # e
         /\ \A a, b : Before(r, a, b) => Before(q, a, b)
<1>1. PICK p : p = CHOOSE i \in 1 .. Len(q) : q[i] = e
  OBVIOUS
<1>2. p \in 1 .. Len(q) /\ q[p] = e /\ Len(q) \in Nat
  BY <1>1 DEF In
<1>3. PICK n \in Nat : n = Len(q) - 1
  BY <1>2
<1>4. r = [i \in 1 .. n |-> IF i < p THEN q[i] ELSE q[i + 1]]
  BY <1>1, <1>3 DEF Without
<1>5. \A i \in 1 .. n : IF i < p THEN i \in 1 .. Len(q) /\ r[i] = q[i] /\ i # p
                                 ELSE i + 1 \in 1 .. Len(q) /\ r[i] = q[i + 1] /\ i + 1 # p
  BY <1>2, <1>3, <1>4
<1>6. r \in Seq(S) /\ Len(r) = n
  <2>1. \A i \in 1 .. n : r[i] \in S
    BY <1>5
  <2>2. r \in [1 .. n -> S]
    BY <1>4, <2>1
  <2>3. r \in Seq(S)
    BY <1>3, <2>2, SeqDef
  <2>4. DOMAIN r = 1 .. n /\ DOMAIN r = 1 .. Len(r) /\ Len(r) \in Nat
    BY <2>2, <2>3, LenProperties
  <2> QED
    BY <1>3, <2>2, <2>3, <2>4, SMT
<1>7. Once(r)
  <2> SUFFICES ASSUME NEW i \in 1 .. n, NEW j \in 1 .. n, r[i] = r[j] PROVE i = j
    BY <1>6 DEF Once
  <2>1. CASE i < p /\ j < p
    BY <1>5, <2>1 DEF Once
  <2>2. CASE i < p /\ ~(j < p)
    <3>1. i \in 1 .. Len(q) /\ j + 1 \in 1 .. Len(q) /\ q[i] = q[j + 1]
      BY <1>5, <2>2
    <3>2. i = j + 1
      BY <3>1 DEF Once
    <3> QED
      BY <1>2, <2>2, <3>2
  <2>3. CASE ~(i < p) /\ j < p
    <3>1. j \in 1 .. Len(q) /\ i + 1 \in 1 .. Len(q) /\ q[j] = q[i + 1]
      BY <1>5, <2>3
    <3>2. j = i + 1
      BY <3>1 DEF Once
    <3> QED
      BY <1>2, <2>3, <3>2
  <2>4. CASE ~(i < p) /\ ~(j < p)
    <3>1. j + 1 \in 1 .. Len(q) /\ i + 1 \in 1 .. Len(q) /\ q[j + 1] = q[i + 1]
      BY <1>5, <2>4
    <3>2. j + 1 = i + 1
      BY <3>1 DEF Once
    <3> QED
      BY <3>2
  <2> QED
    BY <2>1, <2>2, <2>3, <2>4
<1>8. ASSUME NEW a, In(r, a) PROVE In(q, a) /\ a # e
  <2>1. PICK i \in 1 .. n : r[i] = a
    BY <1>6, <1>8 DEF In
  <2>2. PICK j \in 1 .. Len(q) : j # p /\ q[j] = a
    BY <1>5, <2>1
  <2> QED
    BY <1>2, <2>2 DEF In, Once
<1>9. ASSUME NEW a, In(q, a), a # e PROVE In(r, a)
  <2>1. PICK i \in 1 .. Len(q) : q[i] = a
    BY <1>9 DEF In
  <2>2. i # p
    BY <1>2, <1>9, <2>1
  <2>3. CASE i < p
    <3>1. i \in 1 .. n
      BY <1>2, <1>3, <2>3
    <3>2. r[i] = q[i]
      BY <1>5, <2>3, <3>1
    <3> QED
      BY <1>6, <2>1, <3>1, <3>2 DEF In
  <2>4. CASE i > p
    <3>1. i - 1 \in 1 .. n /\ ~(i - 1 < p) /\ (i - 1) + 1 = i
      BY <1>2, <1>3, <2>4
    <3>2. r[i - 1] = q[i]
      BY <1>5, <3>1
    <3> QED
      BY <1>6, <2>1, <3>1, <3>2 DEF In
  <2> QED
    BY <1>2, <2>2, <2>3, <2>4
<1>10. ASSUME NEW a, NEW b, Before(r, a, b) PROVE Before(q, a, b)
  <2>1. PICK i \in 1 .. n, j \in 1 .. n : i < j /\ r[i] = a /\ r[j] = b
    BY <1>6, <1>10 DEF Before
  <2>2. PICK f \in 1 .. Len(q), g \in 1 .. Len(q) : f < g /\ q[f] = a /\ q[g] = b
    <3>1. CASE j < p
      <4>1. i < p /\ i \in 1 .. Len(q) /\ j \in 1 .. Len(q) /\ q[i] = a /\ q[j] = b
        BY <1>2, <1>5, <2>1, <3>1
      <4> QED
        BY <2>1, <4>1
    <3>2. CASE ~(j < p) /\ i < p
      <4>1. i \in 1 .. Len(q) /\ j + 1 \in 1 .. Len(q) /\ i < j + 1 /\ q[i] = a /\ q[j + 1] = b
        BY <1>5, <2>1, <3>2
      <4> QED
        BY <4>1
    <3>3. CASE ~(j < p) /\ ~(i < p)
      <4>1. i + 1 \in 1 .. Len(q) /\ j + 1 \in 1 .. Len(q) /\ i + 1 < j + 1 /\ q[i + 1] = a /\ q[j + 1] = b
        BY <1>5, <2>1, <3>3
      <4> QED
        BY <4>1
    <3> QED
      BY <1>2, <2>1, <3>1, <3>2, <3>3
  <2> QED
    BY <2>2 DEF Before
<1> QED
  BY <1>3, <1>6, <1>7, <1>8, <1>9, <1>10

\* r is q and e behind it.
IsPushed(r, q, e) ==
  /\ Once(r)
  /\ \A a : In(r, a) <=> In(q, a) \/ a = e
  /\ \A a, b : Before(r, a, b) => Before(q, a, b) \/ (In(q, a) /\ b = e)

\* An element is put at the back.
LEMMA PushedBack ==
  ASSUME NEW S, NEW q \in Seq(S), Once(q), NEW e \in S, ~In(q, e)
  PROVE  Append(q, e) \in Seq(S) /\ IsPushed(Append(q, e), q, e)
<1>0. PICK r : r = Append(q, e)
  OBVIOUS
<1>1. /\ r \in Seq(S) /\ Len(q) \in Nat /\ Len(r) = Len(q) + 1 /\ r[Len(q) + 1] = e
      /\ \A j \in 1 .. Len(q) : j \in 1 .. Len(r) /\ r[j] = q[j]
      /\ \A j \in 1 .. Len(r) : j \in 1 .. Len(q) \/ j = Len(q) + 1
      /\ Len(q) + 1 \in 1 .. Len(r)
  BY <1>0
<1>2. \A j \in 1 .. Len(q) : q[j] # e
  BY DEF In
<1>3. Once(r)
  BY <1>1, <1>2 DEF Once
<1>4. \A a : In(r, a) <=> In(q, a) \/ a = e
  BY <1>1 DEF In
<1>5. ASSUME NEW a, NEW b, Before(r, a, b) PROVE Before(q, a, b) \/ (In(q, a) /\ b = e)
  <2>1. PICK i \in 1 .. Len(r), j \in 1 .. Len(r) : i < j /\ r[i] = a /\ r[j] = b
    BY <1>5 DEF Before
  <2>2. i \in 1 .. Len(q)
    BY <1>1, <2>1
  <2>3. CASE j \in 1 .. Len(q)
    BY <1>1, <2>1, <2>2, <2>3 DEF Before
  <2>4. CASE j = Len(q) + 1
    BY <1>1, <2>1, <2>2, <2>4 DEF In
  <2> QED
    BY <1>1, <2>1, <2>3, <2>4
<1> QED
  BY <1>0, <1>1, <1>3, <1>4, <1>5 DEF IsPushed

\* r is q without the elements of G.
IsCut(r, q, G) ==
  /\ Once(r)
  /\ \A a : In(r, a) <=> In(q, a) /\ a \notin G
  /\ \A a, b : Before(r, a, b) => Before(q, a, b)

\* The first elements are taken off.
LEMMA CutOff ==
  ASSUME NEW S, NEW q \in Seq(S), Once(q), NEW n \in 0 .. Len(q), NEW r, r = SubSeq(q, n + 1, Len(q)),
         NEW G, G = {q[i] : i \in 1 .. n}
  PROVE  r \in Seq(S) /\ IsCut(r, q, G)
<1>0. Len(q) \in Nat /\ n \in Nat
  OBVIOUS
<1>1. /\ r \in Seq(S) /\ Len(r) = Len(q) - n
      /\ \A i \in 1 .. Len(r) : r[i] = q[i + n]
  BY <1>0, SubSeqProperties
<1>2. \A i \in 1 .. Len(r) : i + n \in 1 .. Len(q) /\ r[i] = q[i + n]
  BY <1>0, <1>1
<1>3. Once(r)
  <2> SUFFICES ASSUME NEW i \in 1 .. Len(r), NEW j \in 1 .. Len(r), r[i] = r[j] PROVE i = j
    BY DEF Once
  <2>1. i + n \in 1 .. Len(q) /\ j + n \in 1 .. Len(q) /\ q[i + n] = q[j + n]
    BY <1>2
  <2>2. i + n = j + n
    BY <2>1 DEF Once
  <2> QED
    BY <1>0, <2>2
<1>4. ASSUME NEW a, In(r, a) PROVE In(q, a) /\ a \notin G
  <2>1. PICK i \in 1 .. Len(r) : r[i] = a
    BY <1>4 DEF In
  <2>2. i + n \in 1 .. Len(q) /\ q[i + n] = a
    BY <1>2, <2>1
  <2>3. \A j \in 1 .. n : j \in 1 .. Len(q) /\ j # i + n
    BY <1>0, <1>1, <2>1
  <2>4. \A j \in 1 .. n : q[j] # a
    BY <2>2, <2>3 DEF Once
  <2> QED
    BY <2>2, <2>4 DEF In
<1>5. ASSUME NEW a, In(q, a), a \notin G PROVE In(r, a)
  <2>1. PICK i \in 1 .. Len(q) : q[i] = a
    BY <1>5 DEF In
  <2>2. i \notin 1 .. n
    BY <1>5, <2>1
  <2>3. i - n \in 1 .. Len(r) /\ (i - n) + n = i
    BY <1>0, <1>1, <2>2
  <2>4. r[i - n] = a
    BY <1>1, <2>1, <2>3
  <2> QED
    BY <2>3, <2>4 DEF In
<1>6. ASSUME NEW a, NEW b, Before(r, a, b) PROVE Before(q, a, b)
  <2>1. PICK i \in 1 .. Len(r), j \in 1 .. Len(r) : i < j /\ r[i] = a /\ r[j] = b
    BY <1>6 DEF Before
  <2>2. i + n \in 1 .. Len(q) /\ j + n \in 1 .. Len(q) /\ i + n < j + n /\ q[i + n] = a /\ q[j + n] = b
    BY <1>0, <1>2, <2>1
  <2> QED
    BY <2>2 DEF Before
<1> QED
  BY <1>1, <1>3, <1>4, <1>5, <1>6 DEF IsCut

\* The front comes before all others.
LEMMA FrontFirst ==
  ASSUME NEW S, NEW q \in Seq(S), q # <<>>, Once(q)
  PROVE  /\ In(q, Head(q)) /\ Head(q) = q[1]
         /\ \A i \in 2 .. Len(q) : Before(q, Head(q), q[i]) /\ q[i] # Head(q)
<1>1. Len(q) \in Nat /\ 1 \in 1 .. Len(q) /\ Head(q) = q[1]
  OBVIOUS
<1>2. \A i \in 2 .. Len(q) : i \in 1 .. Len(q) /\ 1 < i
  BY <1>1
<1> QED
  BY <1>1, <1>2 DEF In, Before, Once

\* An element is moved to the back.
IsBack(r, q, e) ==
  /\ Once(r)
  /\ \A a : In(r, a) <=> In(q, a)
  /\ \A a, b : Before(r, a, b) => a # e /\ (Before(q, a, b) \/ b = e)

LEMMA BackAgain ==
  ASSUME NEW S, NEW q \in Seq(S), Once(q), NEW e \in S, In(q, e)
  PROVE  Append(Without(q, e), e) \in Seq(S) /\ IsBack(Append(Without(q, e), e), q, e)
<1>0. PICK r : r = Append(Without(q, e), e)
  OBVIOUS
<1>1. PICK w \in Seq(S) : w = Without(q, e) /\ Once(w) /\ ~In(w, e)
  BY WithoutKeeps
<1>2. /\ \A a : In(w, a) <=> In(q, a) /\ a # e
      /\ \A a, b : Before(w, a, b) => Before(q, a, b)
  BY <1>1, WithoutKeeps
<1>3. r = Append(w, e)
  BY <1>0, <1>1
<1>4. r \in Seq(S) /\ IsPushed(r, w, e)
  BY <1>1, <1>3, PushedBack
<1>7. \A a, b : Before(w, a, b) => In(w, a)
  BY DEF Before, In
<1> QED
  BY <1>1, <1>0, <1>2, <1>4, <1>7 DEF IsPushed, IsBack

\* A new number is put at the back.
LEMMA PushedNext ==
  ASSUME NEW m \in Nat, NEW q \in Seq(1 .. m), Once(q), NEW e, e = m + 1
  PROVE  Append(q, e) \in Seq(1 .. m + 1) /\ IsPushed(Append(q, e), q, e)
<1>1. PICK T : T = 1 .. m + 1 /\ e \in T /\ 1 .. m \subseteq T
  OBVIOUS
<1>2. q \in Seq(T)
  BY <1>1, MoreThings
<1>3. ~In(q, e)
  BY DEF In
<1> QED
  BY <1>1, <1>2, <1>3, PushedBack

\* What an entry is.
LEMMA EntryIs ==
  ASSUME NEW es \in Seq(Entry), NEW e \in 1 .. Len(es)
  PROVE  es[e] \in Entry /\ es[e].key \in LruKeys /\ es[e].expires \in Nat
<1>1. es[e] \in Entry
  BY ElementOfSeq
<1> QED
  BY <1>1 DEF Entry

\* What a step may do to the table of entries: keys stay, and an entry that gets another
\* time expires later than now.
Renewed(es, fs) ==
  /\ fs \in Seq(Entry) /\ Len(fs) >= Len(es)
  /\ \A e \in 1 .. Len(es) :
       fs[e].key = es[e].key /\ (fs[e].expires = es[e].expires \/ ~Aged \/ fs[e].expires > now)

\* A cache that is not touched while the table changes.
LEMMA TableChanges ==
  ASSUME NEW es \in Seq(Entry), NEW fs, Renewed(es, fs), NEW c, Agree(c, es), now \in Nat
  PROVE  /\ Agree(c, fs)
         /\ \A u : Behind(c, es, u) => Behind(c, fs, u)
         /\ \A d : Lapsed(c, es, d) => Lapsed(c, fs, d)
<1>1. Len(es) \in Nat /\ Len(fs) \in Nat /\ Len(fs) >= Len(es) /\ fs \in Seq(Entry)
  BY DEF Renewed
<1>2. c.list \in Seq(1 .. Len(fs))
  <2>1. c.list \in Seq(1 .. Len(es)) /\ 1 .. Len(es) \subseteq 1 .. Len(fs)
    BY <1>1 DEF Agree
  <2> QED
    BY <2>1, MoreThings
<1>3. \A e : In(c.list, e) => e \in 1 .. Len(es)
  BY DEF Agree, In
<1>4. \A e : In(c.list, e) => fs[e].key = es[e].key
  BY <1>3 DEF Renewed
<1>5. Agree(c, fs)
  BY <1>2, <1>3, <1>4 DEF Agree
<1>6. \A a, b : Before(c.list, a, b) => In(c.list, b)
  BY DEF Before, In
<1>7. ASSUME NEW u, Behind(c, es, u) PROVE Behind(c, fs, u)
  BY <1>3, <1>4, <1>6, <1>7 DEF Behind
<1>8. ASSUME NEW d, Lapsed(c, es, d) PROVE Lapsed(c, fs, d)
  <2> SUFFICES ASSUME NEW k \in LruKeys, c.map[k] # NoEntry, Aged, fs[c.map[k]].expires <= now
               PROVE  k \in d
    BY DEF Lapsed
  <2>1. PICK e \in 1 .. Len(es) : e = c.map[k]
    BY <1>3 DEF Agree
  <2>2. fs[e] \in Entry /\ fs[e].expires \in Nat
    BY <1>1, <2>1, EntryIs
  <2>3. fs[e].expires = es[e].expires
    BY <2>1, <2>2 DEF Renewed
  <2> QED
    BY <1>8, <2>1, <2>3 DEF Lapsed
<1> QED
  BY <1>5, <1>7, <1>8

\* d is c without key k.
IsDeleted(d, c, es, k) ==
  /\ Agree(d, es) /\ d.map = [c.map EXCEPT ![k] = NoEntry]
  /\ \A u : Behind(c, es, u) => Behind(d, es, u)

\* An element is deleted.
LEMMA Deleted ==
  ASSUME NEW es \in Seq(Entry), NEW c, Agree(c, es), NEW k \in LruKeys, c.map[k] # NoEntry,
         NEW d, d = DeleteElement(c, es, c.map[k])
  PROVE  IsDeleted(d, c, es, k)
<1>1. PICK e \in 1 .. Len(es) : e = c.map[k] /\ In(c.list, e) /\ es[e].key = k
  BY DEF Agree, In
<1>2. d.map = [c.map EXCEPT ![k] = NoEntry] /\ d.list = Without(c.list, e)
  BY <1>1 DEF DeleteElement
<1>3. c.list \in Seq(1 .. Len(es)) /\ Once(c.list) /\ c.map \in [LruKeys -> Nat \cup {NoEntry}]
  BY DEF Agree
<1>4. PICK q \in Seq(1 .. Len(es)) : q = c.list /\ Once(q) /\ In(q, e)
  BY <1>1, <1>3
<1>5. PICK r : r = d.list /\ r = Without(q, e)
  BY <1>2, <1>4
<1>6. /\ r \in Seq(1 .. Len(es)) /\ Once(r)
      /\ \A a : In(r, a) <=> In(q, a) /\ a # e
      /\ \A a, b : Before(r, a, b) => Before(q, a, b)
  BY <1>4, <1>5, WithoutKeeps
<1>7. d.map \in [LruKeys -> Nat \cup {NoEntry}] /\ d.map[k] = NoEntry /\ \A j \in LruKeys : j # k => d.map[j] = c.map[j]
  BY <1>2, <1>3
<1>8. ASSUME NEW j \in LruKeys, d.map[j] # NoEntry PROVE In(r, d.map[j]) /\ es[d.map[j]].key = j
  <2>1. j # k /\ d.map[j] = c.map[j]
    BY <1>7, <1>8
  <2>2. In(q, c.map[j]) /\ es[c.map[j]].key = j
    BY <1>4, <1>8, <2>1 DEF Agree
  <2>3. c.map[j] # e
    BY <1>1, <2>1, <2>2
  <2> QED
    BY <1>6, <2>1, <2>2, <2>3
<1>9. ASSUME NEW a \in 1 .. Len(es), In(r, a) PROVE d.map[es[a].key] = a
  <2>1. In(q, a) /\ a # e
    BY <1>6, <1>9
  <2>2. c.map[es[a].key] = a
    BY <1>4, <2>1 DEF Agree
  <2>3. es[a].key \in LruKeys /\ es[a].key # k
    BY <1>1, <2>1, <2>2, EntryIs
  <2> QED
    BY <1>7, <2>2, <2>3
<1>10. Agree(d, es)
  BY <1>5, <1>6, <1>7, <1>8, <1>9 DEF Agree
<1>11. ASSUME NEW u, Behind(c, es, u) PROVE Behind(d, es, u)
  BY <1>4, <1>5, <1>6, <1>7, <1>11 DEF Behind
<1> QED
  BY <1>2, <1>10, <1>11 DEF IsDeleted

\* The keys used since, after a use of k.
AfterUse(u, k) == [j \in LruKeys |-> IF j = k THEN {} ELSE u[j] \cup {k}]

\* An element is moved to the back.
LEMMA Touched ==
  ASSUME NEW es \in Seq(Entry), NEW c, Agree(c, es), NEW k \in LruKeys, c.map[k] # NoEntry,
         NEW d, d = MoveToBack(c, c.map[k])
  PROVE  /\ Agree(d, es) /\ d.map = c.map
         /\ \A u : Behind(c, es, u) => Behind(d, es, AfterUse(u, k))
<1>1. PICK e \in 1 .. Len(es) : e = c.map[k] /\ In(c.list, e) /\ es[e].key = k
  BY DEF Agree, In
<1>2. d.map = c.map /\ d.list = Append(Without(c.list, e), e)
  BY <1>1 DEF MoveToBack
<1>3. c.list \in Seq(1 .. Len(es)) /\ Once(c.list) /\ c.map \in [LruKeys -> Nat \cup {NoEntry}]
  BY DEF Agree
<1>4. PICK q \in Seq(1 .. Len(es)) : q = c.list /\ Once(q) /\ In(q, e)
  BY <1>1, <1>3
<1>5. PICK r : r = d.list /\ r = Append(Without(q, e), e)
  BY <1>2, <1>4
<1>6. /\ r \in Seq(1 .. Len(es)) /\ Once(r)
      /\ \A a : In(r, a) <=> In(q, a)
      /\ \A a, b : Before(r, a, b) => a # e /\ (Before(q, a, b) \/ b = e)
  <2>1. r \in Seq(1 .. Len(es)) /\ IsBack(r, q, e)
    BY <1>4, <1>5, BackAgain
  <2> QED
    BY <2>1 DEF IsBack
<1>7. Agree(d, es)
  BY <1>2, <1>3, <1>4, <1>5, <1>6 DEF Agree
<1>8. ASSUME NEW u, Behind(c, es, u) PROVE Behind(d, es, AfterUse(u, k))
  <2> SUFFICES ASSUME NEW j \in LruKeys, NEW b \in 1 .. Len(es), d.map[j] # NoEntry, Before(r, d.map[j], b)
               PROVE  es[b].key \in AfterUse(u, k)[j]
    BY <1>5 DEF Behind
  <2>1. j # k
    BY <1>1, <1>2, <1>6
  <2>2. Before(q, c.map[j], b) \/ b = e
    BY <1>2, <1>6
  <2>3. es[b].key \in u[j] \/ es[b].key = k
    BY <1>1, <1>2, <1>4, <1>8, <2>2 DEF Behind
  <2> QED
    BY <2>1, <2>3 DEF AfterUse
<1> QED
  BY <1>2, <1>7, <1>8

\* A new entry is put at the back.
LEMMA Pushed ==
  ASSUME NEW es \in Seq(Entry), NEW c, Agree(c, es), NEW k \in LruKeys, c.map[k] = NoEntry, LruAssumption,
         NEW new \in Entry, new.key = k, NEW fs, fs = Append(es, new),
         NEW d, d = [map |-> [c.map EXCEPT ![k] = Len(fs)], list |-> Append(c.list, Len(fs))]
  PROVE  /\ Agree(d, fs) /\ d.map = [c.map EXCEPT ![k] = Len(fs)] /\ Len(fs) \in Nat
         /\ \A u : Behind(c, es, u) => Behind(d, fs, AfterUse(u, k))
<1>1. /\ fs \in Seq(Entry) /\ Len(es) \in Nat /\ Len(fs) = Len(es) + 1 /\ Len(fs) \in Nat
      /\ fs[Len(es) + 1] = new /\ \A e \in 1 .. Len(es) : fs[e] = es[e]
  OBVIOUS
<1>2. PICK e \in 1 .. Len(fs) : e = Len(fs) /\ e \notin 1 .. Len(es) /\ fs[e].key = k /\ e \in Nat
  BY <1>1
<1>3. d.map = [c.map EXCEPT ![k] = e] /\ d.list = Append(c.list, e)
  BY <1>2
<1>4. c.list \in Seq(1 .. Len(es)) /\ Once(c.list) /\ c.map \in [LruKeys -> Nat \cup {NoEntry}]
  BY DEF Agree
<1>5. PICK q \in Seq(1 .. Len(es)) : q = c.list /\ Once(q)
  BY <1>4
<1>6. \A a : In(q, a) => a \in 1 .. Len(es)
  BY <1>4, <1>5 DEF In
<1>7. PICK r : r = d.list /\ r = Append(q, e)
  BY <1>3, <1>5
<1>8. /\ r \in Seq(1 .. Len(fs)) /\ Once(r)
      /\ \A a : In(r, a) <=> In(q, a) \/ a = e
      /\ \A a, b : Before(r, a, b) => In(q, a) /\ (Before(q, a, b) \/ b = e)
  <2>1. PICK m \in Nat : m = Len(es) /\ e = m + 1 /\ Len(fs) = m + 1
    BY <1>1, <1>2
  <2>2. PICK p \in Seq(1 .. m) : p = q
    BY <2>1
  <2>3. r \in Seq(1 .. m + 1) /\ IsPushed(r, q, e)
    BY <1>5, <1>7, <2>1, <2>2, PushedNext
  <2>4. \A a, b : Before(q, a, b) => In(q, a)
    BY DEF Before, In
  <2> QED
    BY <2>1, <2>3, <2>4 DEF IsPushed
<1>9. d.map \in [LruKeys -> Nat \cup {NoEntry}] /\ d.map[k] = e /\ \A j \in LruKeys : j # k => d.map[j] = c.map[j]
  BY <1>2, <1>3, <1>4
<1>10. ASSUME NEW j \in LruKeys, d.map[j] # NoEntry PROVE In(r, d.map[j]) /\ fs[d.map[j]].key = j
  <2>1. CASE j = k
    BY <1>2, <1>8, <1>9, <2>1
  <2>2. CASE j # k
    <3>1. In(q, c.map[j]) /\ es[c.map[j]].key = j
      BY <1>5, <1>9, <1>10, <2>2 DEF Agree
    <3> QED
      BY <1>1, <1>6, <1>8, <1>9, <2>2, <3>1
  <2> QED
    BY <2>1, <2>2
<1>11. ASSUME NEW a \in 1 .. Len(fs), In(r, a) PROVE d.map[fs[a].key] = a
  <2>1. CASE a = e
    BY <1>2, <1>9, <2>1
  <2>2. CASE a # e
    <3>1. In(q, a) /\ a \in 1 .. Len(es) /\ fs[a] = es[a]
      BY <1>1, <1>6, <1>8, <1>11, <2>2
    <3>2. c.map[es[a].key] = a /\ es[a].key \in LruKeys
      BY <1>5, <3>1, EntryIs DEF Agree
    <3>3. a # NoEntry
      BY LruAssumption
    <3>4. es[a].key # k
      BY <3>2, <3>3
    <3> QED
      BY <1>9, <3>1, <3>2, <3>4
  <2> QED
    BY <2>1, <2>2
<1>12. Agree(d, fs)
  <2>1. \A j \in LruKeys : d.map[j] # NoEntry => In(d.list, d.map[j]) /\ fs[d.map[j]].key = j
    BY <1>7, <1>10
  <2>2. \A a \in 1 .. Len(fs) : In(d.list, a) => d.map[fs[a].key] = a
    BY <1>7, <1>11
  <2>3. d.list \in Seq(1 .. Len(fs)) /\ Once(d.list) /\ d.map \in [LruKeys -> Nat \cup {NoEntry}]
    BY <1>7, <1>8, <1>9
  <2> QED
    BY <2>1, <2>2, <2>3, Zenon DEF Agree
<1>13. ASSUME NEW u, Behind(c, es, u) PROVE Behind(d, fs, AfterUse(u, k))
  <2> SUFFICES ASSUME NEW j \in LruKeys, NEW b \in 1 .. Len(fs), d.map[j] # NoEntry, Before(r, d.map[j], b)
               PROVE  fs[b].key \in AfterUse(u, k)[j]
    BY <1>7 DEF Behind
  <2>0. \A a, g : Before(q, a, g) => In(q, a) /\ In(q, g)
    BY DEF Before, In
  <2>1. In(q, d.map[j])
    BY <1>8, <2>0
  <2>2. j # k
    BY <1>2, <1>6, <1>9, <2>1
  <2>3. Before(q, c.map[j], b) \/ b = e
    BY <1>8, <1>9, <2>2
  <2>4. CASE b = e
    BY <1>2, <2>2, <2>4 DEF AfterUse
  <2>5. CASE Before(q, c.map[j], b)
    <3>1. b \in 1 .. Len(es) /\ fs[b] = es[b]
      BY <1>1, <1>6, <2>0, <2>5
    <3>2. es[b].key \in u[j]
      BY <1>5, <1>9, <1>13, <2>2, <2>5, <3>1 DEF Behind
    <3> QED
      BY <2>2, <3>1, <3>2 DEF AfterUse
  <2> QED
    BY <2>3, <2>4, <2>5
<1> QED
  BY <1>1, <1>2, <1>3, <1>12, <1>13

\* What has expired at the front is deleted, and nothing else.
LEMMA Trimmed ==
  ASSUME NEW es \in Seq(Entry), NEW c, Agree(c, es), now \in Nat, NEW d, d = MaybeDeleteOldest(c, es)
  PROVE  /\ Agree(d, es)
         /\ \A k \in LruKeys : \/ d.map[k] = c.map[k]
                               \/ /\ d.map[k] = NoEntry /\ c.map[k] # NoEntry
                                  /\ Aged /\ es[c.map[k]].expires <= now
         /\ \A u : Behind(c, es, u) => Behind(d, es, u)
<1>1. CASE ~Aged
  <2>1. d = c
    BY <1>1 DEF MaybeDeleteOldest
  <2> QED
    BY <2>1
<1>2. CASE Aged
  <2>1. c.list \in Seq(1 .. Len(es)) /\ Once(c.list) /\ c.map \in [LruKeys -> Nat \cup {NoEntry}] /\ Len(c.list) \in Nat
    BY DEF Agree
  <2>2. PICK q \in Seq(1 .. Len(es)) : q = c.list /\ Once(q) /\ Len(q) \in Nat
    BY <2>1
  <2>3. PICK stop : stop = {i \in 1 .. Len(q) : es[q[i]].expires > now}
    OBVIOUS
  <2>4. PICK n \in 0 .. Len(q) :
          /\ n = Outdated(q, es)
          /\ \A i \in 1 .. n : i \notin stop
    <3>1. CASE stop = {}
      <4>1. Outdated(q, es) = Len(q)
        BY <2>3, <3>1, Zenon DEF Outdated
      <4> QED
        BY <2>2, <3>1, <4>1
    <3>2. CASE stop # {}
      <4>1. stop \in SUBSET Nat
        BY <2>3
      <4>2. PICK m : m = CHOOSE i \in stop : \A j \in stop : i <= j
        OBVIOUS
      <4>3. m \in stop /\ \A j \in stop : m <= j
        BY <3>2, <4>1, <4>2, LeastOne
      <4>4. m \in 1 .. Len(q) /\ m - 1 \in 0 .. Len(q)
        BY <2>2, <2>3, <4>3
      <4>5. \A i \in 1 .. m - 1 : i \notin stop
        BY <4>3, <4>4
      <4>6. Outdated(q, es) = m - 1
        BY <3>2, <2>3, <4>2, Zenon DEF Outdated
      <4> QED
        BY <4>4, <4>5, <4>6
    <3> QED
      BY <3>1, <3>2
  <2>5. PICK G : G = {q[i] : i \in 1 .. n}
    OBVIOUS
  <2>6. d = [map |-> [k \in LruKeys |-> IF c.map[k] \in G THEN NoEntry ELSE c.map[k]],
             list |-> SubSeq(q, n + 1, Len(q))]
    BY <1>2, <2>2, <2>4, <2>5 DEF MaybeDeleteOldest
  <2>7. PICK r : r = d.list /\ r = SubSeq(q, n + 1, Len(q))
    BY <2>6
  <2>8. /\ r \in Seq(1 .. Len(es)) /\ Once(r)
        /\ \A a : In(r, a) <=> In(q, a) /\ a \notin G
        /\ \A a, b : Before(r, a, b) => Before(q, a, b)
    <3>1. r \in Seq(1 .. Len(es)) /\ IsCut(r, q, G)
      BY <2>2, <2>5, <2>7, CutOff
    <3> QED
      BY <3>1 DEF IsCut
  <2>9. /\ d.map \in [LruKeys -> Nat \cup {NoEntry}]
        /\ \A k \in LruKeys : d.map[k] = IF c.map[k] \in G THEN NoEntry ELSE c.map[k]
    BY <2>1, <2>6
  <2>10. \A a \in G : a \in 1 .. Len(es) /\ es[a].expires <= now
    <3> SUFFICES ASSUME NEW i \in 1 .. n PROVE q[i] \in 1 .. Len(es) /\ es[q[i]].expires <= now
      BY <2>5
    <3>1. i \in 1 .. Len(q) /\ i \notin stop
      BY <2>2, <2>4
    <3>2. q[i] \in 1 .. Len(es)
      BY <2>2, <3>1, ElementOfSeq
    <3>3. es[q[i]].expires \in Nat /\ ~(es[q[i]].expires > now)
      BY <2>3, <3>1, <3>2, EntryIs
    <3> QED
      BY <3>2, <3>3
  <2>11. Agree(d, es)
    <3>1. \A k \in LruKeys : d.map[k] # NoEntry => In(d.list, d.map[k]) /\ es[d.map[k]].key = k
      BY <2>2, <2>7, <2>8, <2>9 DEF Agree
    <3>2. ASSUME NEW a \in 1 .. Len(es), In(r, a) PROVE d.map[es[a].key] = a
      <4>1. In(q, a) /\ a \notin G
        BY <2>8, <3>2
      <4>2. c.map[es[a].key] = a /\ es[a].key \in LruKeys
        BY <2>2, <4>1, EntryIs DEF Agree
      <4> QED
        BY <2>9, <4>1, <4>2
    <3> QED
      BY <2>7, <2>8, <2>9, <3>1, <3>2 DEF Agree
  <2>12. ASSUME NEW k \in LruKeys, d.map[k] # c.map[k]
         PROVE  d.map[k] = NoEntry /\ c.map[k] # NoEntry /\ Aged /\ es[c.map[k]].expires <= now
    BY <1>2, <2>9, <2>10, <2>12
  <2>13. ASSUME NEW u, Behind(c, es, u) PROVE Behind(d, es, u)
    BY <2>2, <2>7, <2>8, <2>9, <2>13 DEF Behind
  <2> QED
    BY <2>11, <2>12, <2>13
<1> QED
  BY <1>1, <1>2

\* The front makes room only for as many other keys as the cache holds.
LEMMA Evicts ==
  ASSUME NEW x \in Caches, conf.maxSize[x] \in Nat, NEW es \in Seq(Entry), NEW c, Agree(c, es),
         NEW u \in [LruKeys -> SUBSET LruKeys], Behind(c, es, u), \A k \in LruKeys : IsFiniteSet(u[k]),
         NEW d, d = Evict(x, c, es)
  PROVE  /\ Agree(d, es) /\ Behind(d, es, u)
         /\ \A k \in LruKeys : \/ d.map[k] = c.map[k]
                               \/ /\ d.map[k] = NoEntry
                                  /\ conf.maxSize[x] > 0 /\ Cardinality(u[k]) >= conf.maxSize[x]
<1>1. CASE ~(conf.maxSize[x] > 0 /\ Len(c.list) > conf.maxSize[x])
  <2>1. d = c
    BY <1>1 DEF Evict
  <2> QED
    BY <2>1
<1>2. CASE conf.maxSize[x] > 0 /\ Len(c.list) > conf.maxSize[x]
  <2>1. PICK q \in Seq(1 .. Len(es)) : q = c.list /\ Once(q) /\ Len(q) \in Nat
    BY DEF Agree
  <2>2. PICK size \in Nat : size = conf.maxSize[x] /\ size > 0 /\ Len(q) >= size + 1
    BY <1>2, <2>1
  <2>3. q # <<>>
    BY <2>1, <2>2
  <2>4. /\ In(q, Head(q)) /\ Head(q) = q[1] /\ Head(q) \in 1 .. Len(es)
        /\ \A i \in 2 .. Len(q) : Before(q, Head(q), q[i]) /\ q[i] # Head(q)
    <3>1. 1 \in 1 .. Len(q)
      BY <2>1, <2>2
    <3>2. q[1] \in 1 .. Len(es)
      BY <3>1, ElementOfSeq
    <3> QED
      BY <2>1, <2>3, <3>2, FrontFirst
  <2>5. PICK k \in LruKeys : k = es[Head(q)].key
    BY <2>4, EntryIs
  <2>6. c.map[k] = Head(q)
    BY <2>1, <2>4, <2>5 DEF Agree
  <2>7. c.map[k] # NoEntry
    BY <2>4, <2>6, LruAssumption
  <2>8. d = DeleteElement(c, es, c.map[k])
    <3>1. d = DeleteElement(c, es, Head(c.list))
      BY <1>2 DEF Evict
    <3> QED
      BY <2>1, <2>6, <3>1
  <2>9. Agree(d, es) /\ Behind(d, es, u) /\ d.map = [c.map EXCEPT ![k] = NoEntry]
    <3>1. IsDeleted(d, c, es, k)
      BY <2>7, <2>8, Deleted
    <3> QED
      BY <3>1 DEF IsDeleted
  <2>10. c.map \in [LruKeys -> Nat \cup {NoEntry}]
    BY DEF Agree
  <2>11. d.map[k] = NoEntry /\ \A j \in LruKeys : j # k => d.map[j] = c.map[j]
    BY <2>9, <2>10
  <2>12. \A i \in 1 .. size : i + 1 \in 1 .. Len(q) /\ i + 1 \in 2 .. Len(q) /\ q[i + 1] \in 1 .. Len(es)
    <3>1. \A i \in 1 .. size : i + 1 \in 1 .. Len(q) /\ i + 1 \in 2 .. Len(q)
      BY <2>1, <2>2
    <3> QED
      BY <3>1, ElementOfSeq
  <2>13. PICK f : f = [i \in 1 .. size |-> es[q[i + 1]].key]
    OBVIOUS
  <2>14. \A i \in 1 .. size : f[i] = es[q[i + 1]].key /\ f[i] \in u[k] /\ c.map[f[i]] = q[i + 1]
    <3> TAKE i \in 1 .. size
    <3>1. PICK e \in 1 .. Len(es) : e = q[i + 1] /\ Before(q, c.map[k], e) /\ In(q, e)
      BY <2>4, <2>6, <2>12 DEF In
    <3>2. es[e].key \in u[k]
      BY <2>1, <2>7, <3>1 DEF Behind
    <3>3. c.map[es[e].key] = e
      BY <2>1, <3>1 DEF Agree
    <3> QED
      BY <2>13, <3>1, <3>2, <3>3
  <2>15. \A i, j \in 1 .. size : f[i] = f[j] => i = j
    <3> SUFFICES ASSUME NEW i \in 1 .. size, NEW j \in 1 .. size, f[i] = f[j] PROVE i = j
      OBVIOUS
    <3>1. q[i + 1] = q[j + 1]
      <4>1. c.map[f[i]] = q[i + 1] /\ c.map[f[j]] = q[j + 1]
        BY <2>14
      <4> QED
        BY <4>1
    <3>2. i + 1 = j + 1
      BY <2>1, <2>12, <3>1 DEF Once
    <3> QED
      BY <3>2
  <2>16. f \in Injection(1 .. size, u[k])
    <3>1. f \in [1 .. size -> u[k]]
      BY <2>13, <2>14
    <3> QED
      BY <2>15, <3>1 DEF Injection, IsInjective
  <2>17. Cardinality(1 .. size) = size
    BY <2>2, FS_Interval
  <2>18. Cardinality(1 .. size) <= Cardinality(u[k])
    BY <2>16, FS_Injection
  <2>19. Cardinality(u[k]) >= size
    <3>1. Cardinality(u[k]) \in Nat
      BY FS_CardinalityType
    <3> QED
      BY <2>17, <2>18, <3>1
  <2> QED
    BY <2>2, <2>9, <2>11, <2>19
<1> QED
  BY <1>1, <1>2

\* What holds of one cache.
Kept(c, es, u, d, size) == Agree(c, es) /\ Behind(c, es, u) /\ Evicted(c, u, d, size) /\ Lapsed(c, es, d)

UseTypes(u) == u \in [LruKeys -> SUBSET LruKeys] /\ \A k \in LruKeys : IsFiniteSet(u[k])

\* Only the map and the list of a cache count.
LEMMA KeptSame ==
  ASSUME NEW c, NEW e, c.map = e.map, c.list = e.list, NEW es, NEW u, NEW d, NEW size, Kept(c, es, u, d, size)
  PROVE  Kept(e, es, u, d, size)
BY DEF Kept, Agree, Behind, Evicted, Lapsed

LEMMA KeptTable ==
  ASSUME NEW es \in Seq(Entry), NEW fs, Renewed(es, fs), now \in Nat, NEW c, NEW u, NEW d, NEW size,
         Kept(c, es, u, d, size)
  PROVE  Kept(c, fs, u, d, size)
<1>1. Agree(c, es) /\ Behind(c, es, u) /\ Lapsed(c, es, d) /\ Evicted(c, u, d, size)
  BY DEF Kept
<1>2. Agree(c, fs) /\ Behind(c, fs, u) /\ Lapsed(c, fs, d)
  BY <1>1, TableChanges
<1> QED
  BY <1>1, <1>2 DEF Kept

LEMMA KeptTrimmed ==
  ASSUME NEW es \in Seq(Entry), now \in Nat, NEW c, NEW u, NEW d, NEW size, Kept(c, es, u, d, size),
         NEW r, r = MaybeDeleteOldest(c, es)
  PROVE  Kept(r, es, u, d, size)
<1>1. Agree(c, es) /\ Behind(c, es, u) /\ Lapsed(c, es, d) /\ Evicted(c, u, d, size)
  BY DEF Kept
<1>2. Agree(r, es) /\ Behind(r, es, u)
  BY <1>1, Trimmed
<1>3. \A k \in LruKeys : \/ r.map[k] = c.map[k]
                         \/ /\ r.map[k] = NoEntry /\ c.map[k] # NoEntry
                            /\ Aged /\ es[c.map[k]].expires <= now
  BY <1>1, Trimmed
<1>4. Evicted(r, u, d, size)
  BY <1>1, <1>3 DEF Evicted, Lapsed
<1>5. Lapsed(r, es, d)
  BY <1>1, <1>3 DEF Lapsed
<1> QED
  BY <1>2, <1>4, <1>5 DEF Kept

LEMMA KeptDeleted ==
  ASSUME NEW es \in Seq(Entry), NEW c, NEW u, NEW d, NEW size, Kept(c, es, u, d, size),
         NEW k \in LruKeys, c.map[k] # NoEntry, NEW r, r = DeleteElement(c, es, c.map[k])
  PROVE  Kept(r, es, u, d \cup {k}, size)
<1>1. Agree(c, es) /\ Behind(c, es, u) /\ Lapsed(c, es, d) /\ Evicted(c, u, d, size)
  BY DEF Kept
<1>2. IsDeleted(r, c, es, k)
  BY <1>1, Deleted
<1>3. Agree(r, es) /\ Behind(r, es, u) /\ r.map = [c.map EXCEPT ![k] = NoEntry] /\ c.map \in [LruKeys -> Nat \cup {NoEntry}]
  BY <1>1, <1>2 DEF IsDeleted, Agree
<1>4. \A j \in LruKeys : j # k => r.map[j] = c.map[j]
  BY <1>3
<1>5. Evicted(r, u, d \cup {k}, size)
  BY <1>1, <1>4 DEF Evicted
<1>6. r.map[k] = NoEntry
  BY <1>3
<1>7. Lapsed(r, es, d \cup {k})
  BY <1>1, <1>4, <1>6 DEF Lapsed
<1> QED
  BY <1>3, <1>5, <1>7 DEF Kept

\* A use of k makes no set of keys smaller but k's own.
LEMMA UsedMore ==
  ASSUME NEW u, UseTypes(u), NEW k \in LruKeys
  PROVE  /\ UseTypes(AfterUse(u, k))
         /\ \A j \in LruKeys : j # k => Cardinality(AfterUse(u, k)[j]) >= Cardinality(u[j])
<1>1. \A j \in LruKeys : AfterUse(u, k)[j] = IF j = k THEN {} ELSE u[j] \cup {k}
  BY DEF AfterUse
<1>2. \A j \in LruKeys : IsFiniteSet(u[j] \cup {k})
  BY FS_AddElement DEF UseTypes
<1>3. IsFiniteSet({})
  BY FS_EmptySet
<1>4. AfterUse(u, k) \in [LruKeys -> SUBSET LruKeys]
  BY DEF AfterUse, UseTypes
<1>5. \A j \in LruKeys : IsFiniteSet(AfterUse(u, k)[j])
  BY <1>1, <1>2, <1>3
<1>6. ASSUME NEW j \in LruKeys, j # k PROVE Cardinality(AfterUse(u, k)[j]) >= Cardinality(u[j])
  <2>1. PICK T : T = u[j] \cup {k} /\ u[j] \subseteq T /\ IsFiniteSet(T) /\ IsFiniteSet(u[j])
    BY <1>2 DEF UseTypes
  <2>2. Cardinality(u[j]) <= Cardinality(T) /\ Cardinality(u[j]) \in Nat /\ Cardinality(T) \in Nat
    BY <2>1, FS_Subset, FS_CardinalityType
  <2>3. AfterUse(u, k)[j] = T
    BY <1>1, <1>6, <2>1
  <2> QED
    BY <2>2, <2>3
<1> QED
  BY <1>4, <1>5, <1>6 DEF UseTypes

LEMMA KeptTouched ==
  ASSUME NEW es \in Seq(Entry), NEW c, NEW u, UseTypes(u), NEW d, NEW size \in Nat, Kept(c, es, u, d, size),
         NEW k \in LruKeys, c.map[k] # NoEntry, NEW r, r = MoveToBack(c, c.map[k])
  PROVE  Kept(r, es, AfterUse(u, k), d, size)
<1>1. Agree(c, es) /\ Behind(c, es, u) /\ Lapsed(c, es, d) /\ Evicted(c, u, d, size)
  BY DEF Kept
<1>2. Agree(r, es) /\ r.map = c.map /\ Behind(r, es, AfterUse(u, k))
  BY <1>1, Touched
<1>3. Lapsed(r, es, d)
  BY <1>1, <1>2 DEF Lapsed
<1>4. ASSUME NEW j \in LruKeys, j \notin d, r.map[j] = NoEntry
      PROVE  size > 0 /\ Cardinality(AfterUse(u, k)[j]) >= size
  <2>1. j # k /\ size > 0 /\ Cardinality(u[j]) >= size
    BY <1>1, <1>2, <1>4 DEF Evicted
  <2>2. Cardinality(u[j]) \in Nat /\ Cardinality(AfterUse(u, k)[j]) \in Nat
    BY UsedMore, FS_CardinalityType DEF UseTypes
  <2>3. Cardinality(AfterUse(u, k)[j]) >= Cardinality(u[j])
    BY <2>1, UsedMore
  <2> QED
    BY <2>1, <2>2, <2>3
<1>5. Evicted(r, AfterUse(u, k), d, size)
  BY <1>4 DEF Evicted
<1> QED
  BY <1>2, <1>3, <1>5 DEF Kept

\* A key whose entry has not expired need not count as dropped.
LEMMA KeptSet ==
  ASSUME NEW c, NEW es, NEW u, NEW d, NEW size, Kept(c, es, u, d, size),
         NEW k \in LruKeys, c.map[k] # NoEntry, ~Aged \/ ~(es[c.map[k]].expires <= now)
  PROVE  Kept(c, es, u, d \ {k}, size)
<1>1. Agree(c, es) /\ Behind(c, es, u) /\ Lapsed(c, es, d) /\ Evicted(c, u, d, size)
  BY DEF Kept
<1>2. Evicted(c, u, d \ {k}, size)
  BY <1>1 DEF Evicted
<1>3. Lapsed(c, es, d \ {k})
  BY <1>1 DEF Lapsed
<1> QED
  BY <1>1, <1>2, <1>3 DEF Kept

LEMMA KeptPushed ==
  ASSUME NEW es \in Seq(Entry), NEW c, NEW u, UseTypes(u), NEW d, NEW size \in Nat, Kept(c, es, u, d, size),
         NEW k \in LruKeys, c.map[k] = NoEntry, now \in Nat,
         NEW new \in Entry, new.key = k, ~Aged \/ new.expires > now, NEW fs, fs = Append(es, new),
         NEW r, r = [map |-> [c.map EXCEPT ![k] = Len(fs)], list |-> Append(c.list, Len(fs))]
  PROVE  Kept(r, fs, AfterUse(u, k), d \ {k}, size)
<1>1. Agree(c, es) /\ Behind(c, es, u) /\ Lapsed(c, es, d) /\ Evicted(c, u, d, size)
  BY DEF Kept
<1>2. /\ Agree(r, fs) /\ r.map = [c.map EXCEPT ![k] = Len(fs)] /\ Len(fs) \in Nat
      /\ Behind(r, fs, AfterUse(u, k))
  BY <1>1, LruAssumption, Pushed
<1>3. /\ c.map \in [LruKeys -> Nat \cup {NoEntry}]
      /\ \A j \in LruKeys : c.map[j] # NoEntry => c.map[j] \in 1 .. Len(es)
  <2>1. \A e : In(c.list, e) => e \in 1 .. Len(es)
    BY <1>1 DEF Agree, In
  <2>2. \A j \in LruKeys : c.map[j] # NoEntry => In(c.list, c.map[j])
    BY <1>1 DEF Agree
  <2>3. c.map \in [LruKeys -> Nat \cup {NoEntry}]
    BY <1>1 DEF Agree
  <2> QED
    BY <2>1, <2>2, <2>3
<1>4. r.map[k] = Len(fs) /\ r.map[k] # NoEntry /\ \A j \in LruKeys : j # k => r.map[j] = c.map[j]
  BY <1>2, <1>3, LruAssumption
<1>5. fs[Len(fs)] = new /\ \A e \in 1 .. Len(es) : fs[e] = es[e]
  OBVIOUS
<1>6. ASSUME NEW j \in LruKeys, j \notin d \ {k}, r.map[j] = NoEntry
      PROVE  size > 0 /\ Cardinality(AfterUse(u, k)[j]) >= size
  <2>1. j # k /\ size > 0 /\ Cardinality(u[j]) >= size
    BY <1>1, <1>4, <1>6 DEF Evicted
  <2>2. Cardinality(u[j]) \in Nat /\ Cardinality(AfterUse(u, k)[j]) \in Nat
    BY UsedMore, FS_CardinalityType DEF UseTypes
  <2>3. Cardinality(AfterUse(u, k)[j]) >= Cardinality(u[j])
    BY <2>1, UsedMore
  <2> QED
    BY <2>1, <2>2, <2>3
<1>7. Evicted(r, AfterUse(u, k), d \ {k}, size)
  BY <1>6 DEF Evicted
<1>8. ASSUME NEW j \in LruKeys, r.map[j] # NoEntry, Aged, fs[r.map[j]].expires <= now
      PROVE  j \in d \ {k}
  <2>1. new.expires \in Nat
    BY DEF Entry
  <2>2. j # k
    BY <1>4, <1>5, <1>8, <2>1
  <2> QED
    BY <1>1, <1>3, <1>4, <1>5, <1>8, <2>2 DEF Lapsed
<1>9. Lapsed(r, fs, d \ {k})
  BY <1>8 DEF Lapsed
<1> QED
  BY <1>2, <1>7, <1>9 DEF Kept

LEMMA KeptEvicted ==
  ASSUME NEW x \in Caches, conf.maxSize[x] \in Nat, NEW es \in Seq(Entry), NEW c, NEW u, UseTypes(u), NEW d,
         Kept(c, es, u, d, conf.maxSize[x]), NEW r, r = Evict(x, c, es)
  PROVE  Kept(r, es, u, d, conf.maxSize[x])
<1>1. Agree(c, es) /\ Behind(c, es, u) /\ Lapsed(c, es, d) /\ Evicted(c, u, d, conf.maxSize[x])
  BY DEF Kept
<1>2. u \in [LruKeys -> SUBSET LruKeys] /\ \A k \in LruKeys : IsFiniteSet(u[k])
  BY DEF UseTypes
<1>3. Agree(r, es) /\ Behind(r, es, u)
  BY <1>1, <1>2, Evicts
<1>4. \A k \in LruKeys : \/ r.map[k] = c.map[k]
                         \/ r.map[k] = NoEntry /\ conf.maxSize[x] > 0 /\ Cardinality(u[k]) >= conf.maxSize[x]
  BY <1>1, <1>2, Evicts
<1>5. Evicted(r, u, d, conf.maxSize[x])
  BY <1>1, <1>4 DEF Evicted
<1>6. Lapsed(r, es, d)
  BY <1>1, <1>4 DEF Lapsed
<1> QED
  BY <1>3, <1>5, <1>6 DEF Kept

\* The inductive invariant, cache by cache.
LruIInv ==
  /\ conf \in Options /\ ents \in Seq(Entry) /\ now \in Nat
  /\ cache \in [Caches -> [LruKeys -> Nat \cup {NoEntry}]] /\ lru \in [Caches -> Seq(Nat)]
  /\ used \in [Caches -> [LruKeys -> SUBSET LruKeys]] /\ dropped \in [Caches -> SUBSET LruKeys]
  /\ \A x \in Caches : UseTypes(used[x]) /\ Kept(C(x), ents, used[x], dropped[x], conf.maxSize[x])

\* A step that gives one cache another map and list, and another history.
LEMMA OneCache ==
  ASSUME LruIInv, NEW x \in Caches, NEW c, NEW u, NEW d, UNCHANGED <<conf, now>>, Renewed(ents, ents'),
         Install(x, c), used' = [used EXCEPT ![x] = u], dropped' = [dropped EXCEPT ![x] = d],
         UseTypes(u), d \in SUBSET LruKeys, Kept(c, ents', u, d, conf.maxSize[x])
  PROVE  LruIInv'
<1>1. /\ conf' = conf /\ now' = now /\ conf \in Options /\ now \in Nat /\ ents \in Seq(Entry)
      /\ cache' = [cache EXCEPT ![x] = c.map] /\ lru' = [lru EXCEPT ![x] = c.list]
      /\ cache \in [Caches -> [LruKeys -> Nat \cup {NoEntry}]] /\ lru \in [Caches -> Seq(Nat)]
      /\ used \in [Caches -> [LruKeys -> SUBSET LruKeys]] /\ dropped \in [Caches -> SUBSET LruKeys]
  BY DEF LruIInv, Install
<1>2. c.map \in [LruKeys -> Nat \cup {NoEntry}] /\ c.list \in Seq(Nat)
  <2>1. c.map \in [LruKeys -> Nat \cup {NoEntry}] /\ c.list \in Seq(1 .. Len(ents')) /\ 1 .. Len(ents') \subseteq Nat
    BY DEF Kept, Agree
  <2> QED
    BY <2>1, MoreThings
<1>3. u \in [LruKeys -> SUBSET LruKeys]
  BY DEF UseTypes
<1>4. ents' \in Seq(Entry)
  BY DEF Renewed
<1>5. /\ cache' \in [Caches -> [LruKeys -> Nat \cup {NoEntry}]] /\ lru' \in [Caches -> Seq(Nat)]
      /\ used' \in [Caches -> [LruKeys -> SUBSET LruKeys]] /\ dropped' \in [Caches -> SUBSET LruKeys]
  BY <1>1, <1>2, <1>3
<1>6. ASSUME NEW y \in Caches PROVE UseTypes(used'[y]) /\ Kept([map |-> cache'[y], list |-> lru'[y]], ents', used'[y], dropped'[y], conf.maxSize[y])
  <2>1. CASE y = x
    <3>1. used'[y] = u /\ dropped'[y] = d /\ cache'[y] = c.map /\ lru'[y] = c.list
      BY <1>1, <2>1
    <3>0. PICK e : e = [map |-> cache'[y], list |-> lru'[y]]
      OBVIOUS
    <3>2. e = [map |-> cache'[y], list |-> lru'[y]] /\ c.map = e.map /\ c.list = e.list
      BY <3>0, <3>1
    <3>3. Kept(e, ents', u, d, conf.maxSize[x])
      BY <3>2, KeptSame
    <3> QED
      BY <2>1, <3>1, <3>2, <3>3
  <2>2. CASE y # x
    <3>1. used'[y] = used[y] /\ dropped'[y] = dropped[y] /\ cache'[y] = cache[y] /\ lru'[y] = lru[y]
      BY <1>1, <2>2
    <3>2. UseTypes(used[y]) /\ Kept(C(y), ents, used[y], dropped[y], conf.maxSize[y])
      BY DEF LruIInv
    <3>3. PICK e : e = C(y) /\ Kept(e, ents, used[y], dropped[y], conf.maxSize[y])
      BY <3>2
    <3>4. Kept(e, ents', used[y], dropped[y], conf.maxSize[y])
      BY <1>1, <3>3, KeptTable
    <3>5. e = [map |-> cache'[y], list |-> lru'[y]]
      BY <3>1, <3>3 DEF C
    <3> QED
      BY <3>1, <3>2, <3>4, <3>5
  <2> QED
    BY <2>1, <2>2
<1>7. \A y \in Caches : UseTypes(used'[y]) /\ Kept(C(y), ents, used[y], dropped[y], conf.maxSize[y])'
  BY <1>1, <1>6 DEF C, Kept, Agree, Behind, Evicted, Lapsed, Aged
<1> QED
  BY <1>1, <1>4, <1>5, <1>7 DEF LruIInv, UseTypes

\* One cache, before a step.
LEMMA GoodCache ==
  ASSUME LruIInv, NEW x \in Caches
  PROVE  /\ UseTypes(used[x]) /\ Kept(C(x), ents, used[x], dropped[x], conf.maxSize[x])
         /\ dropped[x] \in SUBSET LruKeys /\ ents \in Seq(Entry) /\ now \in Nat /\ conf \in Options
         /\ conf.maxSize[x] \in Nat /\ conf.maxAge \in Nat
         /\ C(x).map = cache[x] /\ C(x).list = lru[x]
         /\ \A k \in LruKeys : cache[x][k] # NoEntry => cache[x][k] \in 1 .. Len(ents) /\ ents[cache[x][k]].key = k
<1>1. /\ UseTypes(used[x]) /\ Kept(C(x), ents, used[x], dropped[x], conf.maxSize[x])
      /\ dropped[x] \in SUBSET LruKeys /\ ents \in Seq(Entry) /\ now \in Nat /\ conf \in Options
  BY DEF LruIInv
<1>2. conf.maxSize[x] \in Nat /\ conf.maxAge \in Nat
  BY <1>1 DEF Options
<1>3. PICK c : c = C(x)
  OBVIOUS
<1>4. c.map = cache[x] /\ c.list = lru[x]
  BY <1>3 DEF C
<1>5. Agree(c, ents)
  BY <1>1, <1>3 DEF Kept
<1>6. \A e : In(c.list, e) => e \in 1 .. Len(ents)
  BY <1>5 DEF Agree, In
<1>7. \A k \in LruKeys : c.map[k] # NoEntry => In(c.list, c.map[k]) /\ ents[c.map[k]].key = k
  BY <1>5 DEF Agree
<1> QED
  BY <1>1, <1>2, <1>3, <1>4, <1>6, <1>7

\* A table that stays is renewed.
LEMMA RenewedSame == ASSUME NEW es \in Seq(Entry) PROVE Renewed(es, es)
<1>1. Len(es) \in Nat
  OBVIOUS
<1> QED
  BY <1>1 DEF Renewed

LEMMA GetMissGood ==
  ASSUME LruIInv, NEW x \in Caches, NEW k \in LruKeys, GetMiss(x, k)
  PROVE  LruIInv'
<1>1. /\ UseTypes(used[x]) /\ Kept(C(x), ents, used[x], dropped[x], conf.maxSize[x])
      /\ dropped[x] \in SUBSET LruKeys /\ ents \in Seq(Entry) /\ now \in Nat /\ C(x).map = cache[x]
  BY GoodCache
<1>2. UNCHANGED <<conf, now>> /\ ents' = ents /\ used' = used
  BY DEF GetMiss
<1>3. Renewed(ents, ents')
  BY <1>1, <1>2, RenewedSame
<1>4. used' = [used EXCEPT ![x] = used[x]]
  BY <1>2 DEF LruIInv
<1>5. CASE cache[x][k] = NoEntry
  <2>1. Install(x, C(x)) /\ dropped' = dropped
    BY <1>5 DEF GetMiss
  <2>2. dropped' = [dropped EXCEPT ![x] = dropped[x]]
    BY <2>1 DEF LruIInv
  <2> QED
    BY <1>1, <1>2, <1>3, <1>4, <2>1, <2>2, OneCache
<1>6. CASE cache[x][k] # NoEntry
  <2>1. PICK c : c = DeleteElement(C(x), ents, cache[x][k])
    OBVIOUS
  <2>2. PICK r : r = MaybeDeleteOldest(c, ents)
    OBVIOUS
  <2>3. Install(x, r) /\ dropped' = [dropped EXCEPT ![x] = @ \cup {k}]
    BY <1>6, <2>1, <2>2 DEF GetMiss
  <2>4. Kept(c, ents, used[x], dropped[x] \cup {k}, conf.maxSize[x])
    BY <1>1, <1>6, <2>1, KeptDeleted
  <2>5. Kept(r, ents, used[x], dropped[x] \cup {k}, conf.maxSize[x])
    BY <1>1, <2>2, <2>4, KeptTrimmed
  <2>6. PICK d : d = dropped[x] \cup {k} /\ d \in SUBSET LruKeys /\ dropped' = [dropped EXCEPT ![x] = d]
    BY <1>1, <2>3
  <2> QED
    BY <1>1, <1>2, <1>3, <1>4, <2>3, <2>5, <2>6, OneCache
<1> QED
  BY <1>5, <1>6

LEMMA DeleteGood ==
  ASSUME LruIInv, NEW x \in Caches, NEW k \in LruKeys, Delete(x, k)
  PROVE  LruIInv'
<1>1. /\ UseTypes(used[x]) /\ Kept(C(x), ents, used[x], dropped[x], conf.maxSize[x])
      /\ dropped[x] \in SUBSET LruKeys /\ ents \in Seq(Entry) /\ now \in Nat /\ C(x).map = cache[x]
  BY GoodCache
<1>2. /\ UNCHANGED <<conf, now>> /\ ents' = ents /\ used' = used /\ cache[x][k] # NoEntry
      /\ dropped' = [dropped EXCEPT ![x] = @ \cup {k}]
  BY DEF Delete
<1>3. Renewed(ents, ents')
  BY <1>1, <1>2, RenewedSame
<1>4. used' = [used EXCEPT ![x] = used[x]]
  BY <1>2 DEF LruIInv
<1>5. PICK c : c = DeleteElement(C(x), ents, cache[x][k])
  OBVIOUS
<1>6. Install(x, c)
  BY <1>5 DEF Delete
<1>7. Kept(c, ents, used[x], dropped[x] \cup {k}, conf.maxSize[x])
  BY <1>1, <1>2, <1>5, KeptDeleted
<1>8. PICK d : d = dropped[x] \cup {k} /\ d \in SUBSET LruKeys /\ dropped' = [dropped EXCEPT ![x] = d]
  BY <1>1, <1>2
<1> QED
  BY <1>1, <1>2, <1>3, <1>4, <1>6, <1>7, <1>8, OneCache

\* What a use writes into the history.
LEMMA UseIs ==
  ASSUME LruIInv, NEW x \in Caches, NEW k \in LruKeys, Use(x, k)
  PROVE  used' = [used EXCEPT ![x] = AfterUse(used[x], k)] /\ UseTypes(AfterUse(used[x], k))
<1>1. UseTypes(used[x])
  BY GoodCache
<1> QED
  BY <1>1, UsedMore DEF Use, AfterUse

\* An entry gets another value or another time.
LEMMA EntrySet ==
  ASSUME NEW es \in Seq(Entry), NEW e \in 1 .. Len(es), NEW new \in Entry, new.key = es[e].key,
         Aged => new.expires > now, NEW fs, fs = [es EXCEPT ![e] = new]
  PROVE  Renewed(es, fs) /\ fs[e] = new /\ fs \in Seq(Entry)
<1>1. fs \in Seq(Entry) /\ Len(fs) = Len(es) /\ Len(es) \in Nat /\ fs[e] = new
      /\ \A i \in 1 .. Len(es) : i # e => fs[i] = es[i]
  OBVIOUS
<1> QED
  BY <1>1 DEF Renewed

\* A new entry.
LEMMA EntryAdded ==
  ASSUME NEW es \in Seq(Entry), NEW new \in Entry, NEW fs, fs = Append(es, new)
  PROVE  Renewed(es, fs) /\ fs \in Seq(Entry)
<1>1. fs \in Seq(Entry) /\ Len(fs) >= Len(es) /\ \A i \in 1 .. Len(es) : fs[i] = es[i]
  OBVIOUS
<1> QED
  BY <1>1 DEF Renewed

LEMMA GetHitGood ==
  ASSUME LruIInv, NEW x \in Caches, NEW k \in LruKeys, GetHit(x, k)
  PROVE  LruIInv'
<1>1. /\ UseTypes(used[x]) /\ Kept(C(x), ents, used[x], dropped[x], conf.maxSize[x])
      /\ dropped[x] \in SUBSET LruKeys /\ ents \in Seq(Entry) /\ now \in Nat /\ C(x).map = cache[x]
      /\ conf.maxSize[x] \in Nat /\ conf.maxAge \in Nat
  BY GoodCache
<1>2. /\ UNCHANGED <<conf, now>> /\ dropped' = dropped /\ cache[x][k] # NoEntry /\ Use(x, k)
      /\ ents' = IF conf.maxAge > 0 /\ conf.updateAgeOnGet
                 THEN [ents EXCEPT ![cache[x][k]].expires = now + conf.maxAge] ELSE ents
  BY DEF GetHit
<1>3. PICK e \in 1 .. Len(ents) : e = cache[x][k]
  BY <1>2, GoodCache
<1>4. Renewed(ents, ents')
  <2>1. CASE conf.maxAge > 0 /\ conf.updateAgeOnGet
    <3>1. ents[e] \in Entry
      BY <1>1, <1>3, EntryIs
    <3>2. PICK new : new = [ents[e] EXCEPT !.expires = now + conf.maxAge]
      OBVIOUS
    <3>3. new \in Entry /\ new.key = ents[e].key /\ new.expires > now
      <4>1. PICK old \in Entry : old = ents[e] /\ new = [old EXCEPT !.expires = now + conf.maxAge]
        BY <3>1, <3>2
      <4>2. PICK t \in Nat : t = now + conf.maxAge /\ t > now
        BY <1>1, <2>1
      <4>3. new \in Entry /\ new.key = old.key /\ new.expires = t
        BY <4>1, <4>2 DEF Entry
      <4> QED
        BY <4>1, <4>2, <4>3
    <3>4. ents' = [ents EXCEPT ![e] = new]
      BY <1>1, <1>2, <1>3, <2>1, <3>2
    <3> QED
      BY <1>1, <3>3, <3>4, EntrySet
  <2>2. CASE ~(conf.maxAge > 0 /\ conf.updateAgeOnGet)
    BY <1>1, <1>2, <2>2, RenewedSame
  <2> QED
    BY <2>1, <2>2
<1>5. Kept(C(x), ents', used[x], dropped[x], conf.maxSize[x]) /\ ents' \in Seq(Entry)
  BY <1>1, <1>4, KeptTable DEF Renewed
<1>6. PICK r : r = MoveToBack(C(x), cache[x][k])
  OBVIOUS
<1>7. Install(x, r)
  BY <1>6 DEF GetHit
<1>8. PICK u : u = AfterUse(used[x], k) /\ UseTypes(u) /\ used' = [used EXCEPT ![x] = u]
  BY <1>2, UseIs
<1>9. Kept(r, ents', u, dropped[x], conf.maxSize[x])
  BY <1>1, <1>2, <1>5, <1>6, <1>8, KeptTouched
<1>10. dropped' = [dropped EXCEPT ![x] = dropped[x]]
  BY <1>2 DEF LruIInv
<1> QED
  BY <1>1, <1>2, <1>4, <1>7, <1>8, <1>9, <1>10, OneCache

LEMMA SetGood ==
  ASSUME LruIInv, NEW x \in Caches, NEW k \in LruKeys, NEW v \in LruValues, Set(x, k, v)
  PROVE  LruIInv'
<1>1. /\ UseTypes(used[x]) /\ Kept(C(x), ents, used[x], dropped[x], conf.maxSize[x])
      /\ dropped[x] \in SUBSET LruKeys /\ ents \in Seq(Entry) /\ now \in Nat /\ C(x).map = cache[x]
      /\ C(x).list = lru[x] /\ conf.maxSize[x] \in Nat /\ conf.maxAge \in Nat
  BY GoodCache
<1>2. PICK exp \in Nat : exp = (IF conf.maxAge > 0 THEN now + conf.maxAge ELSE 0) /\ (~Aged \/ exp > now)
  BY <1>1 DEF Aged
<1>3. SetWithExpire(x, k, v, exp)
  BY <1>2 DEF Set
<1>4. UNCHANGED <<conf, now>> /\ Use(x, k) /\ dropped' = [dropped EXCEPT ![x] = @ \ {k}]
  BY <1>3 DEF SetWithExpire
<1>5. PICK d : d = dropped[x] \ {k} /\ d \in SUBSET LruKeys /\ dropped' = [dropped EXCEPT ![x] = d]
  BY <1>1, <1>4
<1>6. PICK u : u = AfterUse(used[x], k) /\ UseTypes(u) /\ used' = [used EXCEPT ![x] = u]
  BY <1>4, UseIs
<1>7. CASE cache[x][k] # NoEntry
  <2>1. PICK e \in 1 .. Len(ents) : e = cache[x][k]
    BY <1>7, GoodCache
  <2>2. /\ ents' = [ents EXCEPT ![cache[x][k]].value = v, ![cache[x][k]].expires = exp]
        /\ Install(x, MaybeDeleteOldest(MoveToBack(C(x), cache[x][k]), ents'))
    BY <1>3, <1>7 DEF SetWithExpire
  <2>3. ents[e] \in Entry
    BY <1>1, <2>1, EntryIs
  <2>4. PICK new : new = [ents[e] EXCEPT !.value = v, !.expires = exp]
    OBVIOUS
  <2>5. new \in Entry /\ new.key = ents[e].key /\ new.expires = exp
    BY <2>3, <2>4 DEF Entry
  <2>6. ents' = [ents EXCEPT ![e] = new]
    BY <1>1, <2>1, <2>2, <2>3, <2>4 DEF Entry
  <2>7. Renewed(ents, ents') /\ ents'[e] = new /\ ents' \in Seq(Entry)
    <3>1. Aged => new.expires > now
      BY <1>2, <2>5
    <3>4. new \in Entry /\ new.key = ents[e].key /\ ents \in Seq(Entry)
      BY <1>1, <2>5
    <3>2. PICK fs : fs = ents' /\ fs = [ents EXCEPT ![e] = new]
      BY <2>6
    <3>3. Renewed(ents, fs) /\ fs[e] = new /\ fs \in Seq(Entry)
      BY <3>1, <3>2, <3>4, EntrySet
    <3> QED
      BY <3>2, <3>3
  <2>8. PICK c : c = C(x) /\ c.map[k] = e /\ c.map[k] # NoEntry /\ Kept(c, ents', used[x], dropped[x], conf.maxSize[x])
    BY <1>1, <1>7, <2>1, <2>7, KeptTable
  <2>9. ~Aged \/ ~(ents'[c.map[k]].expires <= now)
    BY <1>1, <1>2, <2>5, <2>7, <2>8
  <2>10. Kept(c, ents', used[x], d, conf.maxSize[x])
    BY <1>5, <2>8, <2>9, KeptSet
  <2>11. PICK b : b = MoveToBack(c, c.map[k])
    OBVIOUS
  <2>12. Kept(b, ents', u, d, conf.maxSize[x])
    BY <1>1, <1>6, <2>7, <2>8, <2>10, <2>11, KeptTouched
  <2>13. PICK r : r = MaybeDeleteOldest(b, ents')
    OBVIOUS
  <2>14. Kept(r, ents', u, d, conf.maxSize[x])
    BY <1>1, <2>7, <2>12, <2>13, KeptTrimmed
  <2>15. Install(x, r)
    BY <2>1, <2>2, <2>8, <2>11, <2>13
  <2> QED
    BY <1>1, <1>4, <1>5, <1>6, <2>7, <2>14, <2>15, OneCache
<1>8. CASE cache[x][k] = NoEntry
  <2>1. PICK new : new = [key |-> k, value |-> v, expires |-> exp]
    OBVIOUS
  <2>2. new \in Entry /\ new.key = k /\ new.expires = exp
    BY <2>1 DEF Entry
  <2>3. PICK fs : fs = Append(ents, new) /\ ents' = fs
    BY <1>3, <1>8, <2>1 DEF SetWithExpire
  <2>4. PICK p : p = [map |-> [cache[x] EXCEPT ![k] = Len(fs)], list |-> Append(lru[x], Len(fs))]
    OBVIOUS
  <2>5. Install(x, MaybeDeleteOldest(Evict(x, p, fs), fs))
    BY <1>3, <1>8, <2>3, <2>4 DEF SetWithExpire
  <2>6. Renewed(ents, fs) /\ fs \in Seq(Entry)
    BY <1>1, <2>2, <2>3, EntryAdded
  <2>7. PICK c : c = C(x) /\ c.map = cache[x] /\ c.list = lru[x] /\ c.map[k] = NoEntry
    BY <1>1, <1>8
  <2>8. Kept(c, ents, used[x], dropped[x], conf.maxSize[x])
    BY <1>1, <2>7
  <2>9. p = [map |-> [c.map EXCEPT ![k] = Len(fs)], list |-> Append(c.list, Len(fs))]
    BY <2>4, <2>7
  <2>10. Kept(p, fs, u, d, conf.maxSize[x])
    <3>1. ~Aged \/ new.expires > now
      BY <1>2, <2>2
    <3>2. Kept(p, fs, AfterUse(used[x], k), dropped[x] \ {k}, conf.maxSize[x])
      BY <1>1, <2>2, <2>3, <2>7, <2>8, <2>9, <3>1, KeptPushed
    <3> QED
      BY <1>5, <1>6, <3>2
  <2>11. PICK g : g = Evict(x, p, fs)
    OBVIOUS
  <2>12. Kept(g, fs, u, d, conf.maxSize[x])
    BY <1>1, <1>6, <2>6, <2>10, <2>11, KeptEvicted
  <2>13. PICK r : r = MaybeDeleteOldest(g, fs)
    OBVIOUS
  <2>14. Kept(r, ents', u, d, conf.maxSize[x])
    BY <1>1, <2>3, <2>6, <2>12, <2>13, KeptTrimmed
  <2>15. Install(x, r)
    BY <2>5, <2>11, <2>13
  <2> QED
    BY <1>1, <1>4, <1>5, <1>6, <2>3, <2>6, <2>14, <2>15, OneCache
<1> QED
  BY <1>7, <1>8

LEMMA CloneToGood ==
  ASSUME LruIInv, CloneTo
  PROVE  LruIInv'
<1>1. "c" \in Caches /\ "n" \in Caches
  BY DEF Caches
<1>2. /\ UseTypes(used["c"]) /\ Kept(C("c"), ents, used["c"], dropped["c"], conf.maxSize["c"])
      /\ dropped["c"] \in SUBSET LruKeys /\ ents \in Seq(Entry) /\ now \in Nat /\ C("c").map = cache["c"]
  BY <1>1, GoodCache
<1>3. PICK d : d = dropped["c"] \cup {k \in LruKeys : cache["c"][k] = NoEntry} /\ d \in SUBSET LruKeys
  BY <1>2
<1>4. /\ UNCHANGED <<conf, now>> /\ ents' = ents /\ Install("n", C("c"))
      /\ used' = [used EXCEPT !["n"] = used["c"]] /\ dropped' = [dropped EXCEPT !["n"] = d]
  BY <1>3 DEF CloneTo
<1>5. Renewed(ents, ents')
  BY <1>2, <1>4, RenewedSame
<1>6. Kept(C("c"), ents, used["c"], d, conf.maxSize["n"])
  <2>1. Agree(C("c"), ents) /\ Behind(C("c"), ents, used["c"]) /\ Lapsed(C("c"), ents, dropped["c"])
    BY <1>2 DEF Kept
  <2>2. Evicted(C("c"), used["c"], d, conf.maxSize["n"])
    BY <1>2, <1>3 DEF Evicted
  <2>3. Lapsed(C("c"), ents, d)
    BY <1>3, <2>1 DEF Lapsed
  <2> QED
    BY <2>1, <2>2, <2>3 DEF Kept
<1> QED
  BY <1>1, <1>2, <1>3, <1>4, <1>5, <1>6, OneCache

LEMMA ClockTicksGood ==
  ASSUME LruIInv, ClockTicks
  PROVE  LruIInv'
<1>1. /\ conf' = conf /\ ents' = ents /\ cache' = cache /\ lru' = lru /\ used' = used
      /\ now' = now + 1
      /\ dropped' = [x \in Caches |-> dropped[x] \cup
            {k \in LruKeys : \E e \in DOMAIN ents : cache[x][k] = e /\ Aged /\ ents[e].expires <= now'}]
  BY DEF ClockTicks
<1>2. /\ conf \in Options /\ ents \in Seq(Entry) /\ now \in Nat
      /\ cache \in [Caches -> [LruKeys -> Nat \cup {NoEntry}]] /\ lru \in [Caches -> Seq(Nat)]
      /\ used \in [Caches -> [LruKeys -> SUBSET LruKeys]] /\ dropped \in [Caches -> SUBSET LruKeys]
  BY DEF LruIInv
<1>3. now' \in Nat /\ dropped' \in [Caches -> SUBSET LruKeys]
  BY <1>1, <1>2
<1>4. ASSUME NEW x \in Caches PROVE Kept(C(x), ents, used[x], dropped[x], conf.maxSize[x])'
  <2>1. Agree(C(x), ents) /\ Behind(C(x), ents, used[x]) /\ Evicted(C(x), used[x], dropped[x], conf.maxSize[x])
    BY GoodCache DEF Kept
  <2>2. Agree(C(x), ents)' /\ Behind(C(x), ents, used[x])'
    BY <1>1, <2>1 DEF Agree, Behind, C
  <2>3. dropped[x] \subseteq dropped'[x]
    BY <1>1
  <2>4. Evicted(C(x), used[x], dropped[x], conf.maxSize[x])'
    BY <1>1, <2>1, <2>3 DEF Evicted, C
  <2>5. ASSUME NEW k \in LruKeys, cache[x][k] # NoEntry, Aged, ents[cache[x][k]].expires <= now'
        PROVE  k \in dropped'[x]
    <3>1. PICK e \in DOMAIN ents : e = cache[x][k]
      BY <1>2, <2>5, GoodCache
    <3> QED
      BY <1>1, <2>5, <3>1
  <2>6. Lapsed(C(x), ents, dropped[x])'
    BY <1>1, <2>5 DEF Lapsed, C, Aged
  <2> QED
    BY <2>2, <2>4, <2>6 DEF Kept
<1>5. \A x \in Caches : UseTypes(used[x])'
  BY <1>1, GoodCache DEF UseTypes
<1> QED
  BY <1>1, <1>2, <1>3, <1>4, <1>5 DEF LruIInv

LEMMA LruNextIInv == LruIInv /\ [LruNext]_lruVars => LruIInv'
<1> SUFFICES ASSUME LruIInv, [LruNext]_lruVars PROVE LruIInv'
  OBVIOUS
<1>1. CASE UNCHANGED lruVars
  <2>1. conf' = conf /\ ents' = ents /\ cache' = cache /\ lru' = lru /\ now' = now /\ used' = used /\ dropped' = dropped
    BY <1>1 DEF lruVars
  <2> QED
    BY <2>1 DEF LruIInv, Kept, UseTypes, Agree, Behind, Evicted, Lapsed, C, Aged
<1>2. ASSUME NEW x \in Caches, NEW k \in LruKeys, GetMiss(x, k) \/ GetHit(x, k) \/ Delete(x, k)
      PROVE  LruIInv'
  BY <1>2, GetMissGood, GetHitGood, DeleteGood
<1>3. ASSUME NEW x \in Caches, NEW k \in LruKeys, NEW v \in LruValues, Set(x, k, v) PROVE LruIInv'
  BY <1>3, SetGood
<1> QED
  BY <1>1, <1>2, <1>3, CloneToGood, ClockTicksGood DEF LruNext

LEMMA LruInitIInv == LruInit(Options) => LruIInv
<1> SUFFICES ASSUME LruInit(Options) PROVE LruIInv
  OBVIOUS
<1>1. /\ conf \in Options /\ ents = <<>> /\ now = 0
      /\ cache = [x \in Caches |-> [k \in LruKeys |-> NoEntry]] /\ lru = [x \in Caches |-> <<>>]
      /\ used = [x \in Caches |-> [k \in LruKeys |-> {}]] /\ dropped = [x \in Caches |-> LruKeys]
  BY DEF LruInit
<1>2. ents \in Seq(Entry) /\ now \in Nat /\ cache \in [Caches -> [LruKeys -> Nat \cup {NoEntry}]]
      /\ lru \in [Caches -> Seq(Nat)]
      /\ used \in [Caches -> [LruKeys -> SUBSET LruKeys]] /\ dropped \in [Caches -> SUBSET LruKeys]
  BY <1>1
<1>3. ASSUME NEW x \in Caches PROVE UseTypes(used[x]) /\ Kept(C(x), ents, used[x], dropped[x], conf.maxSize[x])
  <2>1. PICK c : c = C(x)
    OBVIOUS
  <2>2. c.list = <<>> /\ \A k \in LruKeys : c.map[k] = NoEntry
    BY <1>1, <2>1 DEF C
  <2>3. c.map \in [LruKeys -> Nat \cup {NoEntry}] /\ c.list \in Seq(1 .. Len(ents))
    BY <1>1, <2>1 DEF C
  <2>4. Agree(c, ents)
    BY <2>2, <2>3 DEF Agree, Once, In
  <2>5. Behind(c, ents, used[x]) /\ Lapsed(c, ents, dropped[x])
    BY <2>2 DEF Behind, Lapsed
  <2>6. Evicted(c, used[x], dropped[x], conf.maxSize[x])
    BY <1>1 DEF Evicted
  <2>7. UseTypes(used[x])
    BY <1>1, FS_EmptySet DEF UseTypes
  <2> QED
    BY <2>1, <2>4, <2>5, <2>6, <2>7 DEF Kept
<1> QED
  BY <1>1, <1>2, <1>3 DEF LruIInv

LEMMA LruIInvKeeps == LruIInv => RecentIsKept
<1> SUFFICES ASSUME LruIInv, NEW x \in Caches, NEW k \in LruKeys, k \notin dropped[x],
                    conf.maxSize[x] > 0 => Cardinality(used[x][k]) < conf.maxSize[x]
             PROVE  cache[x][k] # NoEntry
  BY DEF RecentIsKept
<1>1. /\ UseTypes(used[x]) /\ Kept(C(x), ents, used[x], dropped[x], conf.maxSize[x]) /\ C(x).map = cache[x]
      /\ conf.maxSize[x] \in Nat
  BY GoodCache
<1>2. cache[x][k] = NoEntry => conf.maxSize[x] > 0 /\ Cardinality(used[x][k]) >= conf.maxSize[x]
  BY <1>1 DEF Kept, Evicted
<1>3. Cardinality(used[x][k]) \in Nat
  BY <1>1, FS_CardinalityType DEF UseTypes
<1> QED
  BY <1>1, <1>2, <1>3

\* Whatever the size, the ages and the keys: an entry that was neither deleted nor has
\* expired is found again as long as fewer other keys than the cache holds were used since
\* (SetWithExpire, get, CloneTo and the list they all reorder).
THEOREM RecentStays == LruSpec => []RecentIsKept
<1> QED
  BY LruInitIInv, LruNextIInv, LruIInvKeeps, PTL DEF LruSpec

-----------------------------------------------------------------------------
(* The padded writer.                                                      *)

\* The schemes whose sizes fit in the two bytes of a length, and which put a size and not
\* a check mark first for the packet before the session.
TwoBytes == {n \in Nat : n < 65536}
Sizes == TwoBytes \ {0}
IsMark(r) == r = <<CheckMark>>
FitsRange(r) == IsMark(r) \/ (r[1] \in TwoBytes /\ r[2] \in TwoBytes)
SchemesFit ==
  \A s \in Schemes : \A pkt \in DOMAIN s.ranges :
    /\ \E n \in Nat : DOMAIN s.ranges[pkt] = 1 .. n
    /\ \A i \in DOMAIN s.ranges[pkt] : FitsRange(s.ranges[pkt][i]) /\ (pkt = 0 => ~IsMark(s.ranges[pkt][i]))

\* The sizes of a packet are what the scheme allows.
LEMMA RangeSizes ==
  ASSUME NEW r, FitsRange(r), IsMark(r) \/ Lesser(r) > 0
  PROVE  GenerateSize(r) \subseteq Sizes \cup {CheckMark} /\ (~IsMark(r) => GenerateSize(r) \subseteq Sizes)
<1>1. CASE IsMark(r)
  <2>1. GenerateSize(r) = {CheckMark}
    BY <1>1, Zenon DEF GenerateSize, IsMark
  <2> QED
    BY <1>1, <2>1
<1>2. CASE ~IsMark(r)
  <2>1. GenerateSize(r) = IF Lesser(r) = Greater(r) THEN {Lesser(r)} ELSE Lesser(r) .. (Greater(r) - 1)
    BY <1>2, Zenon DEF GenerateSize, IsMark
  <2>2. Lesser(r) \in Sizes /\ Greater(r) \in TwoBytes
    <3>1. PICK a \in TwoBytes, b \in TwoBytes : a = r[1] /\ b = r[2]
      BY <1>2, Zenon DEF FitsRange
    <3>2. Lesser(r) = IF a < b THEN a ELSE b
      BY <3>1, Zenon DEF Lesser
    <3>3. Greater(r) = IF a < b THEN b ELSE a
      BY <3>1, Zenon DEF Greater
    <3>4. Lesser(r) > 0
      BY <1>2
    <3> QED
      BY <3>2, <3>3, <3>4 DEF TwoBytes, Sizes
  <2>3. GenerateSize(r) \subseteq Sizes
    <3>1. PICK a \in Sizes, b \in TwoBytes : a = Lesser(r) /\ b = Greater(r)
      BY <2>2
    <3>2. GenerateSize(r) = IF a = b THEN {a} ELSE a .. (b - 1)
      BY <2>1, <3>1, Zenon
    <3>3. PICK T : T = GenerateSize(r) /\ T = IF a = b THEN {a} ELSE a .. (b - 1)
      BY <3>2
    <3>4. T \subseteq Sizes
      BY <3>3 DEF Sizes, TwoBytes
    <3> QED
      BY <3>3, <3>4
  <2> QED
    BY <2>3
<1> QED
  BY <1>1, <1>2

LEMMA PacketSizes ==
  ASSUME SchemesFit, NEW s \in Schemes, NEW pkt, NEW q \in GenerateRecordPayloadSizes(s, pkt)
  PROVE  q \in Seq(Sizes \cup {CheckMark}) /\ (pkt = 0 => q \in Seq(Sizes))
<1>1. PICK all : all = IF pkt \in DOMAIN s.ranges THEN s.ranges[pkt] ELSE <<>>
  OBVIOUS
<1>2. /\ \E n \in Nat : DOMAIN all = 1 .. n
      /\ \A i \in DOMAIN all : FitsRange(all[i]) /\ (pkt = 0 => ~IsMark(all[i]))
  <2>1. CASE pkt \in DOMAIN s.ranges
    BY <1>1, <2>1 DEF SchemesFit
  <2>2. CASE pkt \notin DOMAIN s.ranges
    <3>1. all = <<>>
      BY <1>1, <2>2
    <3>2. DOMAIN all = 1 .. 0 /\ \A i : i \notin DOMAIN all
      BY <3>1
    <3> QED
      BY <3>2
  <2> QED
    BY <2>1, <2>2
<1>3. PICK counted : counted = {i \in DOMAIN all : IsMark(all[i]) \/ Lesser(all[i]) > 0}
  OBVIOUS
<1>4. q \in [1 .. Cardinality(counted) -> UNION {GenerateSize(all[i]) : i \in counted}]
  BY <1>1, <1>3, Zenon DEF GenerateRecordPayloadSizes, IsMark
<1>5. Cardinality(counted) \in Nat
  <2>1. PICK n \in Nat : DOMAIN all = 1 .. n
    BY <1>2
  <2>2. IsFiniteSet(1 .. n)
    BY FS_Interval
  <2>3. counted \subseteq 1 .. n
    BY <1>3, <2>1
  <2> QED
    BY <2>2, <2>3, FS_Subset, FS_CardinalityType
<1>6. \A i \in counted : /\ GenerateSize(all[i]) \subseteq Sizes \cup {CheckMark}
                         /\ pkt = 0 => GenerateSize(all[i]) \subseteq Sizes
  <2> TAKE i \in counted
  <2>1. FitsRange(all[i]) /\ (IsMark(all[i]) \/ Lesser(all[i]) > 0) /\ (pkt = 0 => ~IsMark(all[i]))
    BY <1>2, <1>3
  <2>2. PICK r : r = all[i]
    OBVIOUS
  <2>3. FitsRange(r) /\ (IsMark(r) \/ Lesser(r) > 0) /\ (pkt = 0 => ~IsMark(r))
    BY <2>1, <2>2
  <2>4. GenerateSize(r) \subseteq Sizes \cup {CheckMark} /\ (~IsMark(r) => GenerateSize(r) \subseteq Sizes)
    BY <2>3, RangeSizes
  <2> QED
    BY <2>2, <2>3, <2>4
<1>7. PICK n \in Nat : n = Cardinality(counted)
  BY <1>5
<1>8. PICK U : U = UNION {GenerateSize(all[i]) : i \in counted}
  OBVIOUS
<1>9. q \in [1 .. n -> U] /\ U \subseteq Sizes \cup {CheckMark} /\ (pkt = 0 => U \subseteq Sizes)
  BY <1>4, <1>6, <1>7, <1>8
<1>10. q \in [1 .. n -> Sizes \cup {CheckMark}] /\ (pkt = 0 => q \in [1 .. n -> Sizes])
  BY <1>9
<1> QED
  BY <1>10, SeqDef

Frame == [n : Nat, end : Nat]
TlsRecord == [lo : Nat, hi : Nat, waste : [size : Nat, field : Nat]]

\* Where the payload sent so far ends.
SentEnd(q) == IF q = <<>> THEN 0 ELSE q[Len(q)].hi

\* The records follow each other without a gap.
Chained(q) == \A i \in 1 .. Len(q) : q[i].lo = IF i = 1 THEN 0 ELSE q[i - 1].hi

\* A record with waste ends with a frame, and its waste is as long as it says.
WasteFits(r, g) ==
  r.waste # NoWaste => /\ \E k \in 0 .. Len(g) : r.hi = End(g, k)
                       /\ r.waste.size = HeaderOverHeadSize + r.waste.field
Wasted(q, g) == \A i \in 1 .. Len(q) : WasteFits(q[i], g)

\* The inductive invariant.
PadIInv ==
  /\ scheme \in Schemes /\ given \in Seq(Frame) /\ unsent \in [lo : Nat, hi : Nat]
  /\ pktSizes \in Seq(Sizes \cup {CheckMark}) /\ tlsRecords \in Seq(TlsRecord)
  /\ preamble.field = preamble.zeros
  /\ buffering => tlsRecords = <<>> /\ ~locked
  /\ unsent.lo = SentEnd(tlsRecords)
  /\ locked => unsent.hi = End(given, Len(given))
  /\ ~locked /\ ~snapped /\ tlsRecords # <<>> => unsent.lo = End(given, Len(given))
  /\ Chained(tlsRecords) /\ Wasted(tlsRecords, given)

\* Frames given later end later.
LEMMA GivenMore ==
  ASSUME NEW g \in Seq(Frame), NEW n \in Nat, NEW h, h = Given(g, n)
  PROVE  /\ h \in Seq(Frame) /\ Len(g) \in Nat /\ Len(h) = Len(g) + 1 /\ End(h, Len(h)) \in Nat
         /\ \A q : Wasted(q, g) => Wasted(q, h)
<1>1. End(g, Len(g)) \in Nat
  <2>1. Len(g) \in Nat /\ (Len(g) # 0 => Len(g) \in 1 .. Len(g))
    OBVIOUS
  <2>2. Len(g) # 0 => g[Len(g)] \in Frame
    BY <2>1, ElementOfSeq
  <2> QED
    BY <2>2 DEF End, Frame
<1>2. PICK f \in Frame : f = [n |-> n, end |-> End(g, Len(g)) + HeaderOverHeadSize + n]
  <2>1. PICK m \in Nat : m = End(g, Len(g)) + HeaderOverHeadSize + n
    BY <1>1 DEF HeaderOverHeadSize
  <2>2. [n |-> n, end |-> m] \in Frame
    BY DEF Frame
  <2> QED
    BY <2>1, <2>2
<1>3. h = Append(g, f)
  BY <1>2 DEF Given
<1>4. h \in Seq(Frame) /\ Len(g) \in Nat /\ Len(h) = Len(g) + 1 /\ h[Len(h)] = f
  BY <1>3
<1>5. End(h, Len(h)) \in Nat
  BY <1>4 DEF End, Frame
<1>6. \A k \in 0 .. Len(g) : k \in 0 .. Len(h) /\ End(h, k) = End(g, k)
  BY <1>3, <1>4 DEF End
<1>7. \A r : WasteFits(r, g) => WasteFits(r, h)
  BY <1>6 DEF WasteFits
<1>8. \A q : Wasted(q, g) => Wasted(q, h)
  BY <1>7 DEF Wasted
<1> QED
  BY <1>4, <1>5, <1>8

\* One record more.
LEMMA SentOne ==
  ASSUME NEW q \in Seq(TlsRecord), NEW g, Chained(q), Wasted(q, g),
         NEW r \in TlsRecord, r.lo = SentEnd(q), WasteFits(r, g), NEW p, p = Append(q, r)
  PROVE  p \in Seq(TlsRecord) /\ p # <<>> /\ SentEnd(p) = r.hi /\ Chained(p) /\ Wasted(p, g)
<1>1. /\ p \in Seq(TlsRecord) /\ p # <<>> /\ Len(q) \in Nat /\ Len(p) = Len(q) + 1 /\ p[Len(q) + 1] = r
      /\ \A i \in 1 .. Len(q) : p[i] = q[i]
  OBVIOUS
<1>2. SentEnd(p) = r.hi
  BY <1>1 DEF SentEnd
<1>3. Wasted(p, g)
  BY <1>1 DEF Wasted
<1>4. Chained(p)
  <2> SUFFICES ASSUME NEW i \in 1 .. Len(p) PROVE p[i].lo = IF i = 1 THEN 0 ELSE p[i - 1].hi
    BY DEF Chained
  <2>1. CASE i \in 1 .. Len(q)
    <3>1. i = 1 \/ i - 1 \in 1 .. Len(q)
      BY <1>1, <2>1
    <3> QED
      BY <1>1, <2>1, <3>1 DEF Chained
  <2>2. CASE i = Len(q) + 1
    <3>1. CASE q = <<>>
      BY <1>1, <2>2, <3>1 DEF SentEnd
    <3>2. CASE q # <<>>
      <4>1. i # 1 /\ i - 1 = Len(q) /\ Len(q) \in 1 .. Len(q)
        BY <1>1, <2>2, <3>2
      <4> QED
        BY <1>1, <2>2, <3>2, <4>1 DEF SentEnd
    <3> QED
      BY <3>1, <3>2
  <2> QED
    BY <1>1, <2>1, <2>2
<1> QED
  BY <1>1, <1>2, <1>3, <1>4

\* One Write to the connection.
LEMMA SendKeeps ==
  ASSUME PadIInv, locked, NEW r \in TlsRecord, r.lo = unsent.lo, WasteFits(r, given), Send(r, r.hi),
         pktSizes' \in Seq(Sizes \cup {CheckMark}), locked' \/ r.hi = unsent.hi
  PROVE  PadIInv'
<1>1. /\ scheme' = scheme /\ buffering' = buffering /\ given' = given /\ preamble' = preamble /\ snapped' = snapped
      /\ tlsRecords' = Append(tlsRecords, r) /\ unsent' = [unsent EXCEPT !.lo = r.hi]
  BY DEF Send
<1>2. /\ scheme \in Schemes /\ given \in Seq(Frame) /\ unsent \in [lo : Nat, hi : Nat] /\ tlsRecords \in Seq(TlsRecord)
      /\ preamble.field = preamble.zeros /\ unsent.lo = SentEnd(tlsRecords) /\ ~buffering
      /\ unsent.hi = End(given, Len(given)) /\ Chained(tlsRecords) /\ Wasted(tlsRecords, given)
  BY DEF PadIInv
<1>3. PICK p : p = tlsRecords' /\ p = Append(tlsRecords, r)
  BY <1>1
<1>4. p \in Seq(TlsRecord) /\ p # <<>> /\ SentEnd(p) = r.hi /\ Chained(p) /\ Wasted(p, given)
  BY <1>2, <1>3, SentOne
<1>5. unsent' \in [lo : Nat, hi : Nat] /\ unsent'.lo = r.hi /\ unsent'.hi = unsent.hi
  BY <1>1, <1>2 DEF TlsRecord
<1>6. tlsRecords' \in Seq(TlsRecord) /\ unsent'.lo = SentEnd(tlsRecords') /\ Chained(tlsRecords') /\ Wasted(tlsRecords', given')
  BY <1>1, <1>3, <1>4, <1>5
<1>7. (locked' => unsent'.hi = End(given', Len(given'))) /\ (~locked' => unsent'.lo = End(given', Len(given')))
  BY <1>1, <1>2, <1>5
<1>8. buffering' = buffering /\ ~buffering /\ preamble'.field = preamble'.zeros /\ scheme' \in Schemes /\ given' \in Seq(Frame)
  BY <1>1, <1>2
<1> QED
  BY <1>5, <1>6, <1>7, <1>8 DEF PadIInv, SentEnd, Chained, Wasted, WasteFits, End

\* The record of a size.
LEMMA RecordFits ==
  ASSUME PadIInv, locked, NEW w \in [size : Nat, field : Nat], w # NoWaste => w.size = HeaderOverHeadSize + w.field,
         NEW r, r = Record(unsent.hi, w)
  PROVE  r \in TlsRecord /\ r.lo = unsent.lo /\ r.hi = unsent.hi /\ WasteFits(r, given)
<1>1. unsent \in [lo : Nat, hi : Nat] /\ unsent.hi = End(given, Len(given)) /\ Len(given) \in Nat
  BY DEF PadIInv
<1>2. r \in TlsRecord /\ r.lo = unsent.lo /\ r.hi = unsent.hi /\ r.waste = w
  BY <1>1 DEF Record, TlsRecord
<1>3. Len(given) \in 0 .. Len(given)
  BY <1>1
<1> QED
  BY <1>1, <1>2, <1>3 DEF WasteFits

\* What is left of the sizes.
LEMMA SizesLeft ==
  ASSUME NEW q \in Seq(Sizes \cup {CheckMark}), q # <<>>
  PROVE  Tail(q) \in Seq(Sizes \cup {CheckMark}) /\ Head(q \o <<CheckMark>>) \in Sizes \cup {CheckMark}
<1>1. PICK S : S = Sizes \cup {CheckMark} /\ CheckMark \in S
  OBVIOUS
<1>2. <<CheckMark>> \in Seq(S) /\ q \in Seq(S)
  BY <1>1
<1>3. PICK t : t = q \o <<CheckMark>>
  OBVIOUS
<1>4. t \in Seq(S) /\ t # <<>>
  BY <1>2, <1>3
<1>5. Head(t) \in S /\ Tail(q) \in Seq(S)
  BY <1>2, <1>4
<1> QED
  BY <1>1, <1>3, <1>5

LEMMA SizeStep ==
  ASSUME PadIInv, NEW l, l = Head(pktSizes \o <<CheckMark>>), AllPayload(l) \/ LastPayload(l) \/ AllPadding(l)
  PROVE  PadIInv'
<1>1. /\ locked /\ locked' = locked /\ pktSizes # <<>> /\ l # CheckMark /\ pktSizes' = Tail(pktSizes)
  BY DEF AllPayload, LastPayload, AllPadding, NextSize
<1>2. pktSizes \in Seq(Sizes \cup {CheckMark}) /\ unsent \in [lo : Nat, hi : Nat]
  BY DEF PadIInv
<1>3. pktSizes' \in Seq(Sizes \cup {CheckMark}) /\ l \in Sizes
  BY <1>1, <1>2, SizesLeft
<1>4. l \in Nat /\ l > 0 /\ l < 65536
  BY <1>3 DEF Sizes, TwoBytes
<1>5. NoWaste \in [size : Nat, field : Nat]
  BY DEF NoWaste
<1>6. \A n \in Nat : n < 65536 => Waste(n) \in [size : Nat, field : Nat] /\ Waste(n).size = HeaderOverHeadSize + Waste(n).field
  BY DEF Waste, Uint16, HeaderOverHeadSize
<1>7. CASE AllPayload(l)
  <2>1. PICK r : r = Record(unsent.lo + l, NoWaste)
    OBVIOUS
  <2>2. r \in TlsRecord /\ r.lo = unsent.lo /\ r.hi = unsent.lo + l /\ WasteFits(r, given)
    BY <1>2, <1>4, <1>5, <2>1 DEF Record, TlsRecord, WasteFits
  <2>3. Send(r, r.hi)
    BY <1>7, <2>1, <2>2 DEF AllPayload
  <2> QED
    BY <1>1, <1>3, <2>2, <2>3, SendKeeps
<1>8. CASE LastPayload(l)
  <2>1. PICK w : w = IF PaddingLen(l) > 0 THEN Waste(PaddingLen(l)) ELSE NoWaste
    OBVIOUS
  <2>2. w \in [size : Nat, field : Nat] /\ (w # NoWaste => w.size = HeaderOverHeadSize + w.field)
    <3>1. CASE PaddingLen(l) > 0
      <4>1. Remain \in 1 .. l
        BY <1>8 DEF LastPayload
      <4>2. PICK n \in Nat : n = PaddingLen(l) /\ n < 65536
        BY <1>2, <1>4, <3>1, <4>1 DEF PaddingLen, HeaderOverHeadSize
      <4> QED
        BY <1>6, <2>1, <3>1, <4>2
    <3>2. CASE ~(PaddingLen(l) > 0)
      BY <1>5, <2>1, <3>2
    <3> QED
      BY <3>1, <3>2
  <2>3. PICK r : r = Record(unsent.hi, w)
    OBVIOUS
  <2>4. r \in TlsRecord /\ r.lo = unsent.lo /\ r.hi = unsent.hi /\ WasteFits(r, given)
    BY <1>1, <2>2, <2>3, RecordFits
  <2>5. Send(r, r.hi)
    BY <1>8, <2>1, <2>3, <2>4 DEF LastPayload, AfterLast
  <2> QED
    BY <1>1, <1>3, <2>4, <2>5, SendKeeps
<1>9. CASE AllPadding(l)
  <2>1. PICK r : r = Record(unsent.hi, Waste(l))
    OBVIOUS
  <2>2. Waste(l) \in [size : Nat, field : Nat] /\ Waste(l).size = HeaderOverHeadSize + Waste(l).field
    BY <1>4, <1>6
  <2>3. r \in TlsRecord /\ r.lo = unsent.lo /\ r.hi = unsent.hi /\ WasteFits(r, given)
    BY <1>1, <2>1, <2>2, RecordFits
  <2>4. Send(r, r.hi)
    BY <1>9, <2>1, <2>3 DEF AllPadding
  <2> QED
    BY <1>1, <1>3, <2>3, <2>4, SendKeeps
<1> QED
  BY <1>7, <1>8, <1>9

LEMMA WriteRestKeeps == PadIInv /\ WriteRest => PadIInv'
<1> SUFFICES ASSUME PadIInv, WriteRest PROVE PadIInv'
  OBVIOUS
<1>1. locked /\ ~locked' /\ pktSizes' = pktSizes /\ pktSizes \in Seq(Sizes \cup {CheckMark})
  BY DEF WriteRest, PadIInv
<1>2. CASE Remain = 0
  <2>1. /\ scheme' = scheme /\ buffering' = buffering /\ given' = given /\ preamble' = preamble /\ snapped' = snapped
        /\ tlsRecords' = tlsRecords /\ unsent' = unsent
    BY <1>2 DEF WriteRest
  <2>2. unsent \in [lo : Nat, hi : Nat] /\ unsent.lo = unsent.hi
    BY <1>2 DEF PadIInv, Remain
  <2> QED
    BY <1>1, <2>1, <2>2 DEF PadIInv, SentEnd, Chained, Wasted, WasteFits, End
<1>3. CASE Remain # 0
  <2>1. PICK r : r = Record(unsent.hi, NoWaste)
    OBVIOUS
  <2>2. NoWaste \in [size : Nat, field : Nat]
    BY DEF NoWaste
  <2>3. r \in TlsRecord /\ r.lo = unsent.lo /\ r.hi = unsent.hi /\ WasteFits(r, given)
    BY <1>1, <2>1, <2>2, RecordFits
  <2>4. Send(r, r.hi)
    BY <1>3, <2>1, <2>3 DEF WriteRest
  <2> QED
    BY <1>1, <2>3, <2>4, SendKeeps
<1> QED
  BY <1>2, <1>3

\* A frame comes in.
LEMMA FrameKeeps ==
  ASSUME PadIInv, SchemesFit, NEW n \in Nat, WriteBuffered(n) \/ WriteConn(n)
  PROVE  PadIInv'
<1>1. PICK h : h = given' /\ h = Given(given, n)
  BY DEF WriteBuffered, WriteConn
<1>2. /\ scheme \in Schemes /\ given \in Seq(Frame) /\ unsent \in [lo : Nat, hi : Nat] /\ tlsRecords \in Seq(TlsRecord)
      /\ preamble.field = preamble.zeros /\ unsent.lo = SentEnd(tlsRecords)
      /\ Chained(tlsRecords) /\ Wasted(tlsRecords, given)
  BY DEF PadIInv
<1>3. h \in Seq(Frame) /\ End(h, Len(h)) \in Nat /\ Wasted(tlsRecords, h)
  BY <1>1, <1>2, GivenMore
<1>4. scheme' = scheme /\ buffering' = buffering /\ preamble' = preamble /\ snapped' = snapped /\ tlsRecords' = tlsRecords
  BY DEF WriteBuffered, WriteConn
<1>5. CASE WriteBuffered(n)
  <2>1. unsent' = unsent /\ pktSizes' = pktSizes /\ locked' = locked /\ ~locked /\ tlsRecords = <<>>
    BY <1>5 DEF WriteBuffered, PadIInv
  <2> QED
    BY <1>1, <1>2, <1>3, <1>4, <2>1 DEF PadIInv, SentEnd, Chained, Wasted, WasteFits, End
<1>6. CASE WriteConn(n)
  <2>1. /\ unsent' = [unsent EXCEPT !.hi = End(h, Len(h))] /\ locked' /\ ~buffering
        /\ pktSizes' \in IF sendPadding' THEN GenerateRecordPayloadSizes(scheme, pktCounter') ELSE {<<>>}
    BY <1>1, <1>6 DEF WriteConn
  <2>2. unsent' \in [lo : Nat, hi : Nat] /\ unsent'.lo = unsent.lo /\ unsent'.hi = End(h, Len(h))
    BY <1>2, <1>3, <2>1
  <2>3. pktSizes' \in Seq(Sizes \cup {CheckMark})
    <3>1. CASE sendPadding'
      BY <1>2, <2>1, <3>1, PacketSizes
    <3>2. CASE ~sendPadding'
      <4>1. pktSizes' = <<>>
        BY <2>1, <3>2
      <4> QED
        BY <4>1
    <3> QED
      BY <3>1, <3>2
  <2>4. /\ scheme' \in Schemes /\ given' \in Seq(Frame) /\ tlsRecords' \in Seq(TlsRecord) /\ preamble'.field = preamble'.zeros
        /\ ~buffering' /\ unsent'.lo = SentEnd(tlsRecords') /\ unsent'.hi = End(given', Len(given')) /\ Chained(tlsRecords')
        /\ Wasted(tlsRecords', given')
    BY <1>1, <1>2, <1>3, <1>4, <2>1, <2>2
  <2> QED
    BY <2>1, <2>2, <2>3, <2>4 DEF PadIInv, SentEnd, Chained, Wasted, WasteFits, End
<1> QED
  BY <1>5, <1>6

LEMMA PadNextIInv == SchemesFit /\ PadIInv /\ [PadNext]_padVars => PadIInv'
<1> SUFFICES ASSUME SchemesFit, PadIInv, [PadNext]_padVars PROVE PadIInv'
  OBVIOUS
<1>1. CASE UNCHANGED padVars
  BY <1>1 DEF padVars, PadIInv, SentEnd, Chained, Wasted, WasteFits, End
<1>2. ASSUME NEW n \in FrameSizes, WriteBuffered(n) \/ WriteConn(n) PROVE PadIInv'
  BY <1>2, PaddingAssumption, FrameKeeps
<1>3. CASE StopBuffering
  BY <1>3 DEF StopBuffering, PadIInv, SentEnd, Chained, Wasted, WasteFits, End
<1>4. CASE PassCheckMark
  <2>1. pktSizes' \in Seq(Sizes \cup {CheckMark})
    <3>1. pktSizes' = IF Remain = 0 THEN <<>> ELSE Tail(pktSizes)
      BY <1>4 DEF PassCheckMark
    <3>2. pktSizes # <<>> /\ pktSizes \in Seq(Sizes \cup {CheckMark}) /\ <<>> \in Seq(Sizes \cup {CheckMark})
      BY <1>4 DEF PassCheckMark, PadIInv
    <3> QED
      BY <3>1, <3>2, SizesLeft
  <2>2. /\ scheme' = scheme /\ buffering' = buffering /\ given' = given /\ preamble' = preamble /\ snapped' = snapped
        /\ tlsRecords' = tlsRecords /\ unsent' = unsent /\ locked' = locked
    BY <1>4 DEF PassCheckMark
  <2> QED
    BY <2>1, <2>2 DEF PadIInv, SentEnd, Chained, Wasted, WasteFits, End
<1>5. CASE WriteFails
  <2>1. /\ scheme' = scheme /\ buffering' = buffering /\ given' = given /\ preamble' = preamble /\ snapped' = TRUE
        /\ tlsRecords' = tlsRecords /\ unsent' = unsent /\ locked' = FALSE /\ pktSizes' = <<>>
    BY <1>5 DEF WriteFails
  <2>2. pktSizes' \in Seq(Sizes \cup {CheckMark})
    BY <2>1
  <2> QED
    BY <2>1, <2>2 DEF PadIInv, SentEnd, Chained, Wasted, WasteFits, End
<1>6. ASSUME NEW s \in Schemes, UpdatePaddingScheme(s) PROVE PadIInv'
  BY <1>6 DEF UpdatePaddingScheme, PadIInv, SentEnd, Chained, Wasted, WasteFits, End
<1>7. ASSUME NEW l \in {Head(pktSizes \o <<CheckMark>>)}, AllPayload(l) \/ LastPayload(l) \/ AllPadding(l) PROVE PadIInv'
  BY <1>7, SizeStep
<1> QED
  BY <1>1, <1>2, <1>3, <1>4, <1>5, <1>6, <1>7, WriteRestKeeps DEF PadNext

LEMMA PadInitIInv ==
  ASSUME SchemesFit, NEW n \in Nat, PadInit({s \in Schemes : "stop" \in DOMAIN s}, n)
  PROVE  PadIInv
<1>1. /\ scheme \in Schemes /\ buffering = TRUE /\ given = Given(<<>>, n)
      /\ unsent = [lo |-> 0, hi |-> 0] /\ pktSizes = <<>> /\ locked = FALSE /\ tlsRecords = <<>>
      /\ \E q \in GenerateRecordPayloadSizes(scheme, 0) : preamble = Preamble(q)
  BY DEF PadInit
<1>2. PICK q \in GenerateRecordPayloadSizes(scheme, 0) : preamble = Preamble(q)
  BY <1>1
<1>3. q \in Seq(Sizes)
  BY <1>1, <1>2, PacketSizes
<1>4. PICK m \in Nat : m = (IF q = <<>> THEN 0 ELSE q[1]) /\ m < 65536
  <2>1. q # <<>> => q[1] \in Sizes
    BY <1>3
  <2> QED
    BY <2>1 DEF Sizes, TwoBytes
<1>5. preamble = [field |-> Uint16(m), zeros |-> IF m > 0 THEN m ELSE 0]
  BY <1>2, <1>4 DEF Preamble
<1>6. preamble.field = preamble.zeros
  BY <1>4, <1>5 DEF Uint16
<1>7. given \in Seq(Frame)
  <2>1. <<>> \in Seq(Frame)
    OBVIOUS
  <2> QED
    BY <1>1, <2>1, GivenMore
<1>8. /\ unsent \in [lo : Nat, hi : Nat] /\ unsent.lo = SentEnd(tlsRecords) /\ tlsRecords \in Seq(TlsRecord)
      /\ pktSizes \in Seq(Sizes \cup {CheckMark}) /\ Chained(tlsRecords) /\ Wasted(tlsRecords, given)
  BY <1>1 DEF SentEnd, Chained, Wasted
<1> QED
  BY <1>1, <1>6, <1>7, <1>8 DEF PadIInv

LEMMA PadIInvFrames == PadIInv => FramesSurvivePadding
BY DEF PadIInv, FramesSurvivePadding, SentEnd, Chained, Wasted, WasteFits

\* For any frames, any scheme whose sizes fit in two bytes, and one that replaces it at any
\* moment: the frames are found again between the padding (writeConn and the schemes that
\* cut what it writes into records).
THEOREM FramesAreFoundAgain == SchemesFit => (PadSpec => []FramesSurvivePadding)
<1> SUFFICES ASSUME SchemesFit PROVE PadSpec => []FramesSurvivePadding
  OBVIOUS
<1>1. (\E n \in Nat : PadInit({s \in Schemes : "stop" \in DOMAIN s}, n)) => PadIInv
  BY PadInitIInv
<1>2. PadIInv /\ [PadNext]_padVars => PadIInv'
  BY PadNextIInv
<1> QED
  BY <1>1, <1>2, PadIInvFrames, PTL DEF PadSpec

-----------------------------------------------------------------------------
(* The shadowsocks connection.                                             *)

Block == [is : {"salt", "size", "payload"}, seal : Nat, from : Nat, n : Nat]

\* The units a block adds to the stream.
Adds(b) == IF b.is = "payload" THEN b.n ELSE 0

\* Blocks sealed with k and the numbers that follow, for the units from f on.
SealRun(q, k, f) ==
  \A i \in 1 .. Len(q) : q[i].seal = k + i - 1 /\ q[i].from = IF i = 1 THEN f ELSE q[i - 1].from + Adds(q[i - 1])
SealRunEnd(q, f) == IF q = <<>> THEN f ELSE q[Len(q)].from + Adds(q[Len(q)])

\* A size that is not 0 has its payload behind it, and a payload its size before it, unless
\* that has been taken already.
Paired(q, s) ==
  /\ \A i \in 1 .. Len(q) : q[i].is \in {"size", "payload"}
  /\ s = "stream" => \A i \in 1 .. Len(q) : q[i].is = "payload" /\ q[i].n = 1
  /\ s = "aead" =>
       /\ \A i \in 1 .. Len(q) : q[i].is = "size" /\ q[i].n > 0 => i < Len(q) /\ q[i + 1].is = "payload"
       /\ \A i \in 2 .. Len(q) : q[i].is = "payload" => q[i - 1].is = "size" /\ q[i - 1].n = q[i].n

\* The blocks q go to a reader that has counted to k and has the units up to f.
IsRun(q, s, k, f) == q \in Seq(Block) /\ SealRun(q, k, f) /\ Paired(q, s)
StartsFresh(q, s) == s = "aead" /\ q # <<>> => q[1].is = "size"

\* The blocks q are sealed for the units from f up to e.
SealsTo(q, s, k, f, e) == IsRun(q, s, k, f) /\ StartsFresh(q, s) /\ SealRunEnd(q, f) = e

\* What q has become with more blocks behind it.
GrowsTo(p, r, s, k, f, e) ==
  IsRun(r, s, k, f) /\ SealRunEnd(r, f) = e /\ (StartsFresh(p, s) => StartsFresh(r, s))

\* More blocks are sealed.
LEMMA RunGrows ==
  ASSUME NEW s, NEW p, NEW q, NEW k \in Nat, NEW f \in Nat, NEW e \in Nat, NEW d, NEW l, l = k + Len(p),
         e = SealRunEnd(p, f), IsRun(p, s, k, f), SealsTo(q, s, l, e, d), NEW r, r = p \o q
  PROVE  GrowsTo(p, r, s, k, f, d)
<1>0. IsRun(q, s, k + Len(p), e) /\ StartsFresh(q, s) /\ SealRunEnd(q, e) = d
  BY DEF SealsTo
<1>1. p \in Seq(Block) /\ q \in Seq(Block) /\ SealRun(p, k, f) /\ SealRun(q, k + Len(p), e) /\ Paired(p, s) /\ Paired(q, s)
  BY <1>0 DEF IsRun
<1>2. PICK m \in Nat, n \in Nat : m = Len(p) /\ n = Len(q)
  BY <1>1
<1>a. (p = <<>> <=> m = 0) /\ (q = <<>> <=> n = 0)
  BY <1>1, <1>2, EmptySeq
<1>3. /\ r \in Seq(Block) /\ Len(r) = m + n
      /\ \A i \in 1 .. m : r[i] = p[i]
      /\ \A j \in 1 .. n : r[m + j] = q[j]
  BY <1>1, <1>2
<1>4. \A i \in 1 .. Len(r) : i \in 1 .. m \/ (i > m /\ i - m \in 1 .. n /\ r[i] = q[i - m])
  <2> TAKE i \in 1 .. Len(r)
  <2>1. i \in 1 .. m \/ (i > m /\ i - m \in 1 .. n /\ m + (i - m) = i)
    BY <1>2, <1>3
  <2> QED
    BY <1>3, <2>1
<1>5. SealRun(r, k, f)
  <2> SUFFICES ASSUME NEW i \in 1 .. Len(r)
               PROVE  r[i].seal = k + i - 1 /\ r[i].from = IF i = 1 THEN f ELSE r[i - 1].from + Adds(r[i - 1])
    BY DEF SealRun
  <2>1. CASE i \in 1 .. m
    <3>1. i = 1 \/ i - 1 \in 1 .. m
      BY <1>2, <2>1
    <3> QED
      BY <1>1, <1>2, <1>3, <2>1, <3>1 DEF SealRun
  <2>2. CASE i > m
    <3>1. i - m \in 1 .. n /\ r[i] = q[i - m]
      BY <1>2, <1>4, <2>2
    <3>2. /\ q[i - m].seal = (k + m) + (i - m) - 1
          /\ q[i - m].from = IF i - m = 1 THEN e ELSE q[(i - m) - 1].from + Adds(q[(i - m) - 1])
      BY <1>1, <1>2, <3>1 DEF SealRun
    <3>3. r[i].seal = k + i - 1
      <4>1. (k + m) + (i - m) - 1 = k + i - 1
        BY <1>2
      <4> QED
        BY <3>1, <3>2, <4>1
    <3>4. CASE i - m = 1
      <4>1. r[i].from = e
        BY <3>1, <3>2, <3>4
      <4>2. CASE m = 0
        <5>1. i = 1
          BY <1>2, <3>4, <4>2
        <5>2. e = f
          BY <1>a, <4>2 DEF SealRunEnd
        <5> QED
          BY <3>3, <4>1, <5>1, <5>2
      <4>3. CASE m # 0
        <5>1. i # 1 /\ i - 1 = m /\ m \in 1 .. m /\ p # <<>>
          BY <1>a, <1>2, <3>4, <4>3
        <5>2. e = p[m].from + Adds(p[m]) /\ r[i - 1] = p[m]
          BY <1>2, <1>3, <5>1 DEF SealRunEnd
        <5> QED
          BY <3>3, <4>1, <5>1, <5>2
      <4> QED
        BY <4>2, <4>3
    <3>5. CASE i - m # 1
      <4>a. i \in Nat /\ i > m /\ i - m # 1
        BY <2>2, <3>5
      <4>b. i > m + 1 /\ i <= m + n
        <5>1. i # m + 1
          BY <1>2, <4>a
        <5> QED
          BY <1>2, <1>3, <4>a, <5>1
      <4>1. i # 1 /\ i - 1 > m /\ (i - 1) - m = (i - m) - 1 /\ i - 1 \in 1 .. Len(r)
        BY <1>2, <1>3, <4>a, <4>b
      <4>2. r[i - 1] = q[(i - m) - 1]
        BY <1>2, <1>4, <4>1
      <4> QED
        BY <3>1, <3>2, <3>3, <3>5, <4>1, <4>2
    <3> QED
      BY <3>4, <3>5
  <2> QED
    BY <1>4, <2>1, <2>2, Zenon
<1>6. Paired(r, s)
  <2>1. \A i \in 1 .. Len(r) : r[i].is \in {"size", "payload"}
    BY <1>1, <1>2, <1>3, <1>4 DEF Paired
  <2>2. ASSUME s = "stream", NEW i \in 1 .. Len(r) PROVE r[i].is = "payload" /\ r[i].n = 1
    BY <1>1, <1>2, <1>3, <1>4, <2>2 DEF Paired
  <2>3. ASSUME s = "aead", NEW i \in 1 .. Len(r), r[i].is = "size", r[i].n > 0 PROVE i < Len(r) /\ r[i + 1].is = "payload"
    <3>1. CASE i \in 1 .. m
      <4>1. i < m /\ p[i + 1].is = "payload"
        BY <1>1, <1>2, <1>3, <2>3, <3>1 DEF Paired
      <4>2. i + 1 \in 1 .. m
        BY <1>2, <3>1, <4>1
      <4> QED
        BY <1>2, <1>3, <4>1, <4>2
    <3>2. CASE i > m
      <4>1. i - m \in 1 .. n /\ r[i] = q[i - m]
        BY <1>2, <1>4, <3>2
      <4>2. i - m < n /\ q[(i - m) + 1].is = "payload"
        BY <1>1, <1>2, <2>3, <4>1 DEF Paired
      <4>3. (i - m) + 1 \in 1 .. n /\ m + ((i - m) + 1) = i + 1 /\ i < m + n
        <5>1. PICK u \in 1 .. n : u = i - m
          BY <4>1
        <5>2. i = m + u
          BY <1>2, <5>1
        <5>3. u < n
          BY <4>2, <5>1
        <5>4. u + 1 \in 1 .. n
          BY <1>2, <5>3
        <5>5. m + (u + 1) = (m + u) + 1 /\ m + u < m + n
          BY <1>2, <5>3
        <5> QED
          BY <5>1, <5>2, <5>4, <5>5
      <4>4. r[i + 1] = q[(i - m) + 1]
        BY <1>3, <4>3
      <4> QED
        BY <1>3, <4>2, <4>3, <4>4
    <3> QED
      BY <1>4, <3>1, <3>2, Zenon
  <2>4. ASSUME s = "aead", NEW i \in 2 .. Len(r), r[i].is = "payload" PROVE r[i - 1].is = "size" /\ r[i - 1].n = r[i].n
    <3>1. CASE i \in 1 .. m
      <4>1. i \in 2 .. m /\ i - 1 \in 1 .. m
        BY <1>2, <3>1
      <4> QED
        BY <1>1, <1>2, <1>3, <2>4, <3>1, <4>1 DEF Paired
    <3>2. CASE i > m
      <4>1. i - m \in 1 .. n /\ r[i] = q[i - m]
        BY <1>2, <1>3, <1>4, <3>2
      <4>2. i - m # 1
        <5>1. q # <<>>
          BY <1>a, <1>2, <4>1
        <5>2. q[1].is = "size"
          BY <1>0, <2>4, <5>1 DEF StartsFresh
        <5> QED
          BY <2>4, <4>1, <5>2
      <4>a. i \in Nat /\ i > m + 1
        <5>1. i # m + 1
          BY <1>2, <4>2
        <5>2. i \in Nat
          BY <1>2, <1>3
        <5> QED
          BY <1>2, <3>2, <5>1, <5>2
      <4>3. i - m \in 2 .. n /\ (i - m) - 1 \in 1 .. n /\ m + ((i - m) - 1) = i - 1
        BY <1>2, <4>1, <4>a
      <4>4. r[i - 1] = q[(i - m) - 1]
        BY <1>3, <4>3
      <4> QED
        BY <1>1, <1>2, <2>4, <4>1, <4>3, <4>4 DEF Paired
    <3>3. i \in 1 .. Len(r)
      BY <1>2, <1>3
    <3> QED
      BY <1>4, <3>1, <3>2, <3>3, Zenon
  <2> QED
    BY <2>1, <2>2, <2>3, <2>4 DEF Paired
<1>7. SealRunEnd(r, f) = SealRunEnd(q, e)
  <2>1. CASE n = 0
    <3>1. q = <<>> /\ r = p
      BY <1>a, <1>1, <1>2, <2>1
    <3> QED
      BY <3>1 DEF SealRunEnd
  <2>2. CASE n # 0
    <3>1. q # <<>> /\ r # <<>> /\ n \in 1 .. n /\ r[m + n] = q[n]
      BY <1>a, <1>2, <1>3, <2>2
    <3> QED
      BY <1>2, <1>3, <3>1 DEF SealRunEnd
  <2> QED
    BY <2>1, <2>2
<1>8. StartsFresh(p, s) => StartsFresh(r, s)
  <2>1. CASE m = 0
    <3>1. p = <<>> /\ r = q
      BY <1>a, <1>1, <1>2, <2>1
    <3> QED
      BY <1>0, <3>1
  <2>2. CASE m # 0
    <3>1. p # <<>> /\ 1 \in 1 .. m /\ r[1] = p[1]
      BY <1>a, <1>2, <1>3, <2>2
    <3> QED
      BY <3>1 DEF StartsFresh
  <2> QED
    BY <2>1, <2>2
<1> QED
  BY <1>0, <1>3, <1>5, <1>6, <1>7, <1>8 DEF IsRun, GrowsTo

\* The first n blocks are gone.
Dropped(r, q, n) == r \in Seq(Block) /\ Len(r) = Len(q) - n /\ \A i \in 1 .. Len(r) : r[i] = q[i + n]

\* What q has become without its first blocks.
ShrinksTo(q, r, s, k, f, l, e) == IsRun(r, s, l, e) /\ SealRunEnd(r, e) = SealRunEnd(q, f)

\* Blocks are taken from the front.
LEMMA RunShrinks ==
  ASSUME NEW s, NEW q, NEW k \in Nat, NEW f \in Nat, IsRun(q, s, k, f), NEW n \in 1 .. Len(q), NEW r, Dropped(r, q, n),
         NEW l, l = k + n, NEW e, e = q[n].from + Adds(q[n])
  PROVE  ShrinksTo(q, r, s, k, f, l, e)
<1>0. r \in Seq(Block) /\ Len(r) = Len(q) - n /\ \A i \in 1 .. Len(r) : r[i] = q[i + n]
  BY DEF Dropped
<1>1. q \in Seq(Block) /\ SealRun(q, k, f) /\ Paired(q, s) /\ Len(q) \in Nat /\ n \in Nat /\ Len(r) \in Nat
  BY <1>0 DEF IsRun
<1>d. Len(q) = Len(r) + n /\ n >= 1
  BY <1>0, <1>1
<1>2. \A i \in 1 .. Len(r) : i + n \in 1 .. Len(q) /\ i + n # 1 /\ r[i] = q[i + n]
  BY <1>0, <1>1
<1>3. SealRun(r, k + n, q[n].from + Adds(q[n]))
  <2> SUFFICES ASSUME NEW i \in 1 .. Len(r)
               PROVE  /\ r[i].seal = (k + n) + i - 1
                      /\ r[i].from = IF i = 1 THEN q[n].from + Adds(q[n]) ELSE r[i - 1].from + Adds(r[i - 1])
    BY DEF SealRun
  <2>1. r[i].seal = k + (i + n) - 1 /\ r[i].from = q[(i + n) - 1].from + Adds(q[(i + n) - 1])
    BY <1>0, <1>1, <1>2 DEF SealRun
  <2>2. (i + n) - 1 = n + (i - 1) /\ k + (i + n) - 1 = (k + n) + i - 1
    BY <1>0, <1>1
  <2>3. CASE i = 1
    <3>1. (i + n) - 1 = n
      BY <1>0, <1>1, <2>3
    <3> QED
      BY <2>1, <2>2, <2>3, <3>1
  <2>4. CASE i # 1
    <3>1. i - 1 \in 1 .. Len(r) /\ (i - 1) + n = (i + n) - 1
      BY <1>d, <1>1, <2>4
    <3>2. r[i - 1] = q[(i + n) - 1]
      BY <1>2, <3>1
    <3> QED
      BY <2>1, <2>2, <2>4, <3>2
  <2> QED
    BY <2>3, <2>4
<1>4. Paired(r, s)
  <2>1. \A i \in 1 .. Len(r) : r[i].is \in {"size", "payload"}
    BY <1>0, <1>1, <1>2 DEF Paired
  <2>2. ASSUME s = "stream", NEW i \in 1 .. Len(r) PROVE r[i].is = "payload" /\ r[i].n = 1
    BY <1>0, <1>1, <1>2, <2>2 DEF Paired
  <2>3. ASSUME s = "aead", NEW i \in 1 .. Len(r), r[i].is = "size", r[i].n > 0 PROVE i < Len(r) /\ r[i + 1].is = "payload"
    <3>1. i + n < Len(q) /\ q[(i + n) + 1].is = "payload"
      BY <1>0, <1>1, <1>2, <2>3 DEF Paired
    <3>2. i + 1 \in 1 .. Len(r) /\ (i + 1) + n = (i + n) + 1 /\ i < Len(r)
      BY <1>d, <1>1, <3>1
    <3>3. r[i + 1] = q[(i + n) + 1]
      BY <1>2, <3>2
    <3> QED
      BY <3>1, <3>2, <3>3
  <2>4. ASSUME s = "aead", NEW i \in 2 .. Len(r), r[i].is = "payload" PROVE r[i - 1].is = "size" /\ r[i - 1].n = r[i].n
    <3>1. i \in 1 .. Len(r) /\ i - 1 \in 1 .. Len(r) /\ i + n \in 2 .. Len(q) /\ (i - 1) + n = (i + n) - 1
      <4>1. PICK a \in Nat, b \in Nat : a = Len(r) /\ b = Len(q) /\ b = a + n /\ i \in 2 .. a
        BY <1>d, <1>1
      <4>2. i \in 1 .. a /\ i - 1 \in 1 .. a /\ i + n \in 2 .. b /\ (i - 1) + n = (i + n) - 1
        BY <1>1, <4>1
      <4> QED
        BY <4>1, <4>2
    <3>2. r[i] = q[i + n] /\ r[i - 1] = q[(i + n) - 1]
      BY <1>2, <3>1
    <3> QED
      BY <1>0, <1>1, <2>4, <3>1, <3>2 DEF Paired
  <2> QED
    BY <2>1, <2>2, <2>3, <2>4 DEF Paired
<1>5. SealRunEnd(r, q[n].from + Adds(q[n])) = SealRunEnd(q, f)
  <2>1. q # <<>>
    BY <1>0, <1>1
  <2>2. CASE Len(r) = 0
    <3>1. r = <<>> /\ n = Len(q)
      BY <1>0, <1>1, <2>2
    <3> QED
      BY <2>1, <3>1 DEF SealRunEnd
  <2>3. CASE Len(r) # 0
    <3>1. r # <<>> /\ Len(r) \in 1 .. Len(r) /\ Len(r) + n = Len(q)
      BY <1>0, <1>1, <2>3
    <3>2. r[Len(r)] = q[Len(q)]
      BY <1>2, <3>1
    <3> QED
      BY <2>1, <3>1, <3>2 DEF SealRunEnd
  <2> QED
    BY <2>2, <2>3
<1> QED
  BY <1>0, <1>3, <1>4, <1>5 DEF IsRun, ShrinksTo

\* One Seal of a chunk, and the units of the key stream.
LEMMA SealedRun ==
  ASSUME cipher \in {"aead", "stream"}, NEW k \in Nat, NEW f \in Nat, NEW n \in Nat, NEW q, q = Sealed(k, f, n),
         NEW e, e = f + n
  PROVE  SealsTo(q, cipher, k, f, e) /\ Len(q) = Counts(n)
<1>1. CASE cipher = "stream"
  <2>1. q = [i \in 1 .. n |-> Payload(k + i - 1, f + i - 1, 1)]
    BY <1>1 DEF Sealed
  <2>2. \A i \in 1 .. n : /\ q[i].is = "payload" /\ q[i].seal = k + i - 1 /\ q[i].from = f + i - 1 /\ q[i].n = 1
                          /\ q[i] \in Block
    BY <2>1 DEF Payload, Block
  <2>3. q \in Seq(Block) /\ Len(q) = n
    <3>1. \A i \in 1 .. n : Payload(k + i - 1, f + i - 1, 1) \in Block
      BY <2>1, <2>2
    <3>2. q \in [1 .. n -> Block]
      BY <2>1, <3>1
    <3>3. q \in Seq(Block)
      BY <3>2, SeqDef
    <3>4. Len(q) \in Nat /\ 1 .. n = 1 .. Len(q)
      BY <2>1, <3>3, LenProperties
    <3> QED
      BY <3>3, <3>4
  <2>4. SealRun(q, k, f)
    <3> SUFFICES ASSUME NEW i \in 1 .. n
                 PROVE  q[i].seal = k + i - 1 /\ q[i].from = IF i = 1 THEN f ELSE q[i - 1].from + Adds(q[i - 1])
      BY <2>3 DEF SealRun
    <3>1. CASE i = 1
      BY <2>2, <3>1
    <3>2. CASE i # 1
      <4>1. i - 1 \in 1 .. n
        BY <3>2
      <4>2. q[i - 1].from = f + (i - 1) - 1 /\ Adds(q[i - 1]) = 1
        BY <2>2, <4>1 DEF Adds
      <4>3. q[i].from = f + i - 1 /\ q[i].seal = k + i - 1
        BY <2>2
      <4> QED
        BY <3>2, <4>2, <4>3
    <3> QED
      BY <3>1, <3>2
  <2>5. Paired(q, cipher)
    BY <1>1, <2>2, <2>3 DEF Paired
  <2>6. SealRunEnd(q, f) = f + n
    <3>1. q = <<>> <=> n = 0
      BY <2>3, EmptySeq
    <3>2. n # 0 => n \in 1 .. n
      OBVIOUS
    <3> QED
      BY <2>2, <2>3, <3>1, <3>2 DEF SealRunEnd, Adds
  <2> QED
    BY <1>1, <2>3, <2>4, <2>5, <2>6 DEF IsRun, StartsFresh, Counts, SealsTo
<1>2. CASE cipher = "aead"
  <2>1. PICK a, b : a = Size(k, f, n) /\ b = Payload(k + 1, f, n)
    OBVIOUS
  <2>2. q = <<a, b>>
    BY <1>2, <2>1 DEF Sealed
  <2>3. /\ a.is = "size" /\ a.seal = k /\ a.from = f /\ a.n = n /\ a \in Block
        /\ b.is = "payload" /\ b.seal = k + 1 /\ b.from = f /\ b.n = n /\ b \in Block
    BY <2>1 DEF Size, Payload, Block
  <2>4. q \in Seq(Block) /\ Len(q) = 2 /\ q[1] = a /\ q[2] = b /\ q # <<>>
    BY <2>2, <2>3
  <2>5. SealRun(q, k, f)
    <3>1. Adds(a) = 0
      BY <2>3 DEF Adds
    <3>2. \A i \in 1 .. Len(q) : i = 1 \/ i = 2
      BY <2>4
    <3> QED
      BY <2>3, <2>4, <3>1, <3>2 DEF SealRun
  <2>6. Paired(q, cipher)
    <3>1. \A i \in 1 .. Len(q) : i = 1 \/ i = 2
      BY <2>4
    <3> QED
      BY <1>2, <2>3, <2>4, <3>1 DEF Paired
  <2>7. SealRunEnd(q, f) = f + n
    BY <2>3, <2>4 DEF SealRunEnd, Adds
  <2> QED
    BY <1>2, <2>3, <2>4, <2>5, <2>6, <2>7 DEF IsRun, StartsFresh, Counts, SealsTo
<1> QED
  BY <1>1, <1>2

\* A run of c chunks, cut at the places g.
Cut(q, k, f, c, g) ==
  /\ q \in Seq(Block) /\ Len(q) = 2 * c /\ g \in [0 .. c -> Nat] /\ g[0] = 0
  /\ \A i \in 0 .. c - 1 : /\ g[i] < g[i + 1]
                           /\ q[2 * i + 1] = Size(k + 2 * i, f + g[i], g[i + 1] - g[i])
                           /\ q[2 * i + 2] = Payload(k + 2 * i + 1, f + g[i], g[i + 1] - g[i])

LEMMA CutRun ==
  ASSUME NEW q, NEW k \in Nat, NEW f \in Nat, NEW c \in Nat \ {0}, NEW g, Cut(q, k, f, c, g),
         NEW e, e = f + g[c], NEW s, s = "aead"
  PROVE  SealsTo(q, s, k, f, e)
<1>1. q \in Seq(Block) /\ Len(q) = 2 * c /\ g[0] = 0
  BY DEF Cut
<1>2. \A i \in 0 .. c : g[i] \in Nat
  BY DEF Cut
<1>3. ASSUME NEW i \in 0 .. c - 1
      PROVE  /\ q[2 * i + 1].is = "size" /\ q[2 * i + 1].seal = k + 2 * i /\ q[2 * i + 1].from = f + g[i]
             /\ q[2 * i + 2].is = "payload" /\ q[2 * i + 2].seal = k + 2 * i + 1 /\ q[2 * i + 2].from = f + g[i]
             /\ q[2 * i + 1].n = q[2 * i + 2].n
             /\ q[2 * i + 2].n = g[i + 1] - g[i]
             /\ Adds(q[2 * i + 1]) = 0 /\ Adds(q[2 * i + 2]) = g[i + 1] - g[i]
  <2>1. PICK a, b : a = q[2 * i + 1] /\ b = q[2 * i + 2]
    OBVIOUS
  <2>2. a = Size(k + 2 * i, f + g[i], g[i + 1] - g[i]) /\ b = Payload(k + 2 * i + 1, f + g[i], g[i + 1] - g[i])
    BY <2>1 DEF Cut
  <2>3. /\ a.is = "size" /\ a.seal = k + 2 * i /\ a.from = f + g[i] /\ a.n = g[i + 1] - g[i]
        /\ b.is = "payload" /\ b.seal = k + 2 * i + 1 /\ b.from = f + g[i] /\ b.n = g[i + 1] - g[i]
    BY <2>2 DEF Size, Payload
  <2> QED
    BY <2>1, <2>3 DEF Adds
<1>4. \A j \in 1 .. Len(q) : \E i \in 0 .. c - 1 : j = 2 * i + 1 \/ j = 2 * i + 2
  <2> TAKE j \in 1 .. Len(q)
  <2>1. j \in 1 .. 2 * c
    BY <1>1
  <2>2. PICK i \in Nat : j = 2 * i + 1 \/ j = 2 * i + 2
    <3>1. (j - 1) \div 2 \in Nat /\ (j = 2 * ((j - 1) \div 2) + 1 \/ j = 2 * ((j - 1) \div 2) + 2)
      BY <2>1
    <3> QED
      BY <3>1
  <2>3. i \in 0 .. c - 1
    BY <2>1, <2>2
  <2> QED
    BY <2>2, <2>3
<1>5. SealRun(q, k, f)
  <2> SUFFICES ASSUME NEW j \in 1 .. Len(q)
               PROVE  q[j].seal = k + j - 1 /\ q[j].from = IF j = 1 THEN f ELSE q[j - 1].from + Adds(q[j - 1])
    BY DEF SealRun
  <2>1. PICK i \in 0 .. c - 1 : j = 2 * i + 1 \/ j = 2 * i + 2
    BY <1>4
  <2>2. g[i] \in Nat
    BY <1>2
  <2>3. CASE j = 2 * i + 2
    <3>1. j # 1 /\ j - 1 = 2 * i + 1 /\ k + j - 1 = k + 2 * i + 1
      BY <2>3
    <3>2. q[j].seal = k + j - 1 /\ q[j].from = f + g[i]
      BY <1>3, <2>3, <3>1
    <3>3. q[j - 1].from = f + g[i] /\ Adds(q[j - 1]) = 0
      BY <1>3, <3>1
    <3> QED
      BY <2>2, <3>1, <3>2, <3>3
  <2>4. CASE j = 2 * i + 1
    <3>1. q[j].seal = k + 2 * i /\ q[j].from = f + g[i]
      BY <1>3, <2>4
    <3>2. q[j].seal = k + j - 1
      BY <2>4, <3>1
    <3>3. CASE i = 0
      BY <1>1, <2>4, <3>1, <3>2, <3>3
    <3>4. CASE i # 0
      <4>1. i - 1 \in 0 .. c - 1 /\ j # 1 /\ j - 1 = 2 * (i - 1) + 2 /\ (i - 1) + 1 = i
        BY <2>4, <3>4
      <4>2. g[i - 1] \in Nat
        BY <1>2, <4>1
      <4>3. q[j - 1].from = f + g[i - 1] /\ Adds(q[j - 1]) = g[i] - g[i - 1]
        BY <1>3, <4>1
      <4>4. PICK u \in Nat, v \in Nat : u = g[i - 1] /\ v = g[i]
        BY <2>2, <4>2
      <4>5. f + u + (v - u) = f + v
        BY <4>4
      <4>6. q[j].from = q[j - 1].from + Adds(q[j - 1])
        BY <3>1, <4>3, <4>4, <4>5
      <4> QED
        BY <3>2, <4>1, <4>6
    <3> QED
      BY <3>3, <3>4
  <2> QED
    BY <2>1, <2>3, <2>4
<1>6. Paired(q, "aead")
  <2>1. ASSUME NEW j \in 1 .. Len(q)
        PROVE  /\ q[j].is \in {"size", "payload"}
               /\ q[j].is = "size" => j < Len(q) /\ q[j + 1].is = "payload"
               /\ j \in 2 .. Len(q) /\ q[j].is = "payload" => q[j - 1].is = "size" /\ q[j - 1].n = q[j].n
    <3>1. PICK i \in 0 .. c - 1 : j = 2 * i + 1 \/ j = 2 * i + 2
      BY <1>4
    <3>2. CASE j = 2 * i + 1
      <4>1. j + 1 = 2 * i + 2 /\ j < 2 * c
        BY <3>2
      <4> QED
        BY <1>1, <1>3, <3>2, <4>1
    <3>3. CASE j = 2 * i + 2
      <4>1. j - 1 = 2 * i + 1
        BY <3>3
      <4> QED
        BY <1>3, <3>3, <4>1
    <3> QED
      BY <3>1, <3>2, <3>3
  <2>2. \A j \in 2 .. Len(q) : j \in 1 .. Len(q)
    BY <1>1
  <2> QED
    BY <2>1, <2>2 DEF Paired
<1>7. SealRunEnd(q, f) = f + g[c]
  <2>1. c - 1 \in 0 .. c - 1 /\ 2 * (c - 1) + 2 = 2 * c /\ (c - 1) + 1 = c /\ 2 * c # 0 /\ c - 1 \in 0 .. c /\ c \in 0 .. c
    OBVIOUS
  <2>2. q # <<>>
    BY <1>1, <2>1, EmptySeq
  <2>3. q[2 * c].from = f + g[c - 1] /\ Adds(q[2 * c]) = g[c] - g[c - 1] /\ g[c] \in Nat /\ g[c - 1] \in Nat
    BY <1>2, <1>3, <2>1
  <2> QED
    BY <1>1, <2>2, <2>3 DEF SealRunEnd
<1>8. StartsFresh(q, "aead")
  <2>1. 0 \in 0 .. c - 1 /\ 2 * 0 + 1 = 1
    OBVIOUS
  <2> QED
    BY <1>3, <2>1 DEF StartsFresh
<1> QED
  BY <1>1, <1>5, <1>6, <1>7, <1>8 DEF IsRun, SealsTo

\* A Write is such a run, of as many blocks as it counts.
LEMMA WrittenRun ==
  ASSUME cipher \in {"aead", "stream"}, nonceW \in Nat, put \in Nat, NEW n \in Nat, NEW c \in Nat, Chunked(n, c),
         NEW q, q = Written(n, c), NEW e, e = put + n
  PROVE  SealsTo(q, cipher, nonceW, put, e) /\ Len(q) = WrittenCount(n, c)
<1>1. CASE cipher = "stream"
  <2>1. q = Sealed(nonceW, put, n) /\ WrittenCount(n, c) = Counts(n)
    BY <1>1 DEF Written, WrittenCount, Counts
  <2> QED
    BY <2>1, SealedRun
<1>2. CASE cipher = "aead" /\ n = 0
  <2>1. PICK a : a = Size(nonceW, put, 0)
    OBVIOUS
  <2>2. q = <<a>> /\ WrittenCount(n, c) = 1
    BY <1>2, <2>1 DEF Written, WrittenCount
  <2>3. a.is = "size" /\ a.seal = nonceW /\ a.from = put /\ a.n = 0 /\ a \in Block
    BY <2>1 DEF Size, Block
  <2>4. q \in Seq(Block) /\ Len(q) = 1 /\ q[1] = a /\ q # <<>>
    BY <2>2, <2>3
  <2>5. Adds(a) = 0 /\ SealRun(q, nonceW, put) /\ SealRunEnd(q, put) = put
    BY <2>3, <2>4 DEF Adds, SealRun, SealRunEnd
  <2>6. Paired(q, cipher)
    BY <1>2, <2>3, <2>4 DEF Paired
  <2>7. IsRun(q, cipher, nonceW, put) /\ StartsFresh(q, cipher)
    BY <2>3, <2>4, <2>5, <2>6 DEF IsRun, StartsFresh
  <2>8. e = put
    BY <1>2
  <2>9. Len(q) = WrittenCount(n, c)
    BY <2>2, <2>4
  <2> QED
    BY <2>5, <2>7, <2>8, <2>9 DEF SealsTo
<1>3. CASE cipher = "aead" /\ n # 0
  <2>1. PICK h \in [0 .. c -> Nat] : \A i \in 0 .. c : h[i] = i * MaxPayload
    <3>1. \A i \in 0 .. c : i * MaxPayload \in Nat
      BY ShadowAssumption
    <3>2. [i \in 0 .. c |-> i * MaxPayload] \in [0 .. c -> Nat]
      BY <3>1
    <3> QED
      BY <3>2
  <2>2. c # 0 /\ h[c - 1] < n /\ n <= h[c] /\ h[0] = 0
    <3>1. (c - 1) * MaxPayload < n /\ n <= c * MaxPayload
      BY DEF Chunked
    <3>2. 0 * MaxPayload = 0
      BY ShadowAssumption
    <3>3. c # 0
      BY <1>3, <3>1, <3>2
    <3>4. c - 1 \in 0 .. c /\ c \in 0 .. c /\ 0 \in 0 .. c
      BY <3>3
    <3> QED
      BY <2>1, <3>1, <3>2, <3>3, <3>4
  <2>3. \A i \in 0 .. c - 1 : h[i] \in Nat /\ h[i + 1] = h[i] + MaxPayload
    <3> TAKE i \in 0 .. c - 1
    <3>1. i \in 0 .. c /\ i + 1 \in 0 .. c /\ (i + 1) * MaxPayload = i * MaxPayload + MaxPayload
      BY ShadowAssumption
    <3> QED
      BY <2>1, <3>1
  <2>4. PICK g : g = [i \in 0 .. c |-> IF i < c THEN h[i] ELSE n]
    OBVIOUS
  <2>5. g \in [0 .. c -> Nat] /\ g[0] = 0 /\ g[c] = n
    <3>1. 0 \in 0 .. c /\ c \in 0 .. c /\ 0 < c
      BY <2>2
    <3>2. \A i \in 0 .. c : (IF i < c THEN h[i] ELSE n) \in Nat
      BY <2>1
    <3>3. g[0] = h[0]
      BY <2>4, <3>1
    <3> QED
      BY <2>2, <2>4, <3>1, <3>2, <3>3
  <2>6. ASSUME NEW i \in 0 .. c - 1
        PROVE  g[i] = i * MaxPayload /\ g[i + 1] - g[i] = (IF i < c - 1 THEN MaxPayload ELSE n - i * MaxPayload) /\ g[i] < g[i + 1]
    <3>1. i \in 0 .. c /\ i < c /\ i + 1 \in 0 .. c
      OBVIOUS
    <3>2. g[i] = h[i] /\ h[i] = i * MaxPayload /\ h[i] \in Nat /\ h[i + 1] = h[i] + MaxPayload
      BY <2>1, <2>3, <2>4, <3>1
    <3>3. CASE i < c - 1
      <4>1. i + 1 < c
        BY <3>3
      <4>2. g[i + 1] = h[i + 1]
        BY <2>4, <3>1, <4>1
      <4>3. MaxPayload \in Nat /\ MaxPayload > 0
        BY ShadowAssumption
      <4> QED
        BY <3>2, <3>3, <4>2, <4>3
    <3>4. CASE ~(i < c - 1)
      <4>1. i + 1 = c /\ i = c - 1
        BY <3>4
      <4>2. g[i + 1] = n /\ h[i] < n
        BY <2>2, <2>5, <4>1
      <4> QED
        BY <3>2, <3>4, <4>2
    <3> QED
      BY <3>3, <3>4
  <2>7. q = [j \in 1 .. 2 * c |->
               IF j % 2 = 1
               THEN Size(nonceW + ((j - 1) \div 2) * 2, put + ((j - 1) \div 2) * MaxPayload,
                         IF (j - 1) \div 2 < c - 1 THEN MaxPayload ELSE n - ((j - 1) \div 2) * MaxPayload)
               ELSE Payload(nonceW + ((j - 1) \div 2) * 2 + 1, put + ((j - 1) \div 2) * MaxPayload,
                            IF (j - 1) \div 2 < c - 1 THEN MaxPayload ELSE n - ((j - 1) \div 2) * MaxPayload)]
    BY <1>3 DEF Written, Counts
  <2>8. ASSUME NEW i \in 0 .. c - 1
        PROVE  /\ q[2 * i + 1] = Size(nonceW + 2 * i, put + g[i], g[i + 1] - g[i])
               /\ q[2 * i + 2] = Payload(nonceW + 2 * i + 1, put + g[i], g[i + 1] - g[i])
    <3>1. /\ 2 * i + 1 \in 1 .. 2 * c /\ (2 * i + 1) % 2 = 1 /\ ((2 * i + 1) - 1) \div 2 = i
          /\ 2 * i + 2 \in 1 .. 2 * c /\ (2 * i + 2) % 2 # 1 /\ ((2 * i + 2) - 1) \div 2 = i
          /\ i * 2 = 2 * i
      OBVIOUS
    <3>2. q[2 * i + 1] = Size(nonceW + i * 2, put + i * MaxPayload, IF i < c - 1 THEN MaxPayload ELSE n - i * MaxPayload)
      BY <2>7, <3>1
    <3>3. q[2 * i + 2] = Payload(nonceW + i * 2 + 1, put + i * MaxPayload, IF i < c - 1 THEN MaxPayload ELSE n - i * MaxPayload)
      BY <2>7, <3>1
    <3> QED
      BY <2>6, <3>1, <3>2, <3>3
  <2>9. \A j \in 1 .. 2 * c : q[j] \in Block
    <3> TAKE j \in 1 .. 2 * c
    <3>1. PICK i \in 0 .. c - 1 : j = 2 * i + 1 \/ j = 2 * i + 2
      <4>1. PICK i \in Nat : j = 2 * i + 1 \/ j = 2 * i + 2
        <5>1. (j - 1) \div 2 \in Nat /\ (j = 2 * ((j - 1) \div 2) + 1 \/ j = 2 * ((j - 1) \div 2) + 2)
          OBVIOUS
        <5> QED
          BY <5>1
      <4>2. i \in 0 .. c - 1
        BY <4>1
      <4> QED
        BY <4>1, <4>2
    <3>2. PICK u \in Nat, w \in Nat : u = g[i] /\ w = g[i + 1] - g[i]
      <4>1. i \in 0 .. c /\ i + 1 \in 0 .. c
        OBVIOUS
      <4>2. g[i] \in Nat /\ g[i + 1] \in Nat /\ g[i] < g[i + 1]
        BY <2>5, <2>6, <4>1
      <4> QED
        BY <4>2
    <3>3. Size(nonceW + 2 * i, put + u, w) \in Block /\ Payload(nonceW + 2 * i + 1, put + u, w) \in Block
      BY DEF Size, Payload, Block
    <3> QED
      BY <2>8, <3>1, <3>2, <3>3
  <2>10. q \in Seq(Block) /\ Len(q) = 2 * c
    <3>1. 2 * c \in Nat /\ DOMAIN q = 1 .. 2 * c /\ q = [j \in 1 .. 2 * c |-> q[j]]
      BY <2>7
    <3>2. q \in [1 .. 2 * c -> Block]
      BY <2>9, <3>1
    <3>3. q \in Seq(Block)
      BY <3>1, <3>2, SeqDef
    <3>4. Len(q) \in Nat /\ 1 .. 2 * c = 1 .. Len(q)
      BY <3>1, <3>3, LenProperties
    <3> QED
      BY <3>1, <3>3, <3>4
  <2>11. Cut(q, nonceW, put, c, g)
    BY <2>5, <2>6, <2>8, <2>10 DEF Cut
  <2>12. WrittenCount(n, c) = 2 * c
    BY <1>3 DEF WrittenCount, Counts
  <2>13. c \in Nat \ {0}
    BY <2>2
  <2>14. e = put + g[c]
    BY <2>5
  <2>15. SealsTo(q, cipher, nonceW, put, e)
    BY <1>3, <2>11, <2>13, <2>14, CutRun
  <2> QED
    BY <2>10, <2>12, <2>15
<1> QED
  BY <1>1, <1>2, <1>3

\* The unit the reader expects: what it has not handed out of a chunk it has already.
Expected == taken + (left[2] - left[1])

\* The blocks under way, behind the salt as long as that is not read.  A block that is no
\* start of a chunk is first only behind an end mark.
UnderWay(q) ==
  /\ IsRun(q, cipher, nonceR, Expected)
  /\ wire = IF keyed \/ ~salted THEN q ELSE <<Salt>> \o q
  /\ ~salted => q = <<>>
  /\ ~stopped => nonceR + Len(q) = nonceW /\ SealRunEnd(q, Expected) = put
  /\ marks = 0 => StartsFresh(q, cipher)

\* The inductive invariant.
ShadowIInv ==
  /\ cipher \in {"aead", "stream"} /\ keyed \in BOOLEAN /\ salted \in BOOLEAN /\ stopped \in BOOLEAN
  /\ nonceW \in Nat /\ put \in Nat /\ nonceR \in Nat /\ taken \in Nat /\ marks \in Nat
  /\ left[1] \in Nat /\ left[2] \in Nat /\ left[1] <= left[2] /\ (left[1] < left[2] => taken = left[1])
  /\ keyed => salted
  /\ failed = "unsealed" => marks > 0
  /\ \E q : UnderWay(q)

\* It says what the property says.
LEMMA ShadowIInvSeals == ShadowIInv => SealsOpenInOrder
<1> SUFFICES ASSUME ShadowIInv PROVE SealsOpenInOrder
  OBVIOUS
<1>1. taken >= 0 /\ (failed = "unsealed" => marks > 0)
  BY DEF ShadowIInv
<1>2. ASSUME ~stopped, wire = <<>> PROVE taken + (left[2] - left[1]) = put
  <2>1. PICK q : UnderWay(q)
    BY DEF ShadowIInv
  <2>2. q \in Seq(Block)
    BY <2>1 DEF UnderWay, IsRun
  <2>3. <<Salt>> \o q # <<>>
    <3>1. <<Salt>> \in Seq({Salt} \cup Block) /\ q \in Seq({Salt} \cup Block)
      <4>1. Block \subseteq {Salt} \cup Block
        OBVIOUS
      <4> QED
        BY <2>2, <4>1, MoreThings
    <3>2. Len(<<Salt>> \o q) = 1 + Len(q) /\ Len(q) \in Nat
      BY <3>1
    <3> QED
      BY <3>2
  <2>4. q = <<>>
    BY <1>2, <2>1, <2>3 DEF UnderWay
  <2> QED
    BY <1>2, <2>1, <2>4 DEF UnderWay, SealRunEnd, Expected
<1> QED
  BY <1>1, <1>2 DEF SealsOpenInOrder

LEMMA ShadowInitIInv == ShadowInit({"aead", "stream"}) => ShadowIInv
<1> SUFFICES ASSUME ShadowInit({"aead", "stream"}) PROVE ShadowIInv
  OBVIOUS
<1>1. left[1] = 0 /\ left[2] = 0 /\ Expected = 0
  BY DEF ShadowInit, Expected
<1>2. IsRun(<<>>, cipher, 0, 0)
  <2>1. <<>> \in Seq(Block) /\ Len(<<>>) = 0
    OBVIOUS
  <2> QED
    BY <2>1 DEF IsRun, SealRun, Paired
<1>3. UnderWay(<<>>)
  BY <1>1, <1>2 DEF UnderWay, ShadowInit, StartsFresh, SealRunEnd
<1>4. \E q : UnderWay(q)
  BY <1>3
<1>5. /\ cipher \in {"aead", "stream"} /\ keyed = FALSE /\ salted = FALSE /\ stopped = FALSE
      /\ nonceW = 0 /\ put = 0 /\ nonceR = 0 /\ taken = 0 /\ marks = 0 /\ failed = "none"
  BY DEF ShadowInit
<1>6. nonceW \in Nat /\ put \in Nat /\ nonceR \in Nat /\ taken \in Nat /\ marks \in Nat
  BY <1>5
<1>7. left[1] \in Nat /\ left[2] \in Nat /\ left[1] <= left[2] /\ (left[1] < left[2] => taken = left[1])
  BY <1>1
<1>8. keyed \in BOOLEAN /\ salted \in BOOLEAN /\ stopped \in BOOLEAN /\ (keyed => salted) /\ (failed = "unsealed" => marks > 0)
  BY <1>5
<1> QED
  BY <1>4, <1>5, <1>6, <1>7, <1>8 DEF ShadowIInv

\* What is sealed goes out: the invariant stays.
LEMMA OutKeeps ==
  ASSUME ShadowIInv, NEW b, NEW e \in Nat, Out(b), SealsTo(b, cipher, nonceW, put, e),
         nonceW' = nonceW + Len(b), put' = e
  PROVE  ShadowIInv'
<1>1. PICK q : UnderWay(q)
  BY DEF ShadowIInv
<1>2. b \in Seq(Block) /\ Len(b) \in Nat /\ q \in Seq(Block)
  BY <1>1 DEF IsRun, UnderWay, SealsTo
<1>3. /\ cipher' = cipher /\ stopped' = stopped /\ keyed' = keyed /\ nonceR' = nonceR /\ left' = left
      /\ taken' = taken /\ failed' = failed /\ marks' = marks /\ Expected' = Expected
      /\ salted' = (salted \/ ~stopped)
  BY DEF Out, readerVars, Expected
<1>4. Expected \in Nat
  BY DEF Expected, ShadowIInv
<1>5. \E r : UnderWay(r)'
  <2>1. CASE stopped
    <3>1. wire' = wire /\ (salted' <=> salted)
      BY <1>3, <2>1 DEF Out
    <3>2. UnderWay(q)'
      BY <1>1, <1>3, <2>1, <3>1 DEF UnderWay
    <3> QED
      BY <3>2
  <2>2. CASE ~stopped
    <3>1. PICK r : r = q \o b
      OBVIOUS
    <3>2. nonceR + Len(q) = nonceW /\ SealRunEnd(q, Expected) = put
      BY <1>1, <2>2 DEF UnderWay
    <3>3. IsRun(r, cipher, nonceR, Expected) /\ SealRunEnd(r, Expected) = e /\ (StartsFresh(q, cipher) => StartsFresh(r, cipher))
      <4>1. nonceR \in Nat /\ put \in Nat
        BY DEF ShadowIInv
      <4>2. IsRun(q, cipher, nonceR, Expected)
        BY <1>1 DEF UnderWay
      <4>3. GrowsTo(q, r, cipher, nonceR, Expected, e)
        BY <1>4, <3>1, <3>2, <4>1, <4>2, RunGrows
      <4> QED
        BY <4>3 DEF GrowsTo
    <3>a. Len(r) = Len(q) + Len(b)
      BY <1>2, <3>1
    <3>4. wire' = IF keyed THEN r ELSE <<Salt>> \o r
      <4>1. wire' = wire \o (IF salted THEN <<>> ELSE <<Salt>>) \o b
        BY <2>2 DEF Out
      <4>2. CASE keyed
        <5>1. salted /\ wire = q
          BY <1>1, <4>2 DEF ShadowIInv, UnderWay
        <5>2. wire' = (q \o <<>>) \o b
          BY <4>1, <5>1
        <5>3. q \o <<>> = q
          BY <1>2
        <5> QED
          BY <3>1, <4>2, <5>2, <5>3
      <4>3. CASE ~keyed /\ salted
        <5>1. wire = <<Salt>> \o q
          BY <1>1, <4>3 DEF UnderWay
        <5>2. wire' = ((<<Salt>> \o q) \o <<>>) \o b
          BY <4>1, <4>3, <5>1
        <5>3. ((<<Salt>> \o q) \o <<>>) \o b = <<Salt>> \o (q \o b)
          <6>1. PICK X : X = {Salt} \cup Block
            OBVIOUS
          <6>2. Block \subseteq X /\ Salt \in X
            BY <6>1
          <6>3. <<Salt>> \in Seq(X) /\ q \in Seq(X) /\ b \in Seq(X)
            BY <1>2, <6>2, MoreThings
          <6>4. PICK t : t = <<Salt>> \o q
            OBVIOUS
          <6>5. t \in Seq(X)
            BY <6>3, <6>4
          <6>6. t \o <<>> = t
            BY <6>5
          <6>7. (<<Salt>> \o q) \o b = <<Salt>> \o (q \o b)
            BY <6>3, ConcatAssociative
          <6> QED
            BY <6>4, <6>6, <6>7
        <5> QED
          BY <3>1, <4>3, <5>2, <5>3
      <4>4. CASE ~salted
        <5>1. ~keyed /\ q = <<>> /\ wire = <<>>
          BY <1>1, <4>4 DEF ShadowIInv, UnderWay
        <5>2. wire' = (<<>> \o <<Salt>>) \o b
          BY <4>1, <4>4, <5>1
        <5>3. <<>> \o <<Salt>> = <<Salt>> /\ <<>> \o b = b
          BY <1>2
        <5> QED
          BY <3>1, <5>1, <5>2, <5>3
      <4> QED
        BY <4>2, <4>3, <4>4
    <3>5. salted' = TRUE
      BY <1>3, <2>2
    <3>6. nonceR + Len(r) = nonceW + Len(b)
      <4>1. Len(q) \in Nat /\ nonceR \in Nat
        BY <1>2 DEF ShadowIInv
      <4> QED
        BY <1>2, <3>2, <3>a, <4>1
    <3>7. marks = 0 => StartsFresh(r, cipher)
      BY <1>1, <3>3 DEF UnderWay
    <3>8. UnderWay(r)'
      BY <1>3, <3>3, <3>4, <3>5, <3>6, <3>7 DEF UnderWay
    <3> QED
      BY <3>8
  <2> QED
    BY <2>1, <2>2
<1>6. salted' \in BOOLEAN /\ (keyed => salted') /\ nonceW' \in Nat
  BY <1>2, <1>3 DEF ShadowIInv
<1> QED
  BY <1>3, <1>5, <1>6 DEF ShadowIInv

LEMMA WriteKeeps == ASSUME ShadowIInv, NEW n \in Nat, Write(n) PROVE ShadowIInv'
<1>1. PICK c \in Nat : Chunked(n, c) /\ Out(Written(n, c)) /\ nonceW' = nonceW + WrittenCount(n, c) /\ put' = put + n
  BY DEF Write
<1>2. cipher \in {"aead", "stream"} /\ nonceW \in Nat /\ put \in Nat
  BY DEF ShadowIInv
<1>3. PICK b : b = Written(n, c)
  OBVIOUS
<1>4. PICK e \in Nat : e = put + n
  BY <1>2
<1>5. SealsTo(b, cipher, nonceW, put, e) /\ Len(b) = WrittenCount(n, c)
  BY <1>1, <1>2, <1>3, <1>4, WrittenRun
<1>6. Out(b) /\ nonceW' = nonceW + Len(b) /\ put' = e
  BY <1>1, <1>3, <1>4, <1>5
<1> QED
  BY <1>5, <1>6, OutKeeps

LEMMA ReadFromKeeps == ASSUME ShadowIInv, NEW n \in Nat, NEW eof, ReadFromChunk(n, eof) PROVE ShadowIInv'
<1>1. Out(Sealed(nonceW, put, n)) /\ nonceW' = nonceW + Counts(n) /\ put' = put + n
  BY DEF ReadFromChunk
<1>2. cipher \in {"aead", "stream"} /\ nonceW \in Nat /\ put \in Nat
  BY DEF ShadowIInv
<1>3. PICK b : b = Sealed(nonceW, put, n)
  OBVIOUS
<1>4. PICK e \in Nat : e = put + n
  BY <1>2
<1>5. SealsTo(b, cipher, nonceW, put, e) /\ Len(b) = Counts(n)
  BY <1>2, <1>3, <1>4, SealedRun
<1>6. Out(b) /\ nonceW' = nonceW + Len(b) /\ put' = e
  BY <1>1, <1>3, <1>4, <1>5
<1> QED
  BY <1>5, <1>6, OutKeeps

LEMMA BreakKeeps == ASSUME ShadowIInv, Break PROVE ShadowIInv'
<1>1. /\ cipher' = cipher /\ keyed' = keyed /\ nonceR' = nonceR /\ left' = left /\ taken' = taken /\ failed' = failed
      /\ marks' = marks /\ salted' = salted /\ nonceW' = nonceW /\ put' = put /\ wire' = wire /\ stopped' = TRUE
  BY DEF Break, readerVars
<1>2. PICK q : UnderWay(q)
  BY DEF ShadowIInv
<1>3. UnderWay(q)'
  BY <1>1, <1>2 DEF UnderWay, Expected
<1>4. (\E r : UnderWay(r))'
  BY <1>3
<1> QED
  BY <1>1, <1>4 DEF ShadowIInv

\* The salt is read.
LEMMA InitReaderKeeps == ASSUME ShadowIInv, InitReader PROVE ShadowIInv'
<1>1. /\ cipher' = cipher /\ nonceR' = nonceR /\ left' = left /\ taken' = taken /\ failed' = failed
      /\ marks' = marks /\ salted' = salted /\ nonceW' = nonceW /\ put' = put /\ stopped' = stopped
      /\ keyed' = TRUE /\ ~keyed /\ wire # <<>> /\ wire' = Tail(wire)
  BY DEF InitReader, writerVars
<1>2. PICK q : UnderWay(q)
  BY DEF ShadowIInv
<1>3. salted /\ wire = <<Salt>> \o q
  BY <1>1, <1>2 DEF UnderWay
<1>4. wire' = q
  <2>1. q \in Seq({Salt} \cup Block) /\ <<Salt>> \in Seq({Salt} \cup Block)
    <3>1. q \in Seq(Block) /\ Block \subseteq {Salt} \cup Block
      BY <1>2 DEF UnderWay, IsRun
    <3> QED
      BY <3>1, MoreThings
  <2>2. Tail(<<Salt>> \o q) = q
    BY <2>1, HeadTailAppend, SMT
  <2> QED
    BY <1>1, <1>3, <2>2
<1>5. UnderWay(q)'
  BY <1>1, <1>2, <1>3, <1>4 DEF UnderWay, Expected
<1>6. (\E r : UnderWay(r))'
  BY <1>5
<1> QED
  BY <1>1, <1>3, <1>6 DEF ShadowIInv

\* What is left of the wire without its first n blocks.
Rest(r, n, e) ==
  /\ wire \in Seq(Block) /\ IsRun(wire, cipher, nonceR, Expected) /\ IsRun(r, cipher, nonceR + n, e)
  /\ ~stopped => (nonceR + n) + Len(r) = nonceW /\ SealRunEnd(r, e) = put

LEMMA RestUnderWay ==
  ASSUME ShadowIInv, keyed, NEW n \in Nat, n >= 1, n <= Len(wire), NEW r, Dropped(r, wire, n),
         NEW e, e = wire[n].from + Adds(wire[n])
  PROVE  Rest(r, n, e)
<1>1. UnderWay(wire)
  BY DEF ShadowIInv, UnderWay
<1>2. wire \in Seq(Block) /\ IsRun(wire, cipher, nonceR, Expected) /\ Len(wire) \in Nat /\ n \in 1 .. Len(wire)
  BY <1>1 DEF UnderWay, IsRun
<1>3. nonceR \in Nat /\ Expected \in Nat
  BY DEF ShadowIInv, Expected
<1>4. PICK f \in Nat : f = Expected
  BY <1>3
<1>l. PICK l \in Nat : l = nonceR + n
  BY <1>3
<1>5. ShrinksTo(wire, r, cipher, nonceR, f, l, e)
  BY <1>2, <1>3, <1>4, <1>l, RunShrinks
<1>6. IsRun(r, cipher, nonceR + n, e) /\ SealRunEnd(r, e) = SealRunEnd(wire, Expected)
  BY <1>4, <1>5, <1>l DEF ShrinksTo
<1>7. ~stopped => (nonceR + n) + Len(r) = nonceW /\ SealRunEnd(r, e) = put
  <2>1. ~stopped => nonceR + Len(wire) = nonceW /\ SealRunEnd(wire, Expected) = put
    BY <1>1 DEF UnderWay
  <2>2. Len(r) = Len(wire) - n
    BY DEF Dropped
  <2>3. (nonceR + n) + (Len(wire) - n) = nonceR + Len(wire)
    BY <1>2, <1>3
  <2> QED
    BY <1>6, <2>1, <2>2, <2>3
<1> QED
  BY <1>2, <1>6, <1>7 DEF Rest

LEMMA SubSeqDrops ==
  ASSUME NEW q \in Seq(Block), NEW n \in Nat, n <= Len(q), NEW r, r = SubSeq(q, n + 1, Len(q))
  PROVE  Dropped(r, q, n)
<1>1. PICK l \in Nat : l = Len(q)
  OBVIOUS
<1>2. n + 1 \in Int /\ l \in Int /\ n + 1 \in 1 .. l + 1
  BY <1>1
<1>3. r \in Seq(Block) /\ Len(r) = IF n + 1 <= l THEN l - (n + 1) + 1 ELSE 0
  BY <1>1, <1>2, SubSeqProperties
<1>4. \A i \in 1 .. l - n : r[i] = q[(n + 1) + i - 1]
  BY <1>1, <1>2, SubSeqProperties
<1>5. Len(r) = l - n
  BY <1>1, <1>3
<1>6. \A i \in 1 .. l - n : (n + 1) + i - 1 = i + n
  OBVIOUS
<1> QED
  BY <1>1, <1>3, <1>4, <1>5, <1>6 DEF Dropped

LEMMA TailDrops ==
  ASSUME NEW q \in Seq(Block), q # <<>>, NEW r, r = Tail(q)
  PROVE  Dropped(r, q, 1)
<1>1. r \in Seq(Block) /\ Len(r) = Len(q) - 1 /\ \A i \in 1 .. Len(q) - 1 : r[i] = q[i + 1]
  OBVIOUS
<1> QED
  BY <1>1 DEF Dropped

\* What a reader that asks finds first.
LEMMA FirstBlock ==
  ASSUME ShadowIInv, Asking, wire # <<>>
  PROVE  /\ wire \in Seq(Block) /\ Len(wire) \in Nat /\ Len(wire) >= 1 /\ wire[1] \in Block
         /\ wire[1].seal = nonceR /\ wire[1].from = Expected /\ Expected = taken
         /\ wire[1].is \in {"size", "payload"} /\ IsRun(wire, cipher, nonceR, Expected)
         /\ marks = 0 /\ cipher = "aead" => wire[1].is = "size"
<1>1. keyed /\ left[1] = left[2]
  BY DEF Asking
<1>2. UnderWay(wire)
  BY <1>1 DEF ShadowIInv, UnderWay
<1>3. wire \in Seq(Block) /\ SealRun(wire, nonceR, Expected) /\ Paired(wire, cipher) /\ IsRun(wire, cipher, nonceR, Expected)
  BY <1>2 DEF UnderWay, IsRun
<1>4. Len(wire) \in Nat /\ Len(wire) >= 1 /\ 1 \in 1 .. Len(wire)
  BY <1>3, EmptySeq
<1>5. wire[1] \in Block
  BY <1>3, <1>4, ElementOfSeq
<1>6. wire[1].seal = nonceR + 1 - 1 /\ wire[1].from = Expected
  BY <1>3, <1>4 DEF SealRun
<1>7. nonceR + 1 - 1 = nonceR /\ Expected = taken
  BY <1>1 DEF ShadowIInv, Expected
<1>8. wire[1].is \in {"size", "payload"}
  BY <1>3, <1>4 DEF Paired
<1>9. marks = 0 /\ cipher = "aead" => wire[1].is = "size"
  BY <1>2 DEF UnderWay, StartsFresh
<1> QED
  BY <1>3, <1>4, <1>5, <1>6, <1>7, <1>8, <1>9

\* The payload of a size.
LEMMA SecondBlock ==
  ASSUME ShadowIInv, Asking, Len(wire) >= 2, wire # <<>>, cipher = "aead", wire[1].is = "size", wire[1].n > 0
  PROVE  /\ wire[2].is = "payload" /\ wire[2].from = taken /\ wire[2].seal = nonceR + 1 /\ wire[2] \in Block
         /\ 3 \in 1 .. Len(wire) => wire[3].is = "size"
<1>1. /\ wire \in Seq(Block) /\ Len(wire) \in Nat /\ wire[1].from = taken /\ SealRun(wire, nonceR, Expected)
      /\ Paired(wire, cipher)
  BY FirstBlock DEF IsRun
<1>2. 1 \in 1 .. Len(wire) /\ 2 \in 1 .. Len(wire)
  BY <1>1
<1>3. wire[2].is = "payload"
  <2>1. wire[1 + 1].is = "payload"
    BY <1>1, <1>2 DEF Paired
  <2> QED
    BY <2>1
<1>4. wire[2].seal = nonceR + 2 - 1 /\ wire[2].from = wire[2 - 1].from + Adds(wire[2 - 1])
  BY <1>1, <1>2 DEF SealRun
<1>5. Adds(wire[1]) = 0 /\ nonceR + 2 - 1 = nonceR + 1 /\ 2 - 1 = 1 /\ taken + 0 = taken
  BY DEF Adds, ShadowIInv
<1>6. wire[2] \in Block
  BY <1>1, <1>2, ElementOfSeq
<1>7. ASSUME 3 \in 1 .. Len(wire) PROVE wire[3].is = "size"
  <2>1. wire[3].is \in {"size", "payload"}
    BY <1>1, <1>7 DEF Paired
  <2>2. ASSUME wire[3].is = "payload" PROVE FALSE
    <3>1. 3 \in 2 .. Len(wire)
      BY <1>1, <1>7
    <3>2. wire[3 - 1].is = "size"
      BY <1>1, <2>2, <3>1 DEF Paired
    <3>3. 3 - 1 = 2
      OBVIOUS
    <3> QED
      BY <1>3, <3>2, <3>3
  <2> QED
    BY <2>1, <2>2
<1> QED
  BY <1>1, <1>3, <1>4, <1>5, <1>6, <1>7

\* What a Read leaves: the invariant holds when the rest of the wire is under way, for a
\* reader that has handed out, or has in its buffer, the units up to e.
LEMMA ReadKeeps ==
  ASSUME ShadowIInv, keyed, NEW n \in Nat, NEW r, NEW e, Rest(r, n, e),
         UNCHANGED writerVars, cipher' = cipher, keyed' = keyed, wire' = r, nonceR' = nonceR + n,
         taken' \in Nat, left'[1] \in Nat, left'[2] \in Nat, left'[1] <= left'[2],
         left'[1] < left'[2] => taken' = left'[1], taken' + (left'[2] - left'[1]) = e,
         marks' \in Nat, marks' = 0 => StartsFresh(r, cipher), failed' = "unsealed" => marks' > 0
  PROVE  ShadowIInv'
<1>1. salted' = salted /\ nonceW' = nonceW /\ put' = put /\ stopped' = stopped
  BY DEF writerVars
<1>2. salted
  BY DEF ShadowIInv
<1>3. Expected' = e
  BY DEF Expected
<1>4. UnderWay(r)'
  BY <1>1, <1>2, <1>3 DEF UnderWay, Rest
<1>5. (\E q : UnderWay(q))'
  BY <1>4
<1>6. nonceR' \in Nat
  BY DEF ShadowIInv
<1> QED
  BY <1>1, <1>2, <1>5, <1>6 DEF ShadowIInv

LEMMA ReadChunkKeeps == ASSUME ShadowIInv, NEW large, ReadChunk(large) PROVE ShadowIInv'
<1>1. /\ Asking /\ cipher = "aead" /\ Len(wire) >= 2 /\ wire[1].is = "size" /\ wire[1].n > 0
      /\ nonceR' = nonceR + 2 /\ wire' = SubSeq(wire, 3, Len(wire)) /\ failed' = "none"
      /\ cipher' = cipher /\ keyed' = keyed /\ marks' = marks /\ UNCHANGED writerVars
  BY DEF ReadChunk
<1>2. keyed /\ left[1] = left[2] /\ taken \in Nat /\ marks \in Nat /\ left[1] \in Nat /\ left[2] \in Nat
  BY <1>1 DEF Asking, ShadowIInv
<1>3. wire \in Seq(Block) /\ Len(wire) \in Nat /\ wire # <<>>
  <2>1. UnderWay(wire)
    BY <1>2 DEF ShadowIInv, UnderWay
  <2>2. wire \in Seq(Block)
    BY <2>1 DEF UnderWay, IsRun
  <2> QED
    BY <1>1, <2>2, EmptySeq
<1>4. /\ wire[2].is = "payload" /\ wire[2].from = taken /\ wire[2] \in Block
      /\ 3 \in 1 .. Len(wire) => wire[3].is = "size"
  BY <1>1, <1>3, SecondBlock
<1>5. PICK r : r = SubSeq(wire, 3, Len(wire))
  OBVIOUS
<1>6. Dropped(r, wire, 2)
  <2>1. 2 + 1 = 3
    OBVIOUS
  <2> QED
    BY <1>1, <1>3, <1>5, <2>1, SubSeqDrops
<1>7. PICK m \in Nat : m = wire[2].n
  BY <1>4 DEF Block
<1>8. PICK e \in Nat : e = taken + m
  BY <1>2
<1>9. e = wire[2].from + Adds(wire[2])
  BY <1>4, <1>7, <1>8 DEF Adds
<1>10. Rest(r, 2, e)
  <2>1. 2 \in Nat /\ 2 >= 1 /\ 2 <= Len(wire)
    BY <1>1, <1>3
  <2> QED
    BY <1>2, <1>6, <1>9, <2>1, RestUnderWay
<1>11. StartsFresh(r, cipher)
  <2>1. r \in Seq(Block) /\ Len(r) = Len(wire) - 2 /\ \A i \in 1 .. Len(r) : r[i] = wire[i + 2]
    BY <1>6 DEF Dropped
  <2>2. ASSUME r # <<>> PROVE r[1].is = "size"
    <3>1. Len(r) \in Nat /\ Len(r) # 0
      BY <2>1, <2>2, EmptySeq
    <3>2. 1 \in 1 .. Len(r) /\ 1 + 2 = 3 /\ 3 \in 1 .. Len(wire)
      BY <1>3, <2>1, <3>1
    <3>3. r[1] = wire[3]
      BY <2>1, <3>2
    <3> QED
      BY <1>4, <3>2, <3>3
  <2> QED
    BY <2>2 DEF StartsFresh
<1>12. IF large THEN taken' = (IF taken = wire[2].from THEN wire[2].from + wire[2].n ELSE -1) /\ UNCHANGED left
                ELSE left' = <<wire[2].from, wire[2].from + wire[2].n>> /\ UNCHANGED taken
  BY DEF ReadChunk
<1>13. /\ taken' \in Nat /\ left'[1] \in Nat /\ left'[2] \in Nat /\ left'[1] <= left'[2]
       /\ left'[1] < left'[2] => taken' = left'[1]
       /\ taken' + (left'[2] - left'[1]) = e
  <2>1. CASE large
    <3>1. taken' = e /\ left' = left
      BY <1>4, <1>7, <1>8, <1>12, <2>1
    <3>2. left'[1] = left[1] /\ left'[2] = left[1]
      BY <1>2, <3>1
    <3> QED
      BY <1>2, <3>1, <3>2
  <2>2. CASE ~large
    <3>1. taken' = taken /\ left' = <<taken, e>>
      BY <1>4, <1>7, <1>8, <1>12, <2>2
    <3>2. left'[1] = taken /\ left'[2] = e
      BY <3>1
    <3> QED
      BY <1>2, <1>7, <1>8, <3>1, <3>2
  <2> QED
    BY <2>1, <2>2
<1>14. wire' = r /\ marks' \in Nat /\ (marks' = 0 => StartsFresh(r, cipher)) /\ (failed' = "unsealed" => marks' > 0)
  BY <1>1, <1>2, <1>5, <1>11
<1> QED
  BY <1>1, <1>2, <1>10, <1>13, <1>14, ReadKeeps

LEMMA ReadZeroKeeps == ASSUME ShadowIInv, ReadZero PROVE ShadowIInv'
<1>1. /\ Asking /\ cipher = "aead" /\ wire # <<>> /\ wire[1].is = "size"
      /\ nonceR' = nonceR + 1 /\ wire' = Tail(wire) /\ failed' = "zero"
      /\ marks' = marks + (IF Len(wire) > 1 /\ wire[2].is = "payload" THEN 1 ELSE 0)
      /\ cipher' = cipher /\ keyed' = keyed /\ left' = left /\ taken' = taken /\ UNCHANGED writerVars
  BY DEF ReadZero, Fails
<1>2. keyed /\ left[1] = left[2] /\ taken \in Nat /\ marks \in Nat /\ left[1] \in Nat /\ left[2] \in Nat
  BY <1>1 DEF Asking, ShadowIInv
<1>3. /\ wire \in Seq(Block) /\ Len(wire) \in Nat /\ Len(wire) >= 1 /\ wire[1].from = taken
      /\ IsRun(wire, cipher, nonceR, Expected)
  BY <1>1, FirstBlock
<1>4. PICK r : r = Tail(wire)
  OBVIOUS
<1>5. Dropped(r, wire, 1)
  BY <1>1, <1>3, <1>4, TailDrops
<1>6. taken = wire[1].from + Adds(wire[1])
  BY <1>1, <1>2, <1>3 DEF Adds
<1>7. Rest(r, 1, taken)
  <2>1. 1 \in Nat /\ 1 >= 1 /\ 1 <= Len(wire)
    BY <1>3
  <2> QED
    BY <1>2, <1>5, <1>6, <2>1, RestUnderWay
<1>8. marks' \in Nat /\ (marks' = 0 => ~(Len(wire) > 1 /\ wire[2].is = "payload"))
  BY <1>1, <1>2
<1>9. marks' = 0 => StartsFresh(r, cipher)
  <2>1. r \in Seq(Block) /\ Len(r) = Len(wire) - 1 /\ \A i \in 1 .. Len(r) : r[i] = wire[i + 1]
    BY <1>5 DEF Dropped
  <2>2. ASSUME r # <<>>, marks' = 0 PROVE r[1].is = "size"
    <3>1. Len(r) \in Nat /\ Len(r) # 0
      BY <2>1, <2>2, EmptySeq
    <3>2. 1 \in 1 .. Len(r) /\ 1 + 1 = 2 /\ 2 \in 1 .. Len(wire) /\ Len(wire) > 1
      BY <1>3, <2>1, <3>1
    <3>3. r[1] = wire[2]
      BY <2>1, <3>2
    <3>4. wire[2].is \in {"size", "payload"}
      BY <1>3, <3>2 DEF IsRun, Paired
    <3> QED
      BY <1>8, <2>2, <3>2, <3>3, <3>4
  <2> QED
    BY <2>2 DEF StartsFresh
<1>10. /\ taken' \in Nat /\ left'[1] \in Nat /\ left'[2] \in Nat /\ left'[1] <= left'[2]
       /\ left'[1] < left'[2] => taken' = left'[1]
       /\ taken' + (left'[2] - left'[1]) = taken
  <2>1. left'[1] = left[1] /\ left'[2] = left[1] /\ taken' = taken
    BY <1>1, <1>2
  <2> QED
    BY <1>2, <2>1
<1>11. wire' = r /\ (failed' = "unsealed" => marks' > 0)
  BY <1>1, <1>4
<1> QED
  BY <1>1, <1>2, <1>7, <1>8, <1>9, <1>10, <1>11, ReadKeeps

\* Nothing but an end mark keeps a block from opening.
LEMMA ReadUnsealedKeeps == ASSUME ShadowIInv, ReadUnsealed PROVE ShadowIInv'
<1>1. /\ Asking /\ cipher = "aead" /\ wire # <<>>
      /\ \/ wire[1].seal # nonceR \/ wire[1].is # "size"
         \/ wire[1].n > 0 /\ Len(wire) >= 2 /\ wire[2].seal # nonceR + 1
      /\ cipher' = cipher /\ keyed' = keyed /\ left' = left /\ taken' = taken
      /\ salted' = salted /\ nonceW' = nonceW /\ put' = put /\ stopped' = stopped
      /\ nonceR' = nonceR /\ wire' = wire /\ marks' = marks
  BY DEF ReadUnsealed, Fails, writerVars
<1>2. marks # 0
  <2> SUFFICES ASSUME marks = 0 PROVE FALSE
    OBVIOUS
  <2>1. wire[1].seal = nonceR /\ wire[1].is = "size"
    BY <1>1, FirstBlock
  <2>2. wire[1].n > 0 /\ Len(wire) >= 2 => wire[2].seal = nonceR + 1
    BY <1>1, <2>1, SecondBlock
  <2> QED
    BY <1>1, <2>1, <2>2
<1>3. marks > 0
  BY <1>2 DEF ShadowIInv
<1>4. PICK q : UnderWay(q)
  BY DEF ShadowIInv
<1>5. UnderWay(q)'
  BY <1>1, <1>4 DEF UnderWay, Expected
<1>6. (\E r : UnderWay(r))'
  BY <1>5
<1> QED
  BY <1>1, <1>3, <1>6 DEF ShadowIInv

\* In a key stream the places follow one another.
LEMMA StreamPlaces ==
  ASSUME NEW q, NEW k \in Nat, NEW f \in Nat, NEW s, s = "stream", IsRun(q, s, k, f)
  PROVE  \A i \in 1 .. Len(q) : q[i].seal = k + i - 1 /\ q[i].from = f + i - 1 /\ Adds(q[i]) = 1
<1>1. SealRun(q, k, f) /\ Paired(q, s) /\ Len(q) \in Nat
  BY DEF IsRun
<1>2. \A i \in 1 .. Len(q) : q[i].seal = k + i - 1 /\ Adds(q[i]) = 1
  BY <1>1 DEF SealRun, Paired, Adds
<1>3. ASSUME {i \in 1 .. Len(q) : q[i].from # f + i - 1} # {} PROVE FALSE
  <2>1. PICK T \in SUBSET Nat : T = {i \in 1 .. Len(q) : q[i].from # f + i - 1} /\ T # {}
    <3>1. \A i \in 1 .. Len(q) : i \in Nat
      BY <1>1
    <3>2. {i \in 1 .. Len(q) : q[i].from # f + i - 1} \in SUBSET Nat
      BY <3>1
    <3> QED
      BY <1>3, <3>2
  <2>2. PICK m \in T : \A j \in T : m <= j
    BY <2>1, LeastOne
  <2>3. m \in 1 .. Len(q) /\ q[m].from # f + m - 1
    BY <2>1, <2>2
  <2>4. q[m].from = IF m = 1 THEN f ELSE q[m - 1].from + Adds(q[m - 1])
    BY <1>1, <2>3 DEF SealRun
  <2>5. m # 1
    <3>1. f + 1 - 1 = f
      OBVIOUS
    <3> QED
      BY <2>3, <2>4, <3>1
  <2>6. m - 1 \in 1 .. Len(q) /\ ~(m <= m - 1)
    BY <2>3, <2>5
  <2>7. m - 1 \notin T
    BY <2>2, <2>6
  <2>8. q[m - 1].from = f + (m - 1) - 1
    BY <2>1, <2>6, <2>7
  <2>9. Adds(q[m - 1]) = 1
    BY <1>2, <2>6
  <2>10. f + (m - 1) - 1 + 1 = f + m - 1
    BY <2>3
  <2> QED
    BY <2>3, <2>4, <2>5, <2>8, <2>9, <2>10
<1>4. \A i \in 1 .. Len(q) : q[i].from = f + i - 1
  BY <1>3
<1> QED
  BY <1>2, <1>4

LEMMA ReadStreamKeeps == ASSUME ShadowIInv, NEW n \in Nat, ReadStream(n) PROVE ShadowIInv'
<1>1. /\ Asking /\ cipher = "stream" /\ n > 0 /\ n <= Len(wire)
      /\ nonceR' = nonceR + n /\ wire' = SubSeq(wire, n + 1, Len(wire)) /\ failed' = "none"
      /\ cipher' = cipher /\ keyed' = keyed /\ left' = left /\ marks' = marks /\ UNCHANGED writerVars
  BY DEF ReadStream
<1>2. keyed /\ left[1] = left[2] /\ taken \in Nat /\ nonceR \in Nat /\ marks \in Nat /\ left[1] \in Nat /\ left[2] \in Nat
  BY <1>1 DEF Asking, ShadowIInv
<1>3. wire \in Seq(Block) /\ Len(wire) \in Nat /\ IsRun(wire, cipher, nonceR, Expected) /\ Expected = taken
  <2>1. UnderWay(wire)
    BY <1>2 DEF ShadowIInv, UnderWay
  <2> QED
    BY <1>2, <2>1 DEF UnderWay, IsRun, Expected
<1>4. \A i \in 1 .. Len(wire) : wire[i].seal = nonceR + i - 1 /\ wire[i].from = taken + i - 1 /\ Adds(wire[i]) = 1
  <2>1. IsRun(wire, cipher, nonceR, taken)
    BY <1>3
  <2> QED
    BY <1>1, <1>2, <2>1, StreamPlaces
<1>5. taken' = taken + n
  <2>1. \A i \in 1 .. n : wire[i].seal = nonceR + i - 1 /\ wire[i].from = taken + i - 1
    <3>1. \A i \in 1 .. n : i \in 1 .. Len(wire)
      BY <1>1, <1>3
    <3> QED
      BY <1>4, <3>1
  <2>2. taken' = IF \A i \in 1 .. n : wire[i].seal = nonceR + i - 1 /\ wire[i].from = taken + i - 1 THEN taken + n ELSE -1
    BY DEF ReadStream
  <2> QED
    BY <2>1, <2>2
<1>6. PICK r : r = SubSeq(wire, n + 1, Len(wire))
  OBVIOUS
<1>7. Dropped(r, wire, n)
  BY <1>1, <1>3, <1>6, SubSeqDrops
<1>8. PICK e \in Nat : e = taken + n
  BY <1>2
<1>9. e = wire[n].from + Adds(wire[n])
  <2>1. n \in 1 .. Len(wire)
    BY <1>1, <1>3
  <2>2. wire[n].from = taken + n - 1 /\ Adds(wire[n]) = 1
    BY <1>4, <2>1
  <2> QED
    BY <1>2, <1>8, <2>2
<1>10. Rest(r, n, e)
  <2>1. n >= 1
    BY <1>1
  <2> QED
    BY <1>1, <1>2, <1>7, <1>9, <2>1, RestUnderWay
<1>11. /\ taken' \in Nat /\ left'[1] \in Nat /\ left'[2] \in Nat /\ left'[1] <= left'[2]
       /\ left'[1] < left'[2] => taken' = left'[1]
       /\ taken' + (left'[2] - left'[1]) = e
  <2>1. left'[1] = left[1] /\ left'[2] = left[1] /\ taken' = e
    BY <1>1, <1>2, <1>5, <1>8
  <2> QED
    BY <1>2, <2>1
<1>12. wire' = r /\ marks' \in Nat /\ (marks' = 0 => StartsFresh(r, cipher)) /\ (failed' = "unsealed" => marks' > 0)
  BY <1>1, <1>2, <1>6 DEF StartsFresh
<1> QED
  BY <1>1, <1>2, <1>10, <1>11, <1>12, ReadKeeps

LEMMA ReadLeftKeeps == ASSUME ShadowIInv, NEW n \in Nat, ReadLeft(n) PROVE ShadowIInv'
<1>1. /\ left[1] < left[2] /\ n >= 1 /\ n <= left[2] - left[1]
      /\ taken' = (IF taken = left[1] THEN taken + n ELSE -1) /\ left' = <<left[1] + n, left[2]>>
      /\ cipher' = cipher /\ keyed' = keyed /\ nonceR' = nonceR /\ wire' = wire /\ failed' = failed /\ marks' = marks
      /\ salted' = salted /\ nonceW' = nonceW /\ put' = put /\ stopped' = stopped
  BY DEF ReadLeft, writerVars, ShadowIInv
<1>2. taken = left[1] /\ left[1] \in Nat /\ left[2] \in Nat
  BY <1>1 DEF ShadowIInv
<1>3. left'[1] = left[1] + n /\ left'[2] = left[2] /\ taken' = left[1] + n
  BY <1>1, <1>2
<1>4. Expected' = Expected
  BY <1>2, <1>3 DEF Expected
<1>5. PICK q : UnderWay(q)
  BY DEF ShadowIInv
<1>6. UnderWay(q)'
  BY <1>1, <1>4, <1>5 DEF UnderWay
<1>7. (\E r : UnderWay(r))'
  BY <1>6
<1>8. taken' \in Nat /\ left'[1] \in Nat /\ left'[2] \in Nat /\ left'[1] <= left'[2] /\ (left'[1] < left'[2] => taken' = left'[1])
  BY <1>1, <1>2, <1>3
<1> QED
  BY <1>1, <1>7, <1>8 DEF ShadowIInv

\* Steps of the reader that take nothing, and no steps.
LEMMA StillsKeep ==
  ASSUME ShadowIInv, WriteToBegins \/ ReadEnds \/ UNCHANGED shadowVars
  PROVE  ShadowIInv'
<1>1. /\ cipher' = cipher /\ keyed' = keyed /\ nonceR' = nonceR /\ wire' = wire /\ left' = left /\ taken' = taken /\ marks' = marks
      /\ salted' = salted /\ nonceW' = nonceW /\ put' = put /\ stopped' = stopped
      /\ failed' = failed \/ failed' = "eof"
  BY DEF WriteToBegins, ReadEnds, Fails, shadowVars, writerVars
<1>2. PICK q : UnderWay(q)
  BY DEF ShadowIInv
<1>3. UnderWay(q)'
  BY <1>1, <1>2 DEF UnderWay, Expected
<1>4. (\E r : UnderWay(r))'
  BY <1>3
<1>5. failed' = "unsealed" => marks' > 0
  BY <1>1 DEF ShadowIInv
<1> QED
  BY <1>1, <1>4, <1>5 DEF ShadowIInv

LEMMA ShadowNextIInv == ShadowIInv /\ [ShadowNext]_shadowVars => ShadowIInv'
<1> SUFFICES ASSUME ShadowIInv, [ShadowNext]_shadowVars PROVE ShadowIInv'
  OBVIOUS
<1>1. \A n \in 0 .. MaxUnits : n \in Nat
  BY ShadowAssumption
<1>2. \A n \in 1 .. MaxUnits : n \in Nat
  BY ShadowAssumption
<1>3. ASSUME NEW n \in 0 .. MaxUnits, Write(n) PROVE ShadowIInv'
  BY <1>1, <1>3, WriteKeeps
<1>4. ASSUME NEW n \in 0 .. MaxUnits, NEW eof \in BOOLEAN, ReadFromChunk(n, eof) PROVE ShadowIInv'
  BY <1>1, <1>4, ReadFromKeeps
<1>5. ASSUME NEW large \in BOOLEAN, ReadChunk(large) PROVE ShadowIInv'
  BY <1>5, ReadChunkKeeps
<1>6. ASSUME NEW n \in 1 .. MaxUnits, ReadStream(n) PROVE ShadowIInv'
  BY <1>2, <1>6, ReadStreamKeeps
<1>7. ASSUME NEW n \in 1 .. MaxUnits, ReadLeft(n) PROVE ShadowIInv'
  BY <1>2, <1>7, ReadLeftKeeps
<1>8. CASE Break
  BY <1>8, BreakKeeps
<1>9. CASE InitReader
  BY <1>9, InitReaderKeeps
<1>10. CASE ReadZero
  BY <1>10, ReadZeroKeeps
<1>11. CASE ReadUnsealed
  BY <1>11, ReadUnsealedKeeps
<1>12. CASE WriteToBegins \/ ReadEnds \/ UNCHANGED shadowVars
  BY <1>12, StillsKeep
<1> QED
  BY <1>3, <1>4, <1>5, <1>6, <1>7, <1>8, <1>9, <1>10, <1>11, <1>12 DEF ShadowNext

\* Both ends of a shadowsocks connection count alike: what is read is what was written, in
\* order, and every block opens, except behind the end mark of a ReadFrom.
THEOREM SealsOpen == ShadowSpec => []SealsOpenInOrder
<1>1. ShadowInit({"aead", "stream"}) => ShadowIInv
  BY ShadowInitIInv
<1>2. ShadowIInv /\ [ShadowNext]_shadowVars => ShadowIInv'
  BY ShadowNextIInv
<1> QED
  BY <1>1, <1>2, ShadowIInvSeals, PTL DEF ShadowSpec

-----------------------------------------------------------------------------
(* The disguises of ssr/obfs.                                              *)

\* The numbers after a, up to b.
Spans(q, a, b) == Len(q) = b - a /\ \A i \in 1 .. Len(q) : q[i] = a + i

\* The server has got the data up to n.
Told(q, n) == q \in Seq(Int) /\ n \in Nat /\ InOrder(q, n)

Says(q, x) == \E i \in 1 .. Len(q) : q[i] = x

LEMMA JoinLists ==
  ASSUME NEW p \in Seq(Int), NEW q \in Seq(Int), NEW r, r = p \o q
  PROVE  /\ r \in Seq(Int) /\ Len(r) = Len(p) + Len(q) /\ Len(p) \in Nat /\ Len(q) \in Nat
         /\ \A i \in 1 .. Len(p) : r[i] = p[i]
         /\ \A j \in 1 .. Len(q) : r[Len(p) + j] = q[j]
         /\ \A i \in 1 .. Len(r) : i \in 1 .. Len(p) \/ (i - Len(p) \in 1 .. Len(q) /\ i > Len(p) /\ r[i] = q[i - Len(p)])
<1>1. r \in Seq(Int) /\ Len(r) = Len(p) + Len(q) /\ Len(p) \in Nat /\ Len(q) \in Nat
  OBVIOUS
<1>2. \A i \in 1 .. Len(p) : r[i] = p[i]
  OBVIOUS
<1>3. \A j \in 1 .. Len(q) : r[Len(p) + j] = q[j]
  OBVIOUS
<1>4. ASSUME NEW i \in 1 .. Len(r), i \notin 1 .. Len(p)
      PROVE  i - Len(p) \in 1 .. Len(q) /\ i > Len(p) /\ r[i] = q[i - Len(p)]
  <2>1. PICK m \in Nat, n \in Nat : m = Len(p) /\ n = Len(q)
    BY <1>1
  <2>2. i \in 1 .. m + n /\ i \notin 1 .. m
    BY <1>1, <1>4, <2>1
  <2>3. i - m \in 1 .. n /\ i > m /\ m + (i - m) = i
    BY <2>2
  <2> QED
    BY <1>3, <2>1, <2>3
<1> QED
  BY <1>1, <1>2, <1>3, <1>4

LEMMA SpansJoin ==
  ASSUME NEW a \in Nat, NEW b \in Nat, NEW c \in Nat, NEW p \in Seq(Int), NEW q \in Seq(Int),
         Spans(p, a, b), Spans(q, b, c), NEW r, r = p \o q
  PROVE  Spans(r, a, c)
<1>1. Len(p) = b - a /\ Len(q) = c - b /\ Len(p) \in Nat /\ Len(q) \in Nat /\ Len(r) = Len(p) + Len(q)
  BY JoinLists DEF Spans
<1>2. ASSUME NEW i \in 1 .. Len(r) PROVE r[i] = a + i
  <2>1. CASE i \in 1 .. Len(p)
    BY <2>1, JoinLists DEF Spans
  <2>2. CASE i \notin 1 .. Len(p)
    <3>1. i - Len(p) \in 1 .. Len(q) /\ r[i] = q[i - Len(p)]
      BY <2>2, JoinLists
    <3>2. r[i] = b + (i - Len(p))
      BY <3>1 DEF Spans
    <3>3. b + (i - (b - a)) = a + i
      BY <1>1
    <3> QED
      BY <1>1, <3>2, <3>3
  <2> QED
    BY <2>1, <2>2
<1>3. Len(r) = c - a
  BY <1>1
<1> QED
  BY <1>2, <1>3 DEF Spans

LEMMA SpansNone ==
  ASSUME NEW a \in Nat PROVE Spans(<<>>, a, a)
<1>1. Len(<<>>) = 0 /\ a - a = 0
  OBVIOUS
<1> QED
  BY <1>1 DEF Spans

LEMMA SpansEmpty ==
  ASSUME NEW a \in Nat, NEW b \in Nat, Spans(<<>>, a, b) PROVE a = b
<1>1. Len(<<>>) = b - a /\ Len(<<>>) = 0
  BY DEF Spans
<1> QED
  BY <1>1

LEMMA SpansNext ==
  ASSUME NEW a \in Nat, NEW b, b = a + 1 PROVE Spans(<<b>>, a, b)
<1>1. Len(<<b>>) = 1 /\ b - a = 1 /\ <<b>>[1] = a + 1
  OBVIOUS
<1> QED
  BY <1>1 DEF Spans

\* A run falls into two.
LEMMA SpansSplit ==
  ASSUME NEW a \in Nat, NEW c \in Nat, NEW q \in Seq(Int), Spans(q, a, c), NEW k \in Nat, k <= Len(q)
  PROVE  /\ a + k \in Nat /\ SubSeq(q, 1, k) \in Seq(Int) /\ SubSeq(q, k + 1, Len(q)) \in Seq(Int)
         /\ Spans(SubSeq(q, 1, k), a, a + k) /\ Spans(SubSeq(q, k + 1, Len(q)), a + k, c)
<1>1. PICK l \in Nat : l = Len(q) /\ l = c - a
  BY DEF Spans
<1>a. PICK p : p = SubSeq(q, 1, k)
  OBVIOUS
<1>2. PICK r : r = SubSeq(q, k + 1, Len(q))
  OBVIOUS
<1>3. p \in Seq(Int) /\ Len(p) = k /\ \A i \in 1 .. k : p[i] = q[i]
  <2>1. k \in Int /\ 1 \in Int /\ \A i \in 1 .. k : q[i] \in Int
    <3>1. \A i \in 1 .. k : i \in 1 .. Len(q)
      BY <1>1
    <3> QED
      BY <3>1, ElementOfSeq
  <2>2. p \in Seq(Int) /\ Len(p) = IF 1 <= k THEN k - 1 + 1 ELSE 0
    BY <1>a, <1>1, <2>1, SubSeqProperties
  <2>3. \A i \in 1 .. k - 1 + 1 : p[i] = q[1 + i - 1]
    BY <1>a, <1>1, <2>1, SubSeqProperties
  <2>4. k - 1 + 1 = k /\ \A i \in 1 .. k : 1 + i - 1 = i
    OBVIOUS
  <2> QED
    BY <2>2, <2>3, <2>4
<1>4. r \in Seq(Int) /\ Len(r) = l - k /\ \A i \in 1 .. l - k : r[i] = q[k + i]
  <2>1. PICK j \in Int : j = k + 1
    OBVIOUS
  <2>2. l \in Int /\ \A i \in j .. l : q[i] \in Int
    <3>1. \A i \in j .. l : i \in 1 .. Len(q)
      BY <1>1, <2>1
    <3> QED
      BY <3>1, ElementOfSeq
  <2>3. r = SubSeq(q, j, l)
    BY <1>1, <1>2, <2>1
  <2>4. r \in Seq(Int) /\ Len(r) = (IF j <= l THEN l - j + 1 ELSE 0) /\ \A i \in 1 .. l - j + 1 : r[i] = q[j + i - 1]
    BY <2>2, <2>3, SubSeqProperties
  <2>5. l - j + 1 = l - k /\ \A i \in 1 .. l - k : j + i - 1 = k + i
    BY <1>1, <2>1
  <2>6. Len(r) = l - k
    BY <1>1, <2>1, <2>4
  <2> QED
    BY <2>4, <2>5, <2>6
<1>5. Spans(p, a, a + k)
  <2>1. \A i \in 1 .. k : i \in 1 .. Len(q)
    BY <1>1
  <2>2. \A i \in 1 .. k : p[i] = a + i
    BY <1>3, <2>1 DEF Spans
  <2>3. k = (a + k) - a
    OBVIOUS
  <2> QED
    BY <1>3, <2>2, <2>3 DEF Spans
<1>6. Spans(r, a + k, c)
  <2>1. \A i \in 1 .. l - k : k + i \in 1 .. l /\ a + (k + i) = (a + k) + i
    OBVIOUS
  <2>2. \A i \in 1 .. l - k : r[i] = (a + k) + i
    BY <1>1, <1>4, <2>1 DEF Spans
  <2>3. l - k = c - (a + k)
    BY <1>1
  <2> QED
    BY <1>4, <2>2, <2>3 DEF Spans
<1> QED
  BY <1>a, <1>2, <1>3, <1>4, <1>5, <1>6

\* More data goes out.
LEMMA ToldMore ==
  ASSUME NEW q, NEW a, NEW b \in Nat, NEW x \in Seq(Int), Told(q, a), Spans(x, a, b), NEW r, r = q \o x
  PROVE  Told(r, b)
<1>1. q \in Seq(Int) /\ a \in Nat /\ InOrder(q, a)
  BY DEF Told
<1>2. PICK m \in Nat, n \in Nat : m = Len(q) /\ n = Len(x) /\ n = b - a /\ Len(r) = m + n
  BY <1>1, JoinLists DEF Spans
<1>3. r \in Seq(Int) /\ \A i \in 1 .. m : r[i] = q[i] /\ q[i] <= a /\ q[i] \in Int
  <2>1. \A i \in 1 .. Len(q) : r[i] = q[i]
    BY <1>1, JoinLists
  <2>2. \A i \in 1 .. Len(q) : q[i] \in Int
    BY <1>1, ElementOfSeq
  <2>3. r \in Seq(Int)
    BY <1>1, JoinLists
  <2> QED
    BY <1>1, <1>2, <2>1, <2>2, <2>3 DEF InOrder
<1>4. \A j \in 1 .. n : r[m + j] = a + j
  BY <1>1, <1>2, JoinLists DEF Spans
<1>5. \A i \in 1 .. m + n : i \in 1 .. m \/ (i > m /\ i - m \in 1 .. n /\ r[i] = a + (i - m))
  <2> TAKE i \in 1 .. m + n
  <2>1. i \in 1 .. m \/ (i > m /\ i - m \in 1 .. n /\ m + (i - m) = i)
    BY <1>2
  <2> QED
    BY <1>4, <2>1
<1>6. ASSUME NEW i \in 1 .. Len(r) PROVE r[i] <= b
  BY <1>1, <1>2, <1>3, <1>5
<1>7. ASSUME NEW t \in 1 .. b PROVE \E i \in 1 .. Len(r) : r[i] = t
  <2>1. CASE t <= a
    <3>a. t \in 1 .. a
      BY <1>1, <2>1
    <3>1. PICK i \in 1 .. Len(q) : q[i] = t
      BY <1>1, <3>a DEF InOrder
    <3>2. i \in 1 .. m /\ i \in 1 .. Len(r)
      BY <1>2, <3>1
    <3> QED
      BY <1>3, <3>1, <3>2
  <2>2. CASE t > a
    <3>1. t - a \in 1 .. n /\ m + (t - a) \in 1 .. Len(r) /\ a + (t - a) = t
      BY <1>1, <1>2, <2>2
    <3> QED
      BY <1>4, <3>1
  <2> QED
    BY <1>1, <2>1, <2>2
<1>8. ASSUME NEW j \in 1 .. Len(r), r[j] > 0, NEW i \in 1 .. j - 1 PROVE r[i] < r[j]
  <2>1. i \in 1 .. m + n /\ j \in 1 .. m + n /\ i < j
    BY <1>2
  <2>2. CASE j \in 1 .. m
    <3>1. i \in 1 .. m
      BY <2>1, <2>2
    <3> QED
      BY <1>1, <1>2, <1>3, <1>8, <2>2, <3>1 DEF InOrder
  <2>3. CASE j > m
    <3>1. r[j] = a + (j - m) /\ j - m \in 1 .. n
      BY <1>5, <2>1, <2>3
    <3>2. CASE i \in 1 .. m
      BY <1>1, <1>3, <3>1, <3>2
    <3>3. CASE i > m
      <4>1. r[i] = a + (i - m)
        BY <1>5, <2>1, <3>3
      <4> QED
        BY <1>1, <2>1, <3>1, <4>1
    <3> QED
      BY <2>1, <3>2, <3>3
  <2> QED
    BY <2>1, <2>2, <2>3
<1> QED
  BY <1>3, <1>6, <1>7, <1>8 DEF Told, InOrder

\* A head is no data.
LEMMA ToldHead ==
  ASSUME NEW q, NEW a, Told(q, a), NEW e \in Int, e < 0, NEW r, r = q \o <<e>>
  PROVE  Told(r, a)
<1>1. q \in Seq(Int) /\ a \in Nat /\ InOrder(q, a)
  BY DEF Told
<1>2. PICK m \in Nat : m = Len(q)
  BY <1>1
<1>3. r \in Seq(Int) /\ Len(r) = m + 1 /\ r[m + 1] = e /\ \A i \in 1 .. m : r[i] = q[i]
  BY <1>1, <1>2
<1>4. \A i \in 1 .. m + 1 : i \in 1 .. m \/ i = m + 1
  OBVIOUS
<1>5. \A i \in 1 .. Len(r) : r[i] <= a
  BY <1>1, <1>2, <1>3, <1>4 DEF InOrder
<1>6. \A t \in 1 .. a : \E i \in 1 .. Len(r) : r[i] = t
  <2> TAKE t \in 1 .. a
  <2>1. PICK i \in 1 .. Len(q) : q[i] = t
    BY <1>1 DEF InOrder
  <2>2. i \in 1 .. Len(r) /\ r[i] = t
    BY <1>2, <1>3, <2>1
  <2> QED
    BY <2>2
<1>7. \A j \in 1 .. Len(r) : r[j] > 0 => \A i \in 1 .. j - 1 : r[i] < r[j]
  <2> SUFFICES ASSUME NEW j \in 1 .. Len(r), r[j] > 0, NEW i \in 1 .. j - 1 PROVE r[i] < r[j]
    OBVIOUS
  <2>1. j \in 1 .. m
    BY <1>3, <1>4
  <2>2. i \in 1 .. m
    BY <1>2, <2>1
  <2> QED
    BY <1>1, <1>2, <1>3, <2>1, <2>2 DEF InOrder
<1> QED
  BY <1>1, <1>3, <1>5, <1>6, <1>7 DEF Told, InOrder

LEMMA SaysEither ==
  ASSUME NEW p \in Seq(Int), NEW q \in Seq(Int), NEW x, Says(p \o q, x)
  PROVE  Says(p, x) \/ Says(q, x)
<1>1. PICK r : r = p \o q
  OBVIOUS
<1>2. PICK i \in 1 .. Len(r) : r[i] = x
  BY <1>1 DEF Says
<1>3. i \in 1 .. Len(p) \/ (i - Len(p) \in 1 .. Len(q) /\ r[i] = q[i - Len(p)])
  BY <1>1, JoinLists
<1>4. i \in 1 .. Len(p) => r[i] = p[i]
  BY <1>1, JoinLists
<1> QED
  BY <1>2, <1>3, <1>4 DEF Says

Units == Nat \ {0}
Places == {"idle", "send", "first", "park", "after", "clear", "finish", "enter"}
AtW == opc["writer"]
AtR == opc["reader"]

WhoType ==
  /\ obfs \in {"tls12", "random_head", "http"} /\ status \in {0, 1, 8}
  /\ opc \in [Sides -> Places] /\ oarg \in [Sides -> Seq(Units)] /\ oarg["reader"] = <<>>
  /\ tokens \in Nat /\ (AtW # "idle" => oarg["writer"] = <<tokens>> /\ tokens > 0)
SentType == parked \in Seq(Units) /\ held \in Seq(Units) /\ sent \in Seq(Int)
BackType ==
  /\ arriving \in Seq(Int) /\ got \in Seq(Int) /\ rest \in Seq(Int) /\ half \in Seq(Int)
  /\ pieces \in Nat /\ (pieces = 0 => arriving = <<>>)
ObfsType == WhoType /\ SentType /\ BackType

\* Where the two can be, and what has been done by then, for each disguise.
ShapeTls ==
  obfs = "tls12" =>
    /\ AtW \in {"idle", "send", "park", "after"} /\ AtR \in {"idle", "park", "after", "finish"}
    /\ AtW = "send" => status = 8
    /\ AtR = "finish" => status = 8
    /\ AtR \in {"park", "after"} => status # 0
    /\ pieces >= 1 => status # 0
    /\ Says(sent, Hello) => status # 0
    /\ Says(sent, Finish) => status = 8
    /\ pieces >= 2 => status = 8
    /\ pieces = 0 => AtR = "idle"
ShapeRandom ==
  obfs = "random_head" =>
    /\ AtW \in {"idle", "send", "park", "after", "clear"} /\ AtR \in {"idle", "enter", "send", "park", "after", "clear"}
    /\ AtW = "send" \/ AtR = "send" => rawSent
    /\ AtW = "clear" \/ AtR = "clear" => recvHead
    /\ rawSent => recvHead
    /\ \A t \in Units : Says(sent, t) => recvHead
    /\ pieces >= 2 => recvHead
ShapeHttp ==
  obfs = "http" => AtW \in {"idle", "first", "send"} /\ AtR = "idle" /\ parked = <<>> /\ held = <<>>
ObfsShape == ShapeTls /\ ShapeRandom /\ ShapeHttp

\* What is written goes to the server, is held, is parked, or is an argument still.
StillParked == IF AtW = "clear" \/ AtR = "clear" THEN <<>> ELSE parked
Pending == IF AtW \in {"send", "first", "park"} THEN oarg["writer"] ELSE <<>>
Waiting(a, b, c) == Told(sent, a) /\ Spans(held, a, b) /\ Spans(StillParked, b, c) /\ Spans(Pending, c, tokens)
Waits == \E a \in Nat, b \in Nat, c \in Nat : Waiting(a, b, c)
ToldSome == \E n \in Nat : n <= tokens /\ Told(sent, n)
ObfsWrite ==
  ~raced =>
    /\ AtW # "idle" => AtR \in {"idle", "enter"}
    /\ held # <<>> => AtR = "finish"
    /\ obfs = "tls12" /\ status = 8 => parked = <<>> /\ AtW \in {"idle", "send"}
    /\ obfs = "random_head" /\ rawSent => parked = <<>> /\ AtW \in {"idle", "send"}
    /\ ~cut => Waits
    /\ ToldSome

\* What comes back: the server's head until it is taken, and then the data from where the
\* reader's end.
HeadTaken == IF obfs = "tls12" THEN status = 8 \/ AtR # "idle" ELSE recvHead
Coming(h, q, a, b, c) ==
  /\ h \in {<<>>, <<Head1, Head2>>} /\ q \in Seq(Int) /\ arriving = h \o q
  /\ Spans(got, 0, a) /\ Spans(rest, a, b) /\ Spans(half, b, c) /\ Spans(q, c, IF pieces = 0 THEN 0 ELSE pieces - 1)
  /\ h = <<>> => pieces = 0 \/ HeadTaken
  /\ h # <<>> => pieces >= 1 /\ ~HeadTaken
Comes == \E h, q : \E a \in Nat, b \in Nat, c \in Nat : Coming(h, q, a, b, c)
ObfsRead == ~split => ~fault /\ (obfs # "tls12" => half = <<>>) /\ Comes

\* The inductive invariant.
ObfsIInv == ObfsType /\ ObfsShape /\ ObfsWrite /\ ObfsRead

LEMMA PositiveLists ==
  ASSUME NEW q \in Seq(Units)
  PROVE  q \in Seq(Int) /\ \A i \in 1 .. Len(q) : q[i] \in Units
<1>1. Units \subseteq Int
  BY DEF Units
<1>2. q \in Seq(Int)
  BY <1>1, MoreThings
<1> QED
  BY <1>2, ElementOfSeq

\* What is under way ends where the Writes do.
LEMMA WaitingTold ==
  ASSUME ObfsType, NEW a \in Nat, NEW b \in Nat, NEW c \in Nat, Waiting(a, b, c)
  PROVE  a <= b /\ b <= c /\ c <= tokens
<1>1. StillParked \in Seq(Units) /\ Pending \in Seq(Units) /\ held \in Seq(Units)
  BY DEF StillParked, Pending, ObfsType, WhoType, SentType, Sides
<1>2. Len(held) \in Nat /\ Len(StillParked) \in Nat /\ Len(Pending) \in Nat
  BY <1>1
<1> QED
  BY <1>2 DEF Waiting, Spans, ObfsType, WhoType

LEMMA ObfsInitIInv == ObfsInit({"tls12", "random_head", "http"}) => ObfsIInv
<1> SUFFICES ASSUME ObfsInit({"tls12", "random_head", "http"}) PROVE ObfsIInv
  OBVIOUS
<1>1. AtW = "idle" /\ AtR = "idle" /\ oarg["reader"] = <<>> /\ oarg["writer"] = <<>>
  BY DEF ObfsInit, AtW, AtR, Sides
<1>2. ObfsType
  <2>1. opc \in [Sides -> Places] /\ oarg \in [Sides -> Seq(Units)]
    BY DEF ObfsInit, Places
  <2>2. \A S : <<>> \in Seq(S)
    OBVIOUS
  <2>3. SentType
    BY <2>2 DEF ObfsInit, SentType
  <2>4. BackType
    BY <2>2 DEF ObfsInit, BackType
  <2>5. WhoType
    BY <1>1, <2>1 DEF ObfsInit, WhoType
  <2> QED
    BY <2>3, <2>4, <2>5 DEF ObfsType
<1>3. \A x : ~Says(sent, x)
  BY DEF Says, ObfsInit
<1>4. ObfsShape
  BY <1>1, <1>3 DEF ObfsShape, ShapeTls, ShapeRandom, ShapeHttp, ObfsInit
<1>5. Told(sent, 0)
  BY DEF Told, InOrder, ObfsInit
<1>6. Waiting(0, 0, 0)
  BY <1>1, <1>5, SpansNone DEF Waiting, StillParked, Pending, ObfsInit
<1>7. ObfsWrite
  <2>1. Waits /\ ToldSome
    BY <1>5, <1>6 DEF Waits, ToldSome, ObfsInit
  <2> QED
    BY <1>1, <2>1 DEF ObfsWrite, ObfsInit
<1>8. ObfsRead
  <2>1. <<>> \o <<>> = <<>> /\ <<>> \in Seq(Int)
    OBVIOUS
  <2>2. Coming(<<>>, <<>>, 0, 0, 0)
    BY <2>1, SpansNone DEF Coming, ObfsInit
  <2> QED
    BY <2>2 DEF ObfsRead, Comes, ObfsInit
<1> QED
  BY <1>2, <1>4, <1>7, <1>8 DEF ObfsIInv

\* It says what the property says.
LEMMA ObfsIInvInOrder == ObfsIInv => ObfsInOrder
<1> SUFFICES ASSUME ObfsIInv PROVE ObfsInOrder
  OBVIOUS
<1>0. ObfsType /\ ObfsShape /\ ObfsWrite /\ ObfsRead
  BY DEF ObfsIInv
<1>1. ASSUME ~raced, ~cut, opc = [s \in Sides |-> "idle"]
      PROVE  InOrder(sent \o parked, tokens) /\ (Through => parked = <<>>)
  <2>1. AtW = "idle" /\ AtR = "idle"
    BY <1>1 DEF AtW, AtR, Sides
  <2>2. held = <<>> /\ StillParked = parked /\ Pending = <<>> /\ Waits
    BY <1>0, <1>1, <2>1 DEF ObfsWrite, StillParked, Pending
  <2>3. PICK a \in Nat, b \in Nat, c \in Nat : Waiting(a, b, c)
    BY <2>2 DEF Waits
  <2>4. a = b /\ c = tokens /\ Told(sent, a) /\ Spans(parked, b, c)
    BY <1>0, <2>2, <2>3, SpansEmpty DEF Waiting, ObfsType, WhoType
  <2>5. InOrder(sent \o parked, tokens)
    <3>1. parked \in Seq(Int)
      BY <1>0, PositiveLists DEF ObfsType, SentType
    <3>2. Told(sent \o parked, c)
      BY <2>4, <3>1, ToldMore
    <3> QED
      BY <2>4, <3>2 DEF Told
  <2>6. ASSUME Through PROVE parked = <<>>
    <3>1. CASE obfs = "tls12"
      <4>1. status = 8
        BY <2>6, <3>1 DEF Through
      <4> QED
        BY <1>0, <1>1, <3>1, <4>1 DEF ObfsWrite
    <3>2. CASE obfs = "random_head"
      <4>1. rawSent
        BY <2>6, <3>2 DEF Through
      <4> QED
        BY <1>0, <1>1, <3>2, <4>1 DEF ObfsWrite
    <3>3. CASE obfs = "http"
      BY <1>0, <3>3 DEF ObfsShape, ShapeHttp
    <3> QED
      BY <1>0, <3>1, <3>2, <3>3 DEF ObfsType, WhoType
  <2> QED
    BY <2>5, <2>6
<1>2. ASSUME ~raced PROVE \E n \in 0 .. tokens : InOrder(sent, n)
  <2>1. PICK n \in Nat : n <= tokens /\ Told(sent, n)
    BY <1>0, <1>2 DEF ObfsWrite, ToldSome
  <2> QED
    BY <1>0, <2>1 DEF Told, ObfsType, WhoType
<1>3. ASSUME ~split
      PROVE  /\ ~fault
             /\ Counted(got \o rest \o half \o SubSeq(arriving, HeadLength + 1, Len(arriving)),
                        IF pieces = 0 THEN 0 ELSE pieces - 1)
  <2>1. ~fault /\ Comes
    BY <1>0, <1>3 DEF ObfsRead
  <2>a. PICK h, q : \E a \in Nat, b \in Nat, c \in Nat : Coming(h, q, a, b, c)
    BY <2>1 DEF Comes
  <2>2. PICK a \in Nat, b \in Nat, c \in Nat : Coming(h, q, a, b, c)
    BY <2>a
  <2>3. PICK n \in Nat : n = IF pieces = 0 THEN 0 ELSE pieces - 1
    BY <1>0 DEF ObfsType, BackType
  <2>4. /\ Spans(got, 0, a) /\ Spans(rest, a, b) /\ Spans(half, b, c) /\ Spans(q, c, n) /\ q \in Seq(Int)
        /\ got \in Seq(Int) /\ rest \in Seq(Int) /\ half \in Seq(Int)
    BY <1>0, <2>2, <2>3 DEF Coming, ObfsType, BackType
  <2>5. SubSeq(arriving, HeadLength + 1, Len(arriving)) = q
    <3>1. CASE h = <<>>
      <4>1. arriving = q
        BY <2>2, <2>4, <3>1 DEF Coming
      <4>2. HeadLength = 0
        <5>1. ASSUME q # <<>> PROVE q[1] # Head1
          <6>1. 1 \in 1 .. Len(q)
            BY <2>4, <5>1, EmptySeq
          <6>2. q[1] = c + 1
            BY <2>4, <6>1 DEF Spans
          <6> QED
            BY <6>2 DEF Head1
        <5> QED
          BY <4>1, <5>1 DEF HeadLength
      <4>3. SubSeq(q, 1, Len(q)) = q
        BY <2>4
      <4> QED
        BY <4>1, <4>2, <4>3
    <3>2. CASE h # <<>>
      <4>1. arriving = <<Head1, Head2>> \o q
        BY <2>2, <3>2 DEF Coming
      <4>2. <<Head1, Head2>> \in Seq(Int) /\ Len(<<Head1, Head2>>) = 2
        BY DEF Head1, Head2
      <4>3. Len(arriving) = 2 + Len(q) /\ arriving[1] = Head1 /\ arriving # <<>>
        BY <2>4, <4>1, <4>2
      <4>4. HeadLength = 2
        BY <4>3 DEF HeadLength
      <4>5. SubSeq(<<Head1, Head2>> \o q, 3, 2 + Len(q)) = q
        BY <2>4, <4>2
      <4> QED
        BY <4>1, <4>3, <4>4, <4>5
    <3> QED
      BY <3>1, <3>2
  <2>6. Spans(got \o rest \o half \o q, 0, n) /\ got \o rest \o half \o q \in Seq(Int)
    <3>0. PICK o \in Nat : o = 0
      OBVIOUS
    <3>a. Spans(got, o, a)
      BY <2>4, <3>0
    <3>1. PICK x : x = got \o rest
      OBVIOUS
    <3>2. x \in Seq(Int)
      BY <2>4, <3>1
    <3>b. Spans(x, o, b)
      BY <2>4, <3>a, <3>1, SpansJoin, Zenon
    <3>3. PICK y : y = x \o half
      OBVIOUS
    <3>4. y \in Seq(Int)
      BY <2>4, <3>2, <3>3
    <3>c. Spans(y, o, c)
      BY <2>4, <3>2, <3>b, <3>3, SpansJoin, Zenon
    <3>5. PICK z : z = y \o q
      OBVIOUS
    <3>6. z \in Seq(Int)
      BY <2>4, <3>4, <3>5
    <3>d. Spans(z, o, n)
      BY <2>3, <2>4, <3>4, <3>c, <3>5, SpansJoin, Zenon
    <3> QED
      BY <3>0, <3>1, <3>3, <3>5, <3>6, <3>d
  <2>7. Counted(got \o rest \o half \o q, n)
    <3>1. PICK z : z = got \o rest \o half \o q
      OBVIOUS
    <3>2. z \in Seq(Int) /\ Len(z) = n /\ \A i \in 1 .. n : z[i] = i
      BY <2>6, <3>1 DEF Spans
    <3>3. z = [i \in 1 .. n |-> i]
      BY <3>2
    <3> QED
      BY <3>1, <3>3 DEF Counted
  <2> QED
    BY <2>1, <2>3, <2>5, <2>7
<1> QED
  BY <1>1, <1>2, <1>3 DEF ObfsInOrder

LEMMA SpansGrow ==
  ASSUME NEW a \in Nat, NEW b \in Nat, NEW q, Len(q) \in Nat, Spans(q, a, b)
  PROVE  a <= b
<1>1. Len(q) = b - a
  BY DEF Spans
<1> QED
  BY <1>1

\* A piece of a run.
LEMMA SpansPart ==
  ASSUME NEW a \in Nat, NEW c \in Nat, NEW q \in Seq(Int), Spans(q, a, c), NEW k \in Nat, NEW l \in Nat,
         k <= l, l <= Len(q), NEW r, r = SubSeq(q, k + 1, l)
  PROVE  r \in Seq(Int) /\ Spans(r, a + k, a + l)
<1>1. PICK n \in Nat : n = Len(q) /\ n = c - a
  BY DEF Spans
<1>2. PICK j \in Int : j = k + 1
  OBVIOUS
<1>3. l \in Int /\ \A i \in j .. l : q[i] \in Int
  <2>1. \A i \in j .. l : i \in 1 .. Len(q)
    BY <1>1, <1>2
  <2> QED
    BY <2>1, ElementOfSeq
<1>4. r = SubSeq(q, j, l)
  BY <1>2
<1>5. r \in Seq(Int) /\ Len(r) = (IF j <= l THEN l - j + 1 ELSE 0) /\ \A i \in 1 .. l - j + 1 : r[i] = q[j + i - 1]
  BY <1>3, <1>4, SubSeqProperties
<1>6. l - j + 1 = l - k /\ (\A i \in 1 .. l - k : j + i - 1 = k + i /\ k + i \in 1 .. n /\ a + (k + i) = (a + k) + i)
  BY <1>1, <1>2
<1>7. Len(r) = l - k /\ l - k = (a + l) - (a + k)
  BY <1>1, <1>2, <1>5
<1>8. \A i \in 1 .. l - k : r[i] = (a + k) + i
  <2>1. \A i \in 1 .. n : q[i] = a + i
    BY <1>1 DEF Spans
  <2> QED
    BY <1>5, <1>6, <2>1
<1> QED
  BY <1>5, <1>7, <1>8 DEF Spans

\* One of the two goes on.
LEMMA OneMoves ==
  ASSUME ObfsType, NEW s \in Sides, NEW p \in Places, Goto(s, p)
  PROVE  /\ opc' \in [Sides -> Places] /\ AtW = opc["writer"] /\ AtR = opc["reader"]
         /\ \/ s = "writer" /\ opc[s] = AtW /\ AtW' = p /\ AtR' = AtR
            \/ s = "reader" /\ opc[s] = AtR /\ AtR' = p /\ AtW' = AtW
<1>1. opc \in [Sides -> Places] /\ opc' = [opc EXCEPT ![s] = p]
  BY DEF ObfsType, WhoType, Goto
<1> QED
  BY <1>1 DEF Sides, AtW, AtR

\* What comes back does not change with what is written.
LEMMA ReadStays ==
  ASSUME ObfsRead, UNCHANGED readVars, UNCHANGED <<obfs, pieces>>, HeadTaken' <=> HeadTaken
  PROVE  ObfsRead'
<1>1. /\ arriving' = arriving /\ half' = half /\ rest' = rest /\ got' = got /\ split' = split /\ fault' = fault
      /\ obfs' = obfs /\ pieces' = pieces
  BY DEF readVars
<1>3. ASSUME Comes PROVE Comes'
  <2>1. PICK h, q : \E a \in Nat, b \in Nat, c \in Nat : Coming(h, q, a, b, c)
    BY <1>3 DEF Comes
  <2>2. PICK a \in Nat, b \in Nat, c \in Nat : Coming(h, q, a, b, c)
    BY <2>1
  <2>3. Coming(h, q, a, b, c)'
    BY <1>1, <2>2 DEF Coming
  <2> QED
    BY <2>3 DEF Comes
<1> QED
  BY <1>1, <1>3, Zenon DEF ObfsRead

\* Nor the other way round.
LEMMA WriteStays ==
  ASSUME ObfsWrite, UNCHANGED writeVars, UNCHANGED obfs, cut' \/ cut' = cut
  PROVE  ObfsWrite'
<1>1. /\ status' = status /\ rawSent' = rawSent /\ parked' = parked /\ held' = held /\ opc' = opc /\ oarg' = oarg
      /\ tokens' = tokens /\ sent' = sent /\ raced' = raced /\ obfs' = obfs
  BY DEF writeVars
<1>2. AtW' = AtW /\ AtR' = AtR
  BY <1>1 DEF AtW, AtR
<1>3. StillParked' = StillParked /\ Pending' = Pending
  BY <1>1, <1>2 DEF StillParked, Pending
<1>4. \A a, b, c : Waiting(a, b, c) => Waiting(a, b, c)'
  BY <1>1, <1>3, Zenon DEF Waiting, Told, InOrder, Spans
<1>5. (Waits => Waits') /\ (ToldSome => ToldSome')
  <2>1. Waits => Waits'
    BY <1>4, Zenon DEF Waits
  <2>2. ToldSome => ToldSome'
    BY <1>1, Zenon DEF ToldSome, Told, InOrder
  <2> QED
    BY <2>1, <2>2
<1> QED
  BY <1>1, <1>2, <1>5, Zenon DEF ObfsWrite

\* What the server has got, whether the connection has failed or not.
LEMMA ToldStays ==
  ASSUME ObfsType, ObfsType', ToldSome, cut => sent' = sent, cut' = cut, ~cut => Waits', tokens' \in {tokens, tokens + 1}
  PROVE  ToldSome'
<1>1. CASE cut
  <2>1. PICK n \in Nat : n <= tokens /\ Told(sent, n)
    BY DEF ToldSome
  <2>2. tokens \in Nat /\ n <= tokens'
    BY <2>1 DEF ObfsType, WhoType
  <2>3. Told(sent, n)'
    BY <1>1, <2>1
  <2> QED
    BY <2>2, <2>3 DEF ToldSome
<1>2. CASE ~cut
  <2>1. PICK a \in Nat, b \in Nat, c \in Nat : Waiting(a, b, c)'
    BY <1>2 DEF Waits
  <2>2. a <= tokens' /\ Told(sent, a)'
    <3>1. a <= b /\ b <= c /\ c <= tokens'
      <4>1. StillParked' \in Seq(Units) /\ Pending' \in Seq(Units) /\ held' \in Seq(Units)
        BY DEF StillParked, Pending, ObfsType, WhoType, SentType, Sides
      <4>2. Len(held') \in Nat /\ Len(StillParked') \in Nat /\ Len(Pending') \in Nat
        BY <4>1
      <4>3. Spans(held', a, b) /\ Spans(StillParked', b, c) /\ Spans(Pending', c, tokens')
        BY <2>1 DEF Waiting
      <4>4. tokens' \in Nat
        BY DEF ObfsType, WhoType
      <4> QED
        BY <4>2, <4>3, <4>4, SpansGrow
    <3> QED
      BY <2>1, <3>1 DEF Waiting, ObfsType, WhoType
  <2> QED
    BY <2>2 DEF ToldSome
<1> QED
  BY <1>1, <1>2

\* A step of the server or of Read leaves what Write keeps as it is.
LEMMA BackStep ==
  ASSUME ObfsIInv, UNCHANGED writeVars, UNCHANGED obfs, cut' \/ cut' = cut, recvHead => recvHead', BackType', ObfsRead',
         obfs = "tls12" => /\ pieces' >= 1 => status # 0
                           /\ pieces' >= 2 => status = 8
                           /\ pieces' = 0 => AtR = "idle",
         obfs = "random_head" /\ pieces' >= 2 => recvHead'
  PROVE  ObfsIInv'
<1>0. ObfsType /\ ObfsShape /\ ObfsWrite
  BY DEF ObfsIInv
<1>1. /\ status' = status /\ rawSent' = rawSent /\ parked' = parked /\ held' = held /\ opc' = opc /\ oarg' = oarg
      /\ tokens' = tokens /\ sent' = sent /\ obfs' = obfs
  BY DEF writeVars
<1>2. AtW' = AtW /\ AtR' = AtR
  BY <1>1 DEF AtW, AtR
<1>3. ObfsType'
  <2>1. WhoType'
    BY <1>0, <1>1, <1>2 DEF ObfsType, WhoType
  <2>2. SentType'
    BY <1>0, <1>1 DEF ObfsType, SentType
  <2> QED
    BY <2>1, <2>2 DEF ObfsType
<1>4. ObfsShape'
  <2>1. ShapeTls'
    BY <1>0, <1>1, <1>2, Zenon DEF ObfsShape, ShapeTls
  <2>2. ShapeRandom'
    BY <1>0, <1>1, <1>2, Zenon DEF ObfsShape, ShapeRandom
  <2>3. ShapeHttp'
    BY <1>0, <1>1, <1>2, Zenon DEF ObfsShape, ShapeHttp
  <2> QED
    BY <2>1, <2>2, <2>3 DEF ObfsShape
<1>5. ObfsWrite'
  BY <1>0, WriteStays
<1> QED
  BY <1>3, <1>4, <1>5 DEF ObfsIInv

LEMMA ReadStep ==
  ASSUME ObfsIInv, UNCHANGED writeVars, UNCHANGED obfs, cut' \/ cut' = cut, recvHead => recvHead', BackType', ObfsRead',
         pieces' = pieces
  PROVE  ObfsIInv'
<1>1. ShapeTls /\ ShapeRandom
  BY DEF ObfsIInv, ObfsShape
<1>2. obfs = "tls12" => /\ pieces' >= 1 => status # 0
                        /\ pieces' >= 2 => status = 8
                        /\ pieces' = 0 => AtR = "idle"
  BY <1>1, Zenon DEF ShapeTls
<1>3. obfs = "random_head" /\ pieces' >= 2 => recvHead'
  BY <1>1, Zenon DEF ShapeRandom
<1> QED
  BY <1>2, <1>3, BackStep, Zenon

LEMMA FailIInv ==
  ASSUME ObfsIInv, Fail PROVE ObfsIInv'
<1>1. UNCHANGED writeVars /\ UNCHANGED readVars /\ obfs' = obfs /\ pieces' = pieces /\ cut'
  BY Zenon DEF Fail
<1>2. ObfsType /\ ObfsRead
  BY DEF ObfsIInv
<1>3. BackType'
  BY <1>1, <1>2 DEF ObfsType, BackType, readVars
<1>4. ObfsRead'
  <2>1. HeadTaken' <=> HeadTaken
    BY <1>1, Zenon DEF HeadTaken, AtR, writeVars, readVars
  <2> QED
    BY <1>1, <1>2, <2>1, ReadStays, Zenon
<1>5. recvHead => recvHead'
  BY <1>1, Zenon DEF readVars
<1> QED
  BY <1>1, <1>3, <1>4, <1>5, ReadStep, Zenon

\* Where the data is, when nothing is split.
LEMMA ComesAt ==
  ASSUME ObfsType, ObfsRead, ~split
  PROVE  /\ ~fault /\ (obfs # "tls12" => half = <<>>)
         /\ \E h, q : \E a \in Nat, b \in Nat, c \in Nat : Coming(h, q, a, b, c)
BY Zenon DEF ObfsRead, Comes

\* The server's head is there while it has not been taken, and only then.
LEMMA HeadWhole ==
  ASSUME ObfsType, NEW h, NEW q, NEW a \in Nat, NEW b \in Nat, NEW c \in Nat, Coming(h, q, a, b, c),
         arriving # <<>>, ~HeadTaken
  PROVE  /\ h = <<Head1, Head2>> /\ q \in Seq(Int) /\ Len(arriving) = 2 + Len(q)
         /\ \A k \in Nat, n \in Nat : k <= n /\ n <= Len(q) => SubSeq(arriving, k + 3, n + 2) = SubSeq(q, k + 1, n)
<1>1. pieces # 0
  BY DEF ObfsType, BackType
<1>2. h = <<Head1, Head2>> /\ q \in Seq(Int) /\ arriving = h \o q
  BY <1>1, Zenon DEF Coming
<1>3. h \in Seq(Int) /\ Len(h) = 2
  BY <1>2 DEF Head1, Head2
<1>4. PICK l \in Nat : l = Len(q) /\ Len(arriving) = 2 + l /\ \A i \in 1 .. l : arriving[2 + i] = q[i]
  <2>1. Len(q) \in Nat /\ Len(arriving) = 2 + Len(q) /\ \A i \in 1 .. Len(q) : arriving[2 + i] = q[i]
    BY <1>2, <1>3, JoinLists
  <2> QED
    BY <2>1
<1>5. ASSUME NEW k \in Nat, NEW n \in Nat, k <= n, n <= Len(q)
      PROVE  SubSeq(arriving, k + 3, n + 2) = SubSeq(q, k + 1, n)
  <2>1. PICK u \in Int, v \in Int, w \in Int : u = k + 3 /\ v = n + 2 /\ w = k + 1
    OBVIOUS
  <2>2. \A i \in u .. v : arriving[i] \in Int
    <3>1. \A i \in u .. v : i \in 1 .. Len(arriving)
      BY <1>4, <1>5, <2>1
    <3> QED
      BY <3>1, ElementOfSeq DEF ObfsType, BackType
  <2>3. \A i \in w .. n : q[i] \in Int
    <3>1. \A i \in w .. n : i \in 1 .. Len(q)
      BY <1>4, <1>5, <2>1
    <3> QED
      BY <1>2, <3>1, ElementOfSeq
  <2>4. PICK x : x = SubSeq(arriving, u, v)
    OBVIOUS
  <2>5. PICK y : y = SubSeq(q, w, n)
    OBVIOUS
  <2>6. /\ x \in Seq(Int) /\ Len(x) = IF u <= v THEN v - u + 1 ELSE 0
        /\ \A i \in 1 .. v - u + 1 : x[i] = arriving[u + i - 1]
    BY <2>2, <2>4, SubSeqProperties
  <2>7. /\ y \in Seq(Int) /\ Len(y) = IF w <= n THEN n - w + 1 ELSE 0
        /\ \A i \in 1 .. n - w + 1 : y[i] = q[w + i - 1]
    BY <2>3, <2>5, SubSeqProperties
  <2>8. Len(x) = n - k /\ Len(y) = n - k
    BY <1>5, <2>1, <2>6, <2>7
  <2>9. \A i \in 1 .. n - k : x[i] = y[i]
    <3> TAKE i \in 1 .. n - k
    <3>1. i \in 1 .. v - u + 1 /\ i \in 1 .. n - w + 1 /\ w + i - 1 \in 1 .. l /\ u + i - 1 = 2 + (w + i - 1)
      BY <1>4, <1>5, <2>1
    <3> QED
      BY <1>4, <2>6, <2>7, <3>1
  <2>10. x \in Seq(Int) /\ y \in Seq(Int) /\ Len(x) = Len(y) /\ \A i \in 1 .. Len(x) : x[i] = y[i]
    BY <2>6, <2>7, <2>8, <2>9
  <2>11. x = y
    BY <2>10
  <2> QED
    BY <2>1, <2>4, <2>5, <2>11
<1> QED
  BY <1>2, <1>4, <1>5

LEMMA JoinThree ==
  ASSUME NEW p \in Seq(Int), NEW q \in Seq(Int), NEW r \in Seq(Int)
  PROVE  (p \o q) \o r = p \o (q \o r)
BY ConcatAssociative, SMTT(60)

LEMMA HeadTyped ==
  ASSUME NEW h, h \in {<<>>, <<Head1, Head2>>} PROVE h \in Seq(Int)
<1>1. <<>> \in Seq(Int)
  OBVIOUS
<1>2. <<Head1, Head2>> \in Seq(Int)
  BY DEF Head1, Head2
<1> QED
  BY <1>1, <1>2, Zenon

LEMMA AnswerIInv ==
  ASSUME ObfsIInv, Answer PROVE ObfsIInv'
<1>1. UNCHANGED writeVars /\ obfs' = obfs /\ cut' = cut /\ recvHead' = recvHead
  BY Zenon DEF Answer
<1>2. /\ Says(sent, Hello) /\ arriving = <<>> /\ pieces = 0 /\ ~recvHead /\ status # 8
      /\ arriving' = <<Head1, Head2>> /\ pieces' = 1
      /\ half' = half /\ rest' = rest /\ got' = got /\ split' = split /\ fault' = fault
  BY Zenon DEF Answer, Heard, Says
<1>3. ObfsType /\ ObfsShape /\ ObfsRead
  BY DEF ObfsIInv
<1>a. <<Head1, Head2>> \in Seq(Int) /\ <<Head1, Head2>> # <<>>
  BY DEF Head1, Head2
<1>4. BackType'
  BY <1>2, <1>3, <1>a DEF ObfsType, BackType
<1>5. obfs = "tls12" => status # 0 /\ AtR = "idle"
  BY <1>2, <1>3 DEF ObfsShape, ShapeTls
<1>6. ~HeadTaken'
  <2>1. status' = status /\ AtR' = AtR
    BY <1>1, Zenon DEF writeVars, AtR
  <2> QED
    BY <1>1, <1>2, <1>5, <2>1, Zenon DEF HeadTaken
<1>7. ObfsRead'
  <2> SUFFICES ASSUME ~split PROVE ~fault /\ (obfs # "tls12" => half = <<>>) /\ Comes'
    BY <1>1, <1>2, Zenon DEF ObfsRead
  <2>1. ~fault /\ (obfs # "tls12" => half = <<>>)
    BY <1>3, ComesAt, Zenon
  <2>2. PICK h, q : \E a \in Nat, b \in Nat, c \in Nat : Coming(h, q, a, b, c)
    BY <1>3, ComesAt, Zenon
  <2>3. PICK a \in Nat, b \in Nat, c \in Nat : Coming(h, q, a, b, c)
    BY <2>2
  <2>a. /\ q \in Seq(Int) /\ h \in {<<>>, <<Head1, Head2>>} /\ arriving = h \o q
        /\ Spans(got, 0, a) /\ Spans(rest, a, b) /\ Spans(half, b, c)
        /\ Spans(q, c, IF pieces = 0 THEN 0 ELSE pieces - 1)
    BY <2>3, Zenon DEF Coming
  <2>4. q \in Seq(Int) /\ h \in Seq(Int) /\ h \o q = <<>> /\ Spans(q, c, 0) /\ Spans(got, 0, a) /\ Spans(rest, a, b) /\ Spans(half, b, c)
    BY <1>2, <2>a, HeadTyped
  <2>5. q = <<>>
    <3>1. Len(h \o q) = Len(h) + Len(q) /\ Len(h) \in Nat /\ Len(q) \in Nat /\ Len(<<>>) = 0
      BY <2>4
    <3>2. Len(q) = 0
      BY <2>4, <3>1
    <3> QED
      BY <2>4, <3>2, EmptySeq
  <2>6. <<Head1, Head2>> \o <<>> = <<Head1, Head2>> /\ <<>> \in Seq(Int)
    BY <1>a
  <2>7. Spans(<<>>, c, 0) /\ 1 - 1 = 0 /\ 1 # 0
    BY <2>4, <2>5
  <2>8. Coming(<<Head1, Head2>>, <<>>, a, b, c)'
    BY <1>2, <1>6, <1>a, <2>4, <2>6, <2>7 DEF Coming
  <2>9. Comes'
    BY <2>8 DEF Comes
  <2> QED
    BY <2>1, <2>9
<1>8. obfs = "tls12" => /\ pieces' >= 1 => status # 0
                        /\ pieces' >= 2 => status = 8
                        /\ pieces' = 0 => AtR = "idle"
  BY <1>2, <1>5
<1>9. obfs = "random_head" /\ pieces' >= 2 => recvHead'
  BY <1>2
<1> QED
  BY <1>1, <1>4, <1>7, <1>8, <1>9, BackStep, Zenon

LEMMA ServerSendsDataIInv ==
  ASSUME ObfsAssumption, ObfsIInv, ServerSendsData PROVE ObfsIInv'
<1>1. UNCHANGED writeVars /\ obfs' = obfs /\ cut' = cut /\ recvHead' = recvHead
  BY Zenon DEF ServerSendsData
<1>2. /\ pieces \in 1 .. MaxPieces /\ arriving' = Append(arriving, pieces) /\ pieces' = pieces + 1
      /\ half' = half /\ rest' = rest /\ got' = got /\ split' = split /\ fault' = fault
  BY Zenon DEF ServerSendsData
<1>3. ObfsType /\ ObfsShape /\ ObfsRead
  BY DEF ObfsIInv
<1>b. pieces \in Nat /\ pieces >= 1 /\ pieces' # 0 /\ pieces # 0 /\ pieces' - 1 = pieces
  BY <1>2, <1>3 DEF ObfsType, BackType
<1>4. BackType'
  BY <1>2, <1>3, <1>b DEF ObfsType, BackType
<1>5. obfs = "tls12" => status # 0 /\ status = 8
  <2> SUFFICES ASSUME obfs = "tls12" PROVE status = 8
    BY <1>3 DEF ObfsShape
  <2>1. Says(sent, Finish)
    BY Zenon DEF ServerSendsData, Heard, Says
  <2> QED
    BY <1>3, <2>1 DEF ObfsShape, ShapeTls
<1>6. obfs = "random_head" => recvHead
  <2> SUFFICES ASSUME obfs = "random_head" PROVE recvHead
    OBVIOUS
  <2>1. PICK t \in 1 .. MaxTokens : Heard(t)
    BY DEF ServerSendsData
  <2>2. t \in Units
    BY <2>1 DEF ObfsAssumption, Units
  <2>3. Says(sent, t)
    BY <2>1, Zenon DEF Heard, Says
  <2> QED
    BY <1>3, <2>2, <2>3, Zenon DEF ObfsShape, ShapeRandom
<1>c. HeadTaken' <=> HeadTaken
  BY <1>1, Zenon DEF HeadTaken, AtR, writeVars
<1>7. ObfsRead'
  <2> SUFFICES ASSUME ~split PROVE ~fault /\ (obfs # "tls12" => half = <<>>) /\ Comes'
    BY <1>1, <1>2, Zenon DEF ObfsRead
  <2>1. ~fault /\ (obfs # "tls12" => half = <<>>)
    BY <1>3, ComesAt, Zenon
  <2>2. PICK h, q : \E a \in Nat, b \in Nat, c \in Nat : Coming(h, q, a, b, c)
    BY <1>3, ComesAt, Zenon
  <2>3. PICK a \in Nat, b \in Nat, c \in Nat : Coming(h, q, a, b, c)
    BY <2>2
  <2>4. /\ q \in Seq(Int) /\ h \in {<<>>, <<Head1, Head2>>} /\ arriving = h \o q /\ Spans(q, c, pieces - 1)
        /\ Spans(got, 0, a) /\ Spans(rest, a, b) /\ Spans(half, b, c)
        /\ h = <<>> => HeadTaken
        /\ h # <<>> => ~HeadTaken
    BY <1>b, <2>3 DEF Coming
  <2>5. h \in Seq(Int)
    BY <2>4, HeadTyped, Zenon
  <2>6. PICK r : r = q \o <<pieces>>
    OBVIOUS
  <2>7. r \in Seq(Int) /\ arriving' = h \o r
    <3>1. <<pieces>> \in Seq(Int) /\ pieces \in Int
      BY <1>b
    <3>2. r \in Seq(Int) /\ h \o q \in Seq(Int)
      BY <2>4, <2>5, <2>6, <3>1
    <3>3. (h \o q) \o <<pieces>> = h \o r
      BY <2>4, <2>5, <2>6, <3>1, JoinThree, Zenon
    <3>4. Append(h \o q, pieces) = (h \o q) \o <<pieces>>
      BY <3>1, <3>2, AppendIsConcat
    <3> QED
      BY <1>2, <2>4, <3>2, <3>3, <3>4
  <2>8. Spans(r, c, pieces)
    <3>1. PICK d \in Nat : d = pieces - 1 /\ pieces = d + 1
      BY <1>b
    <3>2. Spans(<<pieces>>, d, pieces) /\ Spans(q, c, d)
      BY <2>4, <3>1, SpansNext
    <3>3. <<pieces>> \in Seq(Int)
      BY <1>b
    <3> QED
      BY <1>b, <2>4, <2>6, <3>2, <3>3, SpansJoin, Zenon
  <2>9. Coming(h, r, a, b, c)'
    <3>1. Spans(r, c, IF pieces' = 0 THEN 0 ELSE pieces' - 1) /\ pieces' >= 1
      BY <1>2, <1>b, <2>8
    <3> QED
      BY <1>2, <1>c, <2>4, <2>7, <3>1 DEF Coming
  <2>10. Comes'
    BY <2>9 DEF Comes
  <2> QED
    BY <2>1, <2>10
<1>8. obfs = "tls12" => /\ pieces' >= 1 => status # 0
                        /\ pieces' >= 2 => status = 8
                        /\ pieces' = 0 => AtR = "idle"
  BY <1>5, <1>b
<1>9. obfs = "random_head" /\ pieces' >= 2 => recvHead'
  BY <1>1, <1>6
<1> QED
  BY <1>1, <1>4, <1>7, <1>8, <1>9, BackStep, Zenon

LEMMA PartTyped ==
  ASSUME NEW q \in Seq(Int), NEW m \in Int, NEW n \in Int, m >= 1, n <= Len(q), NEW r, r = SubSeq(q, m, n)
  PROVE  r \in Seq(Int) /\ (n < m => r = <<>>)
<1>1. \A i \in m .. n : q[i] \in Int
  <2>1. \A i \in m .. n : i \in 1 .. Len(q)
    OBVIOUS
  <2> QED
    BY <2>1, ElementOfSeq
<1>2. r \in Seq(Int) /\ Len(r) = IF m <= n THEN n - m + 1 ELSE 0
  BY <1>1, SubSeqProperties
<1>3. ASSUME n < m PROVE r = <<>>
  <2>1. Len(r) = 0
    BY <1>2, <1>3
  <2> QED
    BY <1>2, <2>1, EmptySeq
<1> QED
  BY <1>2, <1>3

LEMMA ReceivesTyped ==
  ASSUME ObfsType, NEW k \in Nat, k <= Len(arriving), arriving' = SubSeq(arriving, k + 1, Len(arriving)), pieces' = pieces
  PROVE  arriving' \in Seq(Int) /\ pieces' \in Nat /\ (pieces' = 0 => arriving' = <<>>)
<1>1. PICK m \in Int, n \in Int : m = k + 1 /\ n = Len(arriving)
  BY DEF ObfsType, BackType
<1>2. arriving' = SubSeq(arriving, m, n) /\ m >= 1 /\ n <= Len(arriving) /\ arriving \in Seq(Int)
  BY <1>1 DEF ObfsType, BackType
<1>3. arriving' \in Seq(Int) /\ (n < m => arriving' = <<>>)
  BY <1>2, PartTyped
<1>4. pieces' \in Nat /\ (pieces' = 0 => Len(arriving) = 0)
  BY DEF ObfsType, BackType
<1> QED
  BY <1>1, <1>3, <1>4

\* Once the head has been taken, what arrives is data.
LEMMA HeadGone ==
  ASSUME NEW h, NEW q, NEW a, NEW b, NEW c, Coming(h, q, a, b, c), HeadTaken
  PROVE  h = <<>> /\ arriving = q /\ q \in Seq(Int)
<1>1. h = <<>> /\ q \in Seq(Int) /\ arriving = <<>> \o q
  BY Zenon DEF Coming
<1> QED
  BY <1>1

\* The data before the head and after it is all there is.
LEMMA ComesBack ==
  ASSUME NEW h, NEW q \in Seq(Int), NEW a \in Nat, NEW b \in Nat, NEW c \in Nat, h = <<>>, arriving' = q,
         Spans(got', 0, a), Spans(rest', a, b), Spans(half', b, c), Spans(q, c, IF pieces' = 0 THEN 0 ELSE pieces' - 1),
         HeadTaken'
  PROVE  Comes'
<1>1. <<>> \o q = q
  OBVIOUS
<1>2. Coming(h, q, a, b, c)'
  BY <1>1 DEF Coming
<1> QED
  BY <1>2 DEF Comes

LEMMA TakeFirst ==
  ASSUME NEW q \in Seq(Int), NEW a \in Nat, NEW n \in Nat, Spans(q, a, n), NEW k \in Nat, k <= Len(q),
         NEW d, d = a + k
  PROVE  /\ Spans(SubSeq(q, 1, k), a, d) /\ SubSeq(q, 1, k) \in Seq(Int)
         /\ Spans(SubSeq(q, k + 1, Len(q)), d, n) /\ SubSeq(q, k + 1, Len(q)) \in Seq(Int)
BY SpansSplit, Zenon

LEMMA ReadPlainIInv ==
  ASSUME ObfsIInv, NEW k \in 1 .. Len(arriving), ReadPlain(k) PROVE ObfsIInv'
<1>1. UNCHANGED writeVars /\ obfs' = obfs /\ cut' = cut /\ recvHead' = recvHead /\ pieces' = pieces
  BY Zenon DEF ReadPlain
<1>2. /\ arriving' = SubSeq(arriving, k + 1, Len(arriving)) /\ got' = got \o SubSeq(arriving, 1, k) /\ rest = <<>>
      /\ half' = half /\ rest' = rest /\ split' = split /\ fault' = fault /\ recvHead
  BY Zenon DEF ReadPlain, Receives
<1>3. ObfsType /\ ObfsRead
  BY DEF ObfsIInv
<1>4. k \in Nat /\ k <= Len(arriving) /\ Len(arriving) \in Nat /\ arriving \in Seq(Int) /\ got \in Seq(Int)
  BY <1>3 DEF ObfsType, BackType
<1>5. obfs # "tls12"
  BY DEF ReadPlain
<1>6. PICK x : x = SubSeq(arriving, 1, k)
  OBVIOUS
<1>7. BackType'
  <2>1. x \in Seq(Int)
    BY <1>4, <1>6, PartTyped
  <2>2. arriving' \in Seq(Int) /\ pieces' \in Nat /\ (pieces' = 0 => arriving' = <<>>)
    BY <1>1, <1>2, <1>3, <1>4, ReceivesTyped
  <2> QED
    BY <1>2, <1>3, <1>6, <2>1, <2>2 DEF ObfsType, BackType
<1>8. HeadTaken /\ HeadTaken'
  BY <1>1, <1>2, <1>5, Zenon DEF HeadTaken
<1>9. ObfsRead'
  <2> SUFFICES ASSUME ~split PROVE ~fault /\ (obfs # "tls12" => half = <<>>) /\ Comes'
    BY <1>1, <1>2, Zenon DEF ObfsRead
  <2>1. ~fault /\ (obfs # "tls12" => half = <<>>)
    BY <1>3, ComesAt, Zenon
  <2>2. PICK h, q : \E a \in Nat, b \in Nat, c \in Nat : Coming(h, q, a, b, c)
    BY <1>3, ComesAt, Zenon
  <2>3. PICK a \in Nat, b \in Nat, c \in Nat : Coming(h, q, a, b, c)
    BY <2>2
  <2>4. h = <<>> /\ arriving = q /\ q \in Seq(Int)
    BY <1>8, <2>3, HeadGone
  <2>5. PICK n : n = IF pieces' = 0 THEN 0 ELSE pieces' - 1
    OBVIOUS
  <2>6. Spans(got, 0, a) /\ Spans(<<>>, a, b) /\ Spans(<<>>, b, c) /\ Spans(q, c, n) /\ n \in Nat
    <3>1. n \in Nat
      BY <1>1, <1>3, <2>5 DEF ObfsType, BackType
    <3> QED
      BY <1>1, <1>2, <1>5, <2>1, <2>3, <2>5, <3>1 DEF Coming
  <2>7. a = b /\ b = c
    BY <2>6, SpansEmpty
  <2>b. Spans(q, a, n)
    BY <2>6, <2>7
  <2>8. PICK d \in Nat : d = a + k
    BY <1>4
  <2>9. Spans(x, a, d) /\ x \in Seq(Int) /\ Spans(arriving', d, n) /\ arriving' \in Seq(Int)
    BY <1>2, <1>4, <1>6, <2>4, <2>6, <2>b, <2>8, TakeFirst, Zenon
  <2>11. Spans(got', 0, d)
    <3>1. PICK o \in Nat : o = 0
      OBVIOUS
    <3>2. Spans(got, o, a) /\ got' = got \o x
      BY <1>2, <1>6, <2>6, <3>1
    <3>3. Spans(got', o, d)
      BY <1>4, <2>8, <2>9, <3>2, SpansJoin, Zenon
    <3> QED
      BY <3>1, <3>3
  <2>12. Spans(rest', d, d) /\ Spans(half', d, d)
    BY <1>2, <1>5, <2>1, SpansNone
  <2>13. Comes'
    <3>1. PICK p \in Seq(Int) : p = arriving'
      BY <2>9
    <3>2. Spans(p, d, IF pieces' = 0 THEN 0 ELSE pieces' - 1)
      BY <2>5, <2>9, <3>1
    <3> QED
      BY <1>8, <2>4, <2>11, <2>12, <3>1, <3>2, ComesBack, Zenon
  <2> QED
    BY <2>1, <2>13
<1> QED
  BY <1>1, <1>2, <1>7, <1>9, ReadStep, Zenon

\* What Read has returned, what it keeps and what arrives, when the head is gone.
DataAt(a, b, c, n) == Spans(got, 0, a) /\ Spans(rest, a, b) /\ Spans(half, b, c) /\ Spans(arriving, c, n)

LEMMA DataComes ==
  ASSUME ObfsType, ObfsRead, ~split, HeadTaken, NEW n \in Nat, n = IF pieces = 0 THEN 0 ELSE pieces - 1
  PROVE  \E a \in Nat, b \in Nat, c \in Nat : DataAt(a, b, c, n)
<1>1. PICK h, q : \E a \in Nat, b \in Nat, c \in Nat : Coming(h, q, a, b, c)
  BY ComesAt, Zenon
<1>2. PICK a \in Nat, b \in Nat, c \in Nat : Coming(h, q, a, b, c)
  BY <1>1
<1>3. arriving = q
  BY <1>2, HeadGone
<1>4. DataAt(a, b, c, n)
  BY <1>2, <1>3 DEF Coming, DataAt
<1> QED
  BY <1>4

LEMMA DataBack ==
  ASSUME NEW a \in Nat, NEW b \in Nat, NEW c \in Nat, NEW n, n = IF pieces' = 0 THEN 0 ELSE pieces' - 1,
         DataAt(a, b, c, n)', arriving' \in Seq(Int), HeadTaken'
  PROVE  Comes'
<1>1. PICK q, h : q = arriving' /\ h = <<>> /\ q \in Seq(Int)
  OBVIOUS
<1>2. Spans(got', 0, a) /\ Spans(rest', a, b) /\ Spans(half', b, c) /\ Spans(q, c, IF pieces' = 0 THEN 0 ELSE pieces' - 1)
  BY <1>1 DEF DataAt
<1> QED
  BY <1>1, <1>2, ComesBack, Zenon

LEMMA ReadRestIInv ==
  ASSUME ObfsIInv, ReadRest PROVE ObfsIInv'
<1>1. UNCHANGED writeVars /\ obfs' = obfs /\ cut' = cut /\ recvHead' = recvHead /\ pieces' = pieces
  BY Zenon DEF ReadRest
<1>2. /\ arriving' = arriving /\ got' = Append(got, Head(rest)) /\ rest # <<>> /\ rest' = Tail(rest)
      /\ half' = half /\ split' = split /\ fault' = fault
  BY Zenon DEF ReadRest
<1>3. ObfsType /\ ObfsRead
  BY DEF ObfsIInv
<1>4. rest \in Seq(Int) /\ arriving \in Seq(Int) /\ got \in Seq(Int) /\ half \in Seq(Int) /\ pieces \in Nat
  BY <1>3 DEF ObfsType, BackType
<1>5. PICK l \in Nat : l = Len(rest) /\ l >= 1
  BY <1>2, <1>4, EmptySeq
<1>6. /\ Head(rest) = rest[1] /\ rest[1] \in Int /\ Tail(rest) \in Seq(Int) /\ Len(Tail(rest)) = l - 1
      /\ \A i \in 1 .. l - 1 : Tail(rest)[i] = rest[i + 1]
  BY <1>2, <1>4, <1>5
<1>7. BackType'
  BY <1>1, <1>2, <1>3, <1>4, <1>6 DEF ObfsType, BackType
<1>8. HeadTaken' <=> HeadTaken
  BY <1>1, Zenon DEF HeadTaken, AtR, writeVars
<1>9. ObfsRead'
  <2> SUFFICES ASSUME ~split PROVE ~fault /\ (obfs # "tls12" => half = <<>>) /\ Comes'
    BY <1>1, <1>2, Zenon DEF ObfsRead
  <2>1. ~fault /\ (obfs # "tls12" => half = <<>>)
    BY <1>3, ComesAt, Zenon
  <2>2. PICK h, q : \E a \in Nat, b \in Nat, c \in Nat : Coming(h, q, a, b, c)
    BY <1>3, ComesAt, Zenon
  <2>3. PICK a \in Nat, b \in Nat, c \in Nat : Coming(h, q, a, b, c)
    BY <2>2
  <2>4. Spans(got, 0, a) /\ Spans(rest, a, b)
    BY <2>3 DEF Coming
  <2>5. PICK d \in Nat : d = a + 1
    OBVIOUS
  <2>6. l = b - a /\ \A i \in 1 .. l : rest[i] = a + i
    BY <1>5, <2>4 DEF Spans
  <2>7. rest[1] = d
    BY <1>5, <2>5, <2>6
  <2>8. Spans(got', 0, d)
    <3>1. PICK o \in Nat : o = 0
      OBVIOUS
    <3>2. got' = got \o <<d>> /\ <<d>> \in Seq(Int)
      BY <1>2, <1>4, <1>6, <2>7, AppendIsConcat
    <3>3. Spans(<<d>>, a, d)
      BY <2>5, SpansNext
    <3>4. Spans(got, o, a)
      BY <2>4, <3>1
    <3>5. Spans(got', o, d)
      BY <1>4, <3>2, <3>3, <3>4, SpansJoin, Zenon
    <3> QED
      BY <3>1, <3>5
  <2>9. Spans(rest', d, b)
    <3>1. PICK r : r = Tail(rest)
      OBVIOUS
    <3>2. Len(r) = b - d
      BY <1>6, <2>5, <2>6, <3>1
    <3>3. \A i \in 1 .. b - d : r[i] = d + i
      <4> TAKE i \in 1 .. b - d
      <4>1. i \in 1 .. l - 1 /\ i + 1 \in 1 .. l
        BY <2>5, <2>6
      <4>2. r[i] = rest[i + 1] /\ rest[i + 1] = a + (i + 1)
        BY <1>6, <2>6, <3>1, <4>1
      <4> QED
        BY <2>5, <4>1, <4>2
    <3> QED
      BY <1>2, <3>1, <3>2, <3>3 DEF Spans
  <2>10. Coming(h, q, d, b, c)'
    BY <1>1, <1>2, <1>8, <2>3, <2>8, <2>9 DEF Coming
  <2>11. Comes'
    BY <2>10 DEF Comes
  <2> QED
    BY <2>1, <2>11
<1> QED
  BY <1>1, <1>2, <1>7, <1>9, ReadStep, Zenon

LEMMA ReadHalfIInv ==
  ASSUME ObfsIInv, NEW k \in 1 .. Len(arriving), ReadHalf(k) PROVE ObfsIInv'
<1>1. UNCHANGED writeVars /\ obfs' = obfs /\ cut' = cut /\ recvHead' = recvHead /\ pieces' = pieces
  BY Zenon DEF ReadHalf
<1>2. /\ arriving' = SubSeq(arriving, k + 1, Len(arriving)) /\ half' = half \o SubSeq(arriving, 1, k) /\ rest = <<>>
      /\ got' = got /\ rest' = rest /\ split' = split /\ fault' = fault
  BY Zenon DEF ReadHalf, Receives
<1>3. ObfsType /\ ObfsRead
  BY DEF ObfsIInv
<1>4. k \in Nat /\ k <= Len(arriving) /\ Len(arriving) \in Nat /\ arriving \in Seq(Int) /\ half \in Seq(Int)
  BY <1>3 DEF ObfsType, BackType
<1>5. obfs = "tls12" /\ status = 8
  BY DEF ReadHalf
<1>6. PICK x : x = SubSeq(arriving, 1, k)
  OBVIOUS
<1>a. arriving' \in Seq(Int) /\ pieces' \in Nat /\ (pieces' = 0 => arriving' = <<>>)
  BY <1>1, <1>2, <1>3, <1>4, ReceivesTyped
<1>b. x \in Seq(Int)
  BY <1>4, <1>6, PartTyped
<1>7. BackType'
  BY <1>2, <1>3, <1>6, <1>a, <1>b DEF ObfsType, BackType
<1>8. HeadTaken /\ HeadTaken'
  BY <1>1, <1>2, <1>5, Zenon DEF HeadTaken, writeVars
<1>9. ObfsRead'
  <2> SUFFICES ASSUME ~split PROVE ~fault /\ Comes'
    BY <1>1, <1>2, <1>5, Zenon DEF ObfsRead
  <2>1. ~fault
    BY <1>3, ComesAt, Zenon
  <2>2. PICK n \in Nat : n = IF pieces = 0 THEN 0 ELSE pieces - 1
    BY <1>3 DEF ObfsType, BackType
  <2>3. PICK a \in Nat, b \in Nat, c \in Nat : DataAt(a, b, c, n)
    BY <1>3, <1>8, <2>2, DataComes, Zenon
  <2>4. Spans(got, 0, a) /\ Spans(rest, a, b) /\ Spans(half, b, c) /\ Spans(arriving, c, n)
    BY <2>3 DEF DataAt
  <2>5. PICK d \in Nat : d = c + k
    BY <1>4
  <2>6. Spans(x, c, d) /\ Spans(arriving', d, n)
    BY <1>2, <1>4, <1>6, <2>4, <2>5, TakeFirst, Zenon
  <2>7. Spans(half', b, d)
    <3>1. half' = half \o x
      BY <1>2, <1>6
    <3> QED
      BY <1>4, <1>b, <2>4, <2>6, <3>1, SpansJoin, Zenon
  <2>8. DataAt(a, b, d, n)'
    BY <1>2, <2>4, <2>6, <2>7 DEF DataAt
  <2>9. n = IF pieces' = 0 THEN 0 ELSE pieces' - 1
    BY <1>1, <2>2
  <2> QED
    BY <1>8, <1>a, <2>1, <2>8, <2>9, DataBack, Zenon
<1> QED
  BY <1>1, <1>2, <1>7, <1>9, ReadStep, Zenon

\* A run in three: one to return, the whole records behind it, and the rest.
LEMMA InThree ==
  ASSUME NEW q \in Seq(Int), NEW a \in Nat, NEW n \in Nat, Spans(q, a, n), NEW w \in Nat, 1 <= w, w <= Len(q),
         NEW d \in Nat, d = a + 1, NEW e \in Nat, e = a + w
  PROVE  /\ Spans(SubSeq(q, 1, 1), a, d) /\ SubSeq(q, 1, 1) \in Seq(Int)
         /\ Spans(SubSeq(q, 2, w), d, e) /\ SubSeq(q, 2, w) \in Seq(Int)
         /\ Spans(SubSeq(q, w + 1, Len(q)), e, n) /\ SubSeq(q, w + 1, Len(q)) \in Seq(Int)
<1>1. Spans(SubSeq(q, w + 1, Len(q)), e, n) /\ SubSeq(q, w + 1, Len(q)) \in Seq(Int)
  BY SpansSplit, Zenon
<1>2. PICK p : p = SubSeq(q, 1, w)
  OBVIOUS
<1>3. p \in Seq(Int) /\ Spans(p, a, e)
  BY <1>2, SpansSplit, Zenon
<1>4. Len(p) = w
  BY <1>3 DEF Spans
<1>5. PICK u \in Nat : u = 1 /\ u <= Len(p) /\ d = a + u /\ u <= Len(q)
  BY <1>4
<1>6. Spans(SubSeq(p, u + 1, Len(p)), d, e) /\ SubSeq(p, u + 1, Len(p)) \in Seq(Int)
  BY <1>3, <1>5, TakeFirst, Zenon
<1>7. Spans(SubSeq(q, 1, u), a, d) /\ SubSeq(q, 1, u) \in Seq(Int)
  BY <1>5, TakeFirst, Zenon
<1>8. SubSeq(p, 2, w) = SubSeq(q, 2, w)
  BY <1>2
<1> QED
  <2>1. Spans(SubSeq(q, 1, 1), a, d) /\ SubSeq(q, 1, 1) \in Seq(Int)
    BY <1>5, <1>7
  <2>2. u + 1 = 2
    BY <1>5
  <2>3. Spans(SubSeq(p, 2, w), d, e) /\ SubSeq(p, 2, w) \in Seq(Int)
    BY <1>4, <1>6, <2>2
  <2> QED
    BY <1>1, <1>8, <2>1, <2>3

LEMMA ReadRecordsIInv ==
  ASSUME ObfsIInv, NEW k \in 1 .. Len(arriving), ReadRecords(k) PROVE ObfsIInv'
<1>1. UNCHANGED writeVars /\ obfs' = obfs /\ cut' = cut /\ recvHead' = recvHead /\ pieces' = pieces
  BY Zenon DEF ReadRecords
<1>6. PICK x : x = SubSeq(arriving, 1, k)
  OBVIOUS
<1>c. PICK all : all = half \o x
  OBVIOUS
<1>d. PICK w : w = (Len(all) \div 2) * 2
  OBVIOUS
<1>2. /\ arriving' = SubSeq(arriving, k + 1, Len(arriving)) /\ rest = <<>>
      /\ half' = SubSeq(all, w + 1, Len(all)) /\ got' = got \o SubSeq(all, 1, 1) /\ w > 0 /\ rest' = SubSeq(all, 2, w)
      /\ split' = split /\ fault' = fault
  BY <1>6, <1>c, <1>d DEF ReadRecords, Receives
<1>3. ObfsType /\ ObfsRead
  BY DEF ObfsIInv
<1>4. /\ k \in Nat /\ k <= Len(arriving) /\ Len(arriving) \in Nat /\ arriving \in Seq(Int) /\ half \in Seq(Int)
      /\ got \in Seq(Int)
  BY <1>3 DEF ObfsType, BackType
<1>5. obfs = "tls12" /\ status = 8
  BY DEF ReadRecords
<1>a. arriving' \in Seq(Int) /\ pieces' \in Nat /\ (pieces' = 0 => arriving' = <<>>)
  BY <1>1, <1>2, <1>3, <1>4, ReceivesTyped
<1>b. x \in Seq(Int) /\ all \in Seq(Int)
  <2>1. x \in Seq(Int)
    BY <1>4, <1>6, PartTyped
  <2> QED
    BY <1>4, <1>c, <2>1
<1>e. w \in Nat /\ 1 <= w /\ w <= Len(all) /\ Len(all) \in Nat
  <2>1. PICK l \in Nat : l = Len(all)
    BY <1>b
  <2>2. w = (l \div 2) * 2 /\ w > 0
    BY <1>2, <1>d, <2>1
  <2> QED
    BY <2>1, <2>2
<1>7. BackType'
  <2>1. SubSeq(all, 1, 1) \in Seq(Int) /\ SubSeq(all, 2, w) \in Seq(Int) /\ SubSeq(all, w + 1, Len(all)) \in Seq(Int)
    BY <1>b, <1>e, PartTyped
  <2>a. half' \in Seq(Int) /\ rest' \in Seq(Int)
    BY <1>2, <2>1
  <2>b. PICK y : y = SubSeq(all, 1, 1)
    OBVIOUS
  <2>c. got' = got \o y /\ y \in Seq(Int)
    BY <1>2, <2>1, <2>b
  <2>2. half' \in Seq(Int) /\ rest' \in Seq(Int) /\ got' \in Seq(Int)
    BY <1>4, <2>a, <2>c
  <2> QED
    BY <1>a, <2>2 DEF BackType
<1>8. HeadTaken /\ HeadTaken'
  BY <1>1, <1>5, Zenon DEF HeadTaken, writeVars
<1>9. ObfsRead'
  <2> SUFFICES ASSUME ~split PROVE ~fault /\ Comes'
    BY <1>1, <1>2, <1>5, Zenon DEF ObfsRead
  <2>1. ~fault
    BY <1>3, ComesAt, Zenon
  <2>2. PICK n \in Nat : n = IF pieces = 0 THEN 0 ELSE pieces - 1
    BY <1>3 DEF ObfsType, BackType
  <2>3. PICK a \in Nat, b \in Nat, c \in Nat : DataAt(a, b, c, n)
    BY <1>3, <1>8, <2>2, DataComes, Zenon
  <2>4. Spans(got, 0, a) /\ Spans(rest, a, b) /\ Spans(half, b, c) /\ Spans(arriving, c, n)
    BY <2>3 DEF DataAt
  <2>5. a = b
    BY <1>2, <2>4, SpansEmpty
  <2>6. PICK d \in Nat : d = c + k
    BY <1>4
  <2>7. Spans(x, c, d) /\ Spans(arriving', d, n)
    BY <1>2, <1>4, <1>6, <2>4, <2>6, TakeFirst, Zenon
  <2>8. Spans(all, b, d)
    BY <1>4, <1>b, <1>c, <2>4, <2>7, SpansJoin, Zenon
  <2>9. PICK e \in Nat, f \in Nat : e = b + 1 /\ f = b + w
    BY <1>e
  <2>10. /\ Spans(SubSeq(all, 1, 1), b, e) /\ SubSeq(all, 1, 1) \in Seq(Int)
         /\ Spans(SubSeq(all, 2, w), e, f) /\ Spans(SubSeq(all, w + 1, Len(all)), f, d)
    BY <1>b, <1>e, <2>8, <2>9, InThree, Zenon
  <2>11. Spans(got', 0, e)
    <3>1. PICK o \in Nat : o = 0 /\ Spans(got, o, b)
      BY <2>4, <2>5
    <3>2. PICK y : y = SubSeq(all, 1, 1)
      OBVIOUS
    <3>3. got' = got \o y /\ Spans(y, b, e) /\ y \in Seq(Int)
      BY <1>2, <2>10, <3>2
    <3>4. Spans(got', o, e)
      BY <1>4, <3>1, <3>3, SpansJoin, Zenon
    <3> QED
      BY <3>1, <3>4
  <2>12. DataAt(e, f, d, n)'
    BY <1>2, <2>7, <2>10, <2>11 DEF DataAt
  <2>13. n = IF pieces' = 0 THEN 0 ELSE pieces' - 1
    BY <1>1, <2>2
  <2> QED
    BY <1>8, <1>a, <2>1, <2>12, <2>13, DataBack, Zenon
<1> QED
  BY <1>1, <1>2, <1>7, <1>9, ReadStep, Zenon

LEMMA ReadHttpHeadIInv ==
  ASSUME ObfsIInv, NEW k \in 1 .. Len(arriving), ReadHttpHead(k) PROVE ObfsIInv'
<1>1. UNCHANGED writeVars /\ obfs' = obfs /\ cut' = cut /\ pieces' = pieces
  BY Zenon DEF ReadHttpHead
<1>2. PICK data : data = SubSeq(arriving, 3, k)
  OBVIOUS
<1>3. PICK first : first = SubSeq(data, 1, IF data = <<>> THEN 0 ELSE 1)
  OBVIOUS
<1>4. /\ arriving' = SubSeq(arriving, k + 1, Len(arriving)) /\ rest = <<>> /\ obfs = "http" /\ ~recvHead
      /\ got' = got \o first /\ rest' = SubSeq(data, 2, Len(data)) /\ half' = half
  BY <1>2, <1>3 DEF ReadHttpHead, Receives
<1>5. ~split' => ~split /\ ~(k < 2) /\ recvHead' /\ ~fault'
  <2>1. fault' = (k < 2) /\ split' = (split \/ k < 2) /\ recvHead' = (k >= 2)
    BY Zenon DEF ReadHttpHead
  <2>2. ~(k < 2) => k >= 2
    OBVIOUS
  <2> QED
    BY <2>1, <2>2, Zenon
<1>6. ObfsType /\ ObfsRead
  BY DEF ObfsIInv
<1>7. k \in Nat /\ k <= Len(arriving) /\ Len(arriving) \in Nat /\ arriving \in Seq(Int) /\ half \in Seq(Int) /\ got \in Seq(Int)
  BY <1>6 DEF ObfsType, BackType
<1>8. arriving' \in Seq(Int) /\ pieces' \in Nat /\ (pieces' = 0 => arriving' = <<>>)
  BY <1>1, <1>4, <1>6, <1>7, ReceivesTyped
<1>9. data \in Seq(Int) /\ first \in Seq(Int) /\ rest' \in Seq(Int) /\ got' \in Seq(Int) /\ Len(data) \in Nat
  <2>1. PICK m \in Int, n \in Int : m = 3 /\ n = k /\ m >= 1 /\ n <= Len(arriving)
    BY <1>7
  <2>2. data \in Seq(Int)
    BY <1>2, <1>7, <2>1, PartTyped
  <2>3. PICK u \in Int, v \in Int : u = 1 /\ v = IF data = <<>> THEN 0 ELSE 1
    OBVIOUS
  <2>4. Len(data) \in Nat /\ (data # <<>> => Len(data) # 0)
    BY <2>2, EmptySeq
  <2>5. v <= Len(data) /\ u >= 1 /\ first = SubSeq(data, u, v)
    BY <1>3, <2>3, <2>4
  <2>6. first \in Seq(Int)
    BY <2>2, <2>5, PartTyped
  <2>7. PICK y \in Int, z \in Int : y = 2 /\ z = Len(data) /\ y >= 1 /\ z <= Len(data)
    BY <2>4
  <2>8. rest' \in Seq(Int)
    BY <1>4, <2>2, <2>7, PartTyped
  <2> QED
    BY <1>4, <1>7, <2>2, <2>4, <2>6, <2>8
<1>10. BackType'
  BY <1>4, <1>7, <1>8, <1>9 DEF BackType
<1>11. ~HeadTaken
  BY <1>4 DEF HeadTaken
<1>12. ObfsRead'
  <2> SUFFICES ASSUME ~split' PROVE ~fault' /\ (obfs' # "tls12" => half' = <<>>) /\ Comes'
    BY Zenon DEF ObfsRead
  <2>1. ~split /\ ~(k < 2) /\ recvHead' /\ ~fault'
    BY <1>5, Zenon
  <2>2. half = <<>>
    BY <1>4, <1>6, <2>1, ComesAt
  <2>3. PICK h, q : \E a \in Nat, b \in Nat, c \in Nat : Coming(h, q, a, b, c)
    BY <1>6, <2>1, ComesAt, Zenon
  <2>4. PICK a \in Nat, b \in Nat, c \in Nat : Coming(h, q, a, b, c)
    BY <2>3
  <2>5. PICK n \in Nat : n = IF pieces = 0 THEN 0 ELSE pieces - 1
    BY <1>6 DEF ObfsType, BackType
  <2>6. Spans(got, 0, a) /\ Spans(<<>>, a, b) /\ Spans(<<>>, b, c) /\ Spans(q, c, n)
    BY <1>4, <2>2, <2>4, <2>5 DEF Coming
  <2>7. a = c
    BY <2>6, SpansEmpty
  <2>8. arriving # <<>>
    <3>1. Len(arriving) # 0
      BY <1>7, <2>1
    <3> QED
      BY <3>1
  <2>9. /\ q \in Seq(Int) /\ Len(arriving) = 2 + Len(q)
        /\ \A j \in Nat, l \in Nat : j <= l /\ l <= Len(q) => SubSeq(arriving, j + 3, l + 2) = SubSeq(q, j + 1, l)
    BY <1>6, <1>11, <2>4, <2>8, HeadWhole, Zenon
  <2>10. PICK j \in Nat, l \in Nat : j = k - 2 /\ l = Len(q) /\ j <= l /\ j <= Len(q)
    <3>1. Len(q) \in Nat /\ Len(arriving) = 2 + Len(q)
      BY <2>9
    <3>2. k - 2 \in Nat /\ k - 2 <= Len(q)
      BY <1>7, <2>1, <3>1
    <3> QED
      BY <3>1, <3>2
  <2>11. data = SubSeq(q, 1, j)
    <3>1. PICK o \in Nat : o = 0 /\ o <= j
      OBVIOUS
    <3>2. SubSeq(arriving, o + 3, j + 2) = SubSeq(q, o + 1, j)
      BY <2>9, <2>10, <3>1
    <3>3. o + 3 = 3 /\ o + 1 = 1 /\ j + 2 = k
      BY <1>7, <2>10, <3>1
    <3> QED
      BY <1>2, <3>2, <3>3
  <2>12. arriving' = SubSeq(q, j + 1, Len(q))
    <3>a. l <= Len(q)
      BY <2>10
    <3>1. SubSeq(arriving, j + 3, l + 2) = SubSeq(q, j + 1, l)
      BY <2>9, <2>10, <3>a, Zenon
    <3>2. j + 3 = k + 1 /\ l + 2 = Len(arriving)
      BY <1>7, <2>9, <2>10
    <3> QED
      BY <1>4, <2>10, <3>1, <3>2
  <2>13. PICK d \in Nat : d = a + j
    OBVIOUS
  <2>14. Spans(data, a, d) /\ Spans(arriving', d, n)
    <3>1. Spans(q, a, n)
      BY <2>6, <2>7
    <3> QED
      BY <2>9, <2>10, <2>11, <2>12, <2>13, <3>1, TakeFirst, Zenon
  <2>15. n = IF pieces' = 0 THEN 0 ELSE pieces' - 1
    BY <1>1, <2>5
  <2>16. HeadTaken'
    BY <1>1, <1>4, <2>1, Zenon DEF HeadTaken
  <2>17. Comes'
    <3>1. CASE data = <<>>
      <4>1. a = d
        BY <2>14, <3>1, SpansEmpty
      <4>2. first = <<>> /\ rest' = <<>>
        <5>1. SubSeq(<<>>, 1, 0) = <<>> /\ SubSeq(<<>>, 2, 0) = <<>> /\ Len(<<>>) = 0
          OBVIOUS
        <5>2. first = SubSeq(data, 1, 0)
          BY <1>3, <3>1
        <5> QED
          BY <1>4, <3>1, <5>1, <5>2
      <4>3. got' = got
        BY <1>4, <1>7, <4>2
      <4>4. DataAt(a, a, a, n)'
        BY <1>4, <2>2, <2>6, <2>14, <4>1, <4>2, <4>3, SpansNone DEF DataAt
      <4> QED
        BY <1>8, <2>15, <2>16, <4>4, DataBack, Zenon
    <3>2. CASE data # <<>>
      <4>1. PICK w \in Nat : w = Len(data) /\ 1 <= w /\ w <= Len(data) /\ d = a + w
        <5>1. Len(data) # 0
          BY <1>9, <3>2, EmptySeq
        <5>2. Len(data) = d - a
          BY <2>14 DEF Spans
        <5> QED
          BY <1>9, <5>1, <5>2
      <4>2. PICK e \in Nat : e = a + 1
        OBVIOUS
      <4>3. Spans(SubSeq(data, 1, 1), a, e) /\ Spans(SubSeq(data, 2, w), e, d)
        BY <1>9, <2>14, <4>1, <4>2, InThree, Zenon
      <4>4. first = SubSeq(data, 1, 1)
        BY <1>3, <3>2
      <4>5. Spans(got', 0, e)
        <5>1. PICK o \in Nat : o = 0 /\ Spans(got, o, a)
          BY <2>6
        <5>2. Spans(first, a, e) /\ got' = got \o first
          BY <1>4, <4>3, <4>4
        <5>3. Spans(got', o, e)
          BY <1>7, <1>9, <5>1, <5>2, SpansJoin, Zenon
        <5> QED
          BY <5>1, <5>3
      <4>6. Spans(rest', e, d) /\ Spans(half', d, d)
        BY <1>4, <2>2, <4>1, <4>3, SpansNone
      <4>7. DataAt(e, d, d, n)'
        BY <2>14, <4>5, <4>6 DEF DataAt
      <4> QED
        BY <1>8, <2>15, <2>16, <4>7, DataBack, Zenon
    <3> QED
      BY <3>1, <3>2
  <2> QED
    BY <1>4, <2>1, <2>2, <2>17
<1> QED
  BY <1>1, <1>4, <1>10, <1>12, ReadStep, Zenon

\* The head is read alone and whole: the data stays where it is.
LEMMA HeadComesOff ==
  ASSUME ObfsType, ObfsRead, ~split, ~HeadTaken, HeadTaken', arriving # <<>>,
         2 <= Len(arriving), arriving' = SubSeq(arriving, 3, Len(arriving)),
         UNCHANGED <<pieces, half, rest, got>>
  PROVE  Comes'
<1>1. PICK h, q : \E a \in Nat, b \in Nat, c \in Nat : Coming(h, q, a, b, c)
  BY ComesAt, Zenon
<1>2. PICK a \in Nat, b \in Nat, c \in Nat : Coming(h, q, a, b, c)
  BY <1>1
<1>3. /\ q \in Seq(Int) /\ Len(arriving) = 2 + Len(q)
      /\ \A j \in Nat, l \in Nat : j <= l /\ l <= Len(q) => SubSeq(arriving, j + 3, l + 2) = SubSeq(q, j + 1, l)
  BY <1>2, HeadWhole, Zenon
<1>4. arriving' = q
  <2>a. q \in Seq(Int)
    BY <1>3
  <2>b. Len(q) \in Nat
    BY <2>a
  <2>1. PICK o \in Nat, l \in Nat : o = 0 /\ l = Len(q) /\ o <= l
    BY <2>b
  <2>2. l <= Len(q)
    BY <2>1
  <2>3. SubSeq(arriving, o + 3, l + 2) = SubSeq(q, o + 1, l)
    BY <1>3, <2>1, <2>2, Zenon
  <2>4. o + 3 = 3 /\ o + 1 = 1 /\ l + 2 = Len(arriving)
    BY <1>3, <2>1
  <2>5. SubSeq(q, 1, Len(q)) = q
    BY <1>3
  <2> QED
    BY <2>1, <2>3, <2>4, <2>5
<1>5. PICK n : n = IF pieces = 0 THEN 0 ELSE pieces - 1
  OBVIOUS
<1>6. Spans(got, 0, a) /\ Spans(rest, a, b) /\ Spans(half, b, c) /\ Spans(q, c, n)
  BY <1>2, <1>5 DEF Coming
<1>7. DataAt(a, b, c, n)'
  BY <1>4, <1>6 DEF DataAt
<1>8. n = (IF pieces' = 0 THEN 0 ELSE pieces' - 1) /\ arriving' \in Seq(Int)
  BY <1>3, <1>4, <1>5
<1> QED
  BY <1>7, <1>8, DataBack, Zenon

\* The reader turns to Write: what is kept stays, unless a Write is under way.
LEMMA ReaderTurns ==
  ASSUME ObfsType, ObfsWrite, AtR \in {"idle", "enter"}, AtR' \in {"enter", "park", "send"}, AtW' = AtW,
         oarg'["writer"] = oarg["writer"],
         UNCHANGED <<obfs, status, rawSent, parked, held, tokens, sent, cut>>, ~raced' => ~raced,
         AtR' \in {"park", "send"} /\ ~raced' => AtW = "idle"
  PROVE  ObfsWrite'
<1> SUFFICES ASSUME ~raced'
             PROVE  /\ AtW' # "idle" => AtR' \in {"idle", "enter"}
                    /\ held' # <<>> => AtR' = "finish"
                    /\ obfs' = "tls12" /\ status' = 8 => parked' = <<>> /\ AtW' \in {"idle", "send"}
                    /\ obfs' = "random_head" /\ rawSent' => parked' = <<>> /\ AtW' \in {"idle", "send"}
                    /\ ~cut' => Waits'
                    /\ ToldSome'
  BY Zenon DEF ObfsWrite
<1>1. /\ AtW # "idle" => AtR \in {"idle", "enter"}
      /\ held # <<>> => AtR = "finish"
      /\ obfs = "tls12" /\ status = 8 => parked = <<>> /\ AtW \in {"idle", "send"}
      /\ obfs = "random_head" /\ rawSent => parked = <<>> /\ AtW \in {"idle", "send"}
      /\ ~cut => Waits
      /\ ToldSome
  BY Zenon DEF ObfsWrite
<1>2. AtW' # "idle" => AtR' \in {"idle", "enter"}
  OBVIOUS
<1>3. held' # <<>> => AtR' = "finish"
  BY <1>1
<1>4. StillParked' = StillParked /\ Pending' = Pending
  BY DEF StillParked, Pending
<1>5. ASSUME Waits PROVE Waits'
  <2>1. PICK a \in Nat, b \in Nat, c \in Nat : Waiting(a, b, c)
    BY <1>5 DEF Waits
  <2>2. Waiting(a, b, c)'
    BY <1>4, <2>1 DEF Waiting
  <2> QED
    BY <2>2 DEF Waits
<1>6. ToldSome'
  <2>1. PICK n \in Nat : n <= tokens /\ Told(sent, n)
    BY <1>1 DEF ToldSome
  <2>2. n <= tokens' /\ Told(sent, n)'
    BY <2>1
  <2> QED
    BY <2>2 DEF ToldSome
<1> QED
  BY <1>1, <1>2, <1>3, <1>5, <1>6, Zenon

LEMMA ReadTicketIInv ==
  ASSUME ObfsIInv, NEW k \in 1 .. Len(arriving), ReadTicket(k) PROVE ObfsIInv'
<1>1. /\ obfs' = obfs /\ cut' = cut /\ pieces' = pieces /\ half' = half /\ rest' = rest /\ got' = got /\ recvHead' = recvHead
      /\ status' = status /\ sentHead' = sentHead /\ rawSent' = rawSent /\ parked' = parked /\ held' = held
      /\ tokens' = tokens /\ sent' = sent
  BY Zenon DEF ReadTicket
<1>2. /\ arriving' = SubSeq(arriving, k + 1, Len(arriving)) /\ rest = <<>> /\ obfs = "tls12" /\ status # 8
      /\ opc["reader"] = "idle"
  BY DEF ReadTicket, Receives
<1>3. ~split' => ~split /\ k = 2 /\ ~fault'
  <2>1. fault' = (k # 2) /\ split' = (split \/ k # 2)
    BY Zenon DEF ReadTicket
  <2> QED
    BY <2>1, Zenon
<1>4. ObfsType /\ ObfsShape /\ ObfsWrite /\ ObfsRead
  BY DEF ObfsIInv
<1>5. k \in Nat /\ k <= Len(arriving) /\ k >= 1 /\ Len(arriving) \in Nat /\ arriving \in Seq(Int)
  BY <1>4 DEF ObfsType, BackType
<1>6. arriving' \in Seq(Int) /\ pieces' \in Nat /\ (pieces' = 0 => arriving' = <<>>)
  BY <1>1, <1>2, <1>4, <1>5, ReceivesTyped
<1>7. BackType'
  BY <1>1, <1>4, <1>6 DEF ObfsType, BackType
<1>8. arriving # <<>> /\ pieces # 0 /\ pieces >= 1
  <2>1. Len(arriving) # 0
    BY <1>5
  <2>2. arriving # <<>>
    BY <2>1
  <2> QED
    BY <1>4, <2>2 DEF ObfsType, BackType
<1>9. CASE k # 2
  <2>1. UNCHANGED writeVars
    BY <1>1, <1>9 DEF ReadTicket, writeVars
  <2>2. ObfsRead'
    BY <1>3, <1>9, Zenon DEF ObfsRead
  <2> QED
    BY <1>1, <1>4, <1>7, <2>1, <2>2, ReadStep, Zenon
<1>10. CASE k = 2
  <2>1. /\ opc' = [opc EXCEPT !["reader"] = "park"] /\ oarg' = [oarg EXCEPT !["reader"] = <<>>]
        /\ raced' = (raced \/ \E t \in Sides : opc[t] # "idle")
    BY <1>2, <1>10 DEF ReadTicket, Enter, Goto, Through
  <2>2. opc' \in [Sides -> Places] /\ AtW' = AtW /\ AtR' = "park" /\ AtR = "idle"
    BY <1>2, <1>4, <2>1 DEF ObfsType, WhoType, AtW, AtR, Sides, Places
  <2>3. oarg' \in [Sides -> Seq(Units)] /\ oarg'["reader"] = <<>> /\ oarg'["writer"] = oarg["writer"]
    <3>1. oarg \in [Sides -> Seq(Units)] /\ <<>> \in Seq(Units)
      BY <1>4 DEF ObfsType, WhoType
    <3> QED
      BY <2>1, <3>1 DEF Sides
  <2>4. ObfsType'
    <3>1. WhoType'
      BY <1>1, <1>4, <2>2, <2>3 DEF ObfsType, WhoType
    <3>2. SentType'
      BY <1>1, <1>4 DEF ObfsType, SentType
    <3> QED
      BY <1>7, <3>1, <3>2 DEF ObfsType
  <2>5. ObfsShape'
    <3>1. ShapeTls
      BY <1>4 DEF ObfsShape
    <3>2. ShapeTls'
      BY <1>1, <1>2, <1>8, <2>2, <3>1 DEF ShapeTls
    <3>3. ShapeRandom' /\ ShapeHttp'
      BY <1>1, <1>2 DEF ShapeRandom, ShapeHttp
    <3> QED
      BY <3>2, <3>3 DEF ObfsShape
  <2>6. ObfsWrite'
    <3>1. ~raced' => ~raced /\ opc["writer"] = "idle"
      BY <2>1, Zenon DEF Sides
    <3>2. ~raced' => AtW = "idle"
      BY <3>1 DEF AtW
    <3> QED
      BY <1>1, <1>4, <2>2, <2>3, <3>1, <3>2, ReaderTurns
  <2>7. ObfsRead'
    <3> SUFFICES ASSUME ~split' PROVE ~fault' /\ (obfs' # "tls12" => half' = <<>>) /\ Comes'
      BY Zenon DEF ObfsRead
    <3>1. ~split /\ ~fault'
      BY <1>3, Zenon
    <3>2. ~HeadTaken
      BY <1>2, <2>2 DEF HeadTaken
    <3>3. Comes'
      BY <1>1, <1>2, <1>4, <1>5, <1>6, <1>8, <1>10, <2>2, <3>1, <3>2, HeadComesOff DEF HeadTaken
    <3> QED
      BY <1>1, <1>2, <3>1, <3>3
  <2> QED
    BY <2>4, <2>5, <2>6, <2>7 DEF ObfsIInv
<1> QED
  BY <1>9, <1>10

LEMMA ReadRandomHeadIInv ==
  ASSUME ObfsIInv, NEW k \in 0 .. Len(arriving), ReadRandomHead(k) PROVE ObfsIInv'
<1>1. /\ obfs' = obfs /\ cut' = cut /\ pieces' = pieces /\ half' = half /\ rest' = rest /\ got' = got /\ fault' = fault
      /\ status' = status /\ sentHead' = sentHead /\ rawSent' = rawSent /\ parked' = parked /\ held' = held
      /\ oarg' = oarg /\ tokens' = tokens /\ sent' = sent /\ raced' = raced /\ recvHead'
  BY Zenon DEF ReadRandomHead
<1>2. /\ arriving' = SubSeq(arriving, k + 1, Len(arriving)) /\ rest = <<>> /\ obfs = "random_head" /\ ~recvHead
      /\ opc["reader"] = "idle" /\ opc' = [opc EXCEPT !["reader"] = "enter"]
  BY DEF ReadRandomHead, Receives
<1>3. ~split' => ~split /\ k = 2
  <2>1. split' = (split \/ k # 2)
    BY Zenon DEF ReadRandomHead
  <2> QED
    BY <2>1, Zenon
<1>4. ObfsType /\ ObfsShape /\ ObfsWrite /\ ObfsRead
  BY DEF ObfsIInv
<1>5. k \in Nat /\ k <= Len(arriving) /\ Len(arriving) \in Nat /\ arriving \in Seq(Int)
  BY <1>4 DEF ObfsType, BackType
<1>6. arriving' \in Seq(Int) /\ pieces' \in Nat /\ (pieces' = 0 => arriving' = <<>>)
  BY <1>1, <1>2, <1>4, <1>5, ReceivesTyped
<1>7. opc' \in [Sides -> Places] /\ AtW' = AtW /\ AtR' = "enter" /\ AtR = "idle"
  BY <1>2, <1>4 DEF ObfsType, WhoType, AtW, AtR, Sides, Places
<1>8. ObfsType'
  <2>1. WhoType'
    BY <1>1, <1>4, <1>7 DEF ObfsType, WhoType
  <2>2. SentType'
    BY <1>1, <1>4 DEF ObfsType, SentType
  <2>3. BackType'
    BY <1>1, <1>4, <1>6 DEF ObfsType, BackType
  <2> QED
    BY <2>1, <2>2, <2>3 DEF ObfsType
<1>9. ObfsShape'
  <2>1. ShapeRandom
    BY <1>4 DEF ObfsShape
  <2>2. ShapeRandom'
    BY <1>1, <1>2, <1>7, <2>1 DEF ShapeRandom
  <2>3. ShapeTls' /\ ShapeHttp'
    BY <1>1, <1>2 DEF ShapeTls, ShapeHttp
  <2> QED
    BY <2>2, <2>3 DEF ObfsShape
<1>10. ObfsWrite'
  <2>1. ~raced' => ~raced
    BY <1>1, Zenon
  <2> QED
    BY <1>1, <1>4, <1>7, <2>1, ReaderTurns
<1>11. ObfsRead'
  <2> SUFFICES ASSUME ~split' PROVE ~fault' /\ (obfs' # "tls12" => half' = <<>>) /\ Comes'
    BY Zenon DEF ObfsRead
  <2>1. ~split /\ k = 2
    BY <1>3, Zenon
  <2>2. ~fault /\ half = <<>>
    BY <1>2, <1>4, <2>1, ComesAt
  <2>3. ~HeadTaken /\ HeadTaken'
    BY <1>1, <1>2 DEF HeadTaken
  <2>4. arriving # <<>> /\ 2 <= Len(arriving) /\ arriving' = SubSeq(arriving, 3, Len(arriving))
    <3>1. 2 <= Len(arriving) /\ Len(arriving) # 0
      BY <1>5, <2>1
    <3>2. arriving # <<>>
      BY <3>1
    <3> QED
      BY <1>2, <2>1, <3>1, <3>2
  <2>5. Comes'
    BY <1>1, <1>4, <2>1, <2>3, <2>4, HeadComesOff
  <2> QED
    BY <1>1, <2>2, <2>5
<1> QED
  BY <1>8, <1>9, <1>10, <1>11 DEF ObfsIInv

LEMMA ReaderWritesIInv ==
  ASSUME ObfsIInv, ReaderWrites PROVE ObfsIInv'
<1>1. /\ obfs' = obfs /\ status' = status /\ sentHead' = sentHead /\ rawSent' = rawSent /\ parked' = parked /\ held' = held
      /\ tokens' = tokens /\ sent' = sent /\ cut' = cut /\ pieces' = pieces /\ UNCHANGED readVars
  BY Zenon DEF ReaderWrites
<1>2. /\ opc["reader"] = "enter" /\ oarg' = [oarg EXCEPT !["reader"] = <<>>]
      /\ opc' = [opc EXCEPT !["reader"] = IF rawSent THEN "send" ELSE "park"]
  BY DEF ReaderWrites
<1>3. ~raced' => ~raced /\ AtW = "idle"
  <2>1. raced' = (raced \/ opc["writer"] # "idle")
    BY Zenon DEF ReaderWrites
  <2> QED
    BY <2>1, Zenon DEF AtW
<1>4. ObfsType /\ ObfsShape /\ ObfsWrite /\ ObfsRead
  BY DEF ObfsIInv
<1>5. opc' \in [Sides -> Places] /\ AtW' = AtW /\ AtR = "enter" /\ AtR' \in {"send", "park"} /\ (AtR' = "send" => rawSent)
  BY <1>2, <1>4 DEF ObfsType, WhoType, AtW, AtR, Sides, Places
<1>6. oarg' \in [Sides -> Seq(Units)] /\ oarg'["reader"] = <<>> /\ oarg'["writer"] = oarg["writer"]
  <2>1. oarg \in [Sides -> Seq(Units)] /\ <<>> \in Seq(Units)
    BY <1>4 DEF ObfsType, WhoType
  <2> QED
    BY <1>2, <2>1 DEF Sides
<1>7. obfs = "random_head"
  BY <1>4, <1>5 DEF ObfsType, WhoType, ObfsShape, ShapeTls, ShapeHttp
<1>8. ObfsType'
  <2>1. WhoType'
    BY <1>1, <1>4, <1>5, <1>6 DEF ObfsType, WhoType
  <2>2. SentType'
    BY <1>1, <1>4 DEF ObfsType, SentType
  <2>3. BackType'
    BY <1>1, <1>4 DEF ObfsType, BackType, readVars
  <2> QED
    BY <2>1, <2>2, <2>3 DEF ObfsType
<1>9. ObfsShape'
  <2>1. ShapeRandom
    BY <1>4 DEF ObfsShape
  <2>2. recvHead' = recvHead
    BY <1>1 DEF readVars
  <2>3. ShapeRandom'
    BY <1>1, <1>5, <1>7, <2>1, <2>2 DEF ShapeRandom
  <2>4. ShapeTls' /\ ShapeHttp'
    BY <1>1, <1>7 DEF ShapeTls, ShapeHttp
  <2> QED
    BY <2>3, <2>4 DEF ObfsShape
<1>10. ObfsWrite'
  BY <1>1, <1>3, <1>4, <1>5, <1>6, ReaderTurns
<1>11. ObfsRead'
  <2>1. HeadTaken' <=> HeadTaken
    <3>1. recvHead' = recvHead
      BY <1>1 DEF readVars
    <3>2. obfs # "tls12"
      BY <1>7
    <3> QED
      BY <1>1, <3>1, <3>2, Zenon DEF HeadTaken
  <2> QED
    BY <1>1, <1>4, <2>1, ReadStays, Zenon
<1> QED
  BY <1>8, <1>9, <1>10, <1>11 DEF ObfsIInv

\* What the two may not do at once, as long as no Write overlaps another.
Alone ==
  /\ AtW # "idle" => AtR \in {"idle", "enter"}
  /\ held # <<>> => AtR = "finish"
  /\ obfs = "tls12" /\ status = 8 => parked = <<>> /\ AtW \in {"idle", "send"}
  /\ obfs = "random_head" /\ rawSent => parked = <<>> /\ AtW \in {"idle", "send"}

LEMMA WriteSays ==
  ASSUME ObfsWrite, ~raced PROVE Alone /\ (~cut => Waits) /\ ToldSome
BY Zenon DEF ObfsWrite, Alone

LEMMA WriteHolds ==
  ASSUME ObfsType, ObfsType', ObfsWrite, cut' = cut, ~raced' => ~raced, tokens' \in {tokens, tokens + 1},
         cut => sent' = sent, ~raced' => Alone', ~raced' /\ ~cut => Waits'
  PROVE  ObfsWrite'
<1>1. ASSUME ~raced' PROVE Alone' /\ (~cut' => Waits') /\ ToldSome'
  <2>1. ~raced /\ Alone' /\ (~cut => Waits')
    BY <1>1, Zenon
  <2>2. ToldSome
    BY <2>1, WriteSays, Zenon
  <2>3. ToldSome'
    BY <2>1, <2>2, ToldStays, Zenon
  <2> QED
    BY <2>1, <2>3, Zenon
<1> QED
  BY <1>1, Zenon DEF ObfsWrite, Alone

LEMMA WaitsOpen ==
  ASSUME ObfsWrite, ~raced, ~cut
  PROVE  \E a \in Nat, b \in Nat, c \in Nat :
           Told(sent, a) /\ Spans(held, a, b) /\ Spans(StillParked, b, c) /\ Spans(Pending, c, tokens)
BY WriteSays, Zenon DEF Waits, Waiting

LEMMA WaitsAt ==
  ASSUME NEW a \in Nat, NEW b \in Nat, NEW c \in Nat,
         Told(sent', a), Spans(held', a, b), Spans(StillParked', b, c), Spans(Pending', c, tokens')
  PROVE  Waits'
<1>1. Waiting(a, b, c)'
  BY DEF Waiting
<1> QED
  BY <1>1 DEF Waits

\* A step of Write leaves what Read keeps as it is.
LEMMA WriteStep ==
  ASSUME ObfsIInv, UNCHANGED readVars, UNCHANGED <<obfs, pieces>>, WhoType', SentType', ObfsShape', ObfsWrite',
         HeadTaken' <=> HeadTaken
  PROVE  ObfsIInv'
<1>1. ObfsType /\ ObfsRead
  BY DEF ObfsIInv
<1>2. BackType'
  BY <1>1 DEF ObfsType, BackType, readVars
<1>3. ObfsRead'
  BY <1>1, ReadStays, Zenon
<1> QED
  BY <1>2, <1>3 DEF ObfsIInv, ObfsType

LEMMA SideGoes ==
  ASSUME ObfsType, NEW s \in Sides, NEW p \in Places, Goto(s, p), opc[s] # "idle", UNCHANGED <<obfs, oarg, tokens>>,
         status' \in {0, 1, 8}
  PROVE  WhoType'
<1>1. /\ opc' \in [Sides -> Places]
      /\ \/ s = "writer" /\ opc[s] = AtW /\ AtW' = p /\ AtR' = AtR
         \/ s = "reader" /\ opc[s] = AtR /\ AtR' = p /\ AtW' = AtW
  BY OneMoves, Zenon
<1>2. WhoType
  BY DEF ObfsType
<1>3. AtW' # "idle" => AtW # "idle"
  BY <1>1
<1> QED
  BY <1>1, <1>2, <1>3 DEF WhoType

\* What is written is positive, and says neither head nor finish.
LEMMA DataSays ==
  ASSUME NEW x \in Seq(Units) PROVE ~Says(x, Hello) /\ ~Says(x, Finish)
<1>1. \A i \in 1 .. Len(x) : x[i] # -1 /\ x[i] # -2
  BY PositiveLists DEF Units
<1> QED
  BY <1>1 DEF Says, Hello, Finish

\* What goes out.
LEMMA EmitSays ==
  ASSUME ObfsType, NEW x \in Seq(Int), Emit(x)
  PROVE  /\ sent' \in Seq(Int) /\ (cut => sent' = sent) /\ (~cut => sent' = sent \o x)
         /\ \A y : Says(sent', y) => Says(sent, y) \/ Says(x, y)
<1>1. sent \in Seq(Int)
  BY DEF ObfsType, SentType
<1>2. (cut => sent' = sent) /\ (~cut => sent' = sent \o x)
  BY Zenon DEF Emit
<1>3. sent' \in Seq(Int)
  <2>1. sent \o x \in Seq(Int)
    BY <1>1
  <2> QED
    BY <1>1, <1>2, <2>1, Zenon
<1>4. ASSUME NEW y, Says(sent', y) PROVE Says(sent, y) \/ Says(x, y)
  <2>1. CASE cut
    BY <1>2, <1>4, <2>1
  <2>2. CASE ~cut
    <3>1. Says(sent \o x, y)
      BY <1>2, <1>4, <2>2
    <3> QED
      BY <1>1, <3>1, SaysEither, Zenon
  <2> QED
    BY <2>1, <2>2
<1> QED
  BY <1>2, <1>3, <1>4

LEMMA WriteBeginIInv ==
  ASSUME ObfsIInv, WriteBegin PROVE ObfsIInv'
<1>1. /\ UNCHANGED readVars /\ obfs' = obfs /\ status' = status /\ sentHead' = sentHead /\ rawSent' = rawSent
      /\ parked' = parked /\ held' = held /\ sent' = sent /\ cut' = cut /\ pieces' = pieces /\ tokens' = tokens + 1
  BY Zenon DEF WriteBegin
<1>2. PICK p : p = IF Through THEN "send" ELSE IF obfs = "http" THEN "first" ELSE "park"
  OBVIOUS
<1>3. opc["writer"] = "idle" /\ Goto("writer", p) /\ oarg' = [oarg EXCEPT !["writer"] = <<tokens + 1>>]
  BY <1>2 DEF WriteBegin, Enter
<1>4. ~raced' => ~raced /\ AtR = "idle"
  <2>1. raced' = (raced \/ \E t \in Sides : opc[t] # "idle")
    BY Zenon DEF WriteBegin, Enter
  <2> QED
    BY <2>1, Zenon DEF AtR, Sides
<1>5. ObfsType /\ ObfsShape /\ ObfsWrite
  BY DEF ObfsIInv
<1>6. p \in {"send", "first", "park"} /\ p \in Places /\ "writer" \in Sides
  BY <1>2 DEF Places, Sides
<1>7. opc' \in [Sides -> Places] /\ AtW' = p /\ AtR' = AtR /\ AtW = "idle"
  BY <1>3, <1>5, <1>6, OneMoves
<1>8. tokens \in Nat /\ tokens' \in Nat /\ tokens' > 0 /\ <<tokens'>> \in Seq(Units) /\ oarg' = [oarg EXCEPT !["writer"] = <<tokens'>>]
  BY <1>1, <1>3, <1>5 DEF ObfsType, WhoType, Units
<1>9. oarg' \in [Sides -> Seq(Units)] /\ oarg'["reader"] = <<>> /\ oarg'["writer"] = <<tokens'>>
  <2>1. oarg \in [Sides -> Seq(Units)] /\ oarg["reader"] = <<>>
    BY <1>5 DEF ObfsType, WhoType
  <2> QED
    BY <1>8, <2>1 DEF Sides
<1>10. WhoType'
  BY <1>1, <1>5, <1>7, <1>8, <1>9 DEF ObfsType, WhoType
<1>11. SentType'
  BY <1>1, <1>5 DEF ObfsType, SentType
<1>12. ObfsType'
  <2>1. BackType'
    BY <1>1, <1>5 DEF ObfsType, BackType, readVars
  <2> QED
    BY <1>10, <1>11, <2>1 DEF ObfsType
<1>13. ObfsShape'
  <2>1. ShapeTls /\ ShapeRandom /\ ShapeHttp
    BY <1>5 DEF ObfsShape
  <2>2. obfs = "tls12" => p \in {"send", "park"} /\ (p = "send" => status = 8)
    BY <1>2 DEF Through
  <2>3. obfs = "random_head" => p \in {"send", "park"} /\ (p = "send" => rawSent)
    BY <1>2 DEF Through
  <2>4. obfs = "http" => p \in {"send", "first"}
    BY <1>2
  <2>5. ShapeTls'
    BY <1>1, <1>7, <2>1, <2>2 DEF ShapeTls
  <2>6. ShapeRandom'
    <3>1. recvHead' = recvHead
      BY <1>1 DEF readVars
    <3> QED
      BY <1>1, <1>7, <2>1, <2>3, <3>1 DEF ShapeRandom
  <2>7. ShapeHttp'
    BY <1>1, <1>7, <2>1, <2>4 DEF ShapeHttp
  <2> QED
    BY <2>5, <2>6, <2>7 DEF ObfsShape
<1>14. ASSUME ~raced' PROVE Alone'
  <2>1. ~raced /\ AtR = "idle"
    BY <1>4, <1>14, Zenon
  <2>2. Alone
    BY <1>5, <2>1, WriteSays, Zenon
  <2>3. obfs = "tls12" /\ status = 8 => p = "send"
    BY <1>2 DEF Through
  <2>4. obfs = "random_head" /\ rawSent => p = "send"
    BY <1>2 DEF Through
  <2> QED
    BY <1>1, <1>7, <2>1, <2>2, <2>3, <2>4 DEF Alone
<1>15. ASSUME ~raced', ~cut PROVE Waits'
  <2>1. ~raced /\ AtR = "idle"
    BY <1>4, <1>15, Zenon
  <2>2. PICK a \in Nat, b \in Nat, c \in Nat :
          Told(sent, a) /\ Spans(held, a, b) /\ Spans(StillParked, b, c) /\ Spans(Pending, c, tokens)
    BY <1>5, <1>15, <2>1, WaitsOpen, Zenon
  <2>3. StillParked' = StillParked /\ Pending = <<>> /\ Pending' = <<tokens'>>
    BY <1>1, <1>6, <1>7, <1>9, <2>1 DEF StillParked, Pending
  <2>4. c = tokens
    BY <1>8, <2>2, <2>3, SpansEmpty
  <2>5. Spans(Pending', c, tokens')
    BY <1>1, <2>3, <2>4, SpansNext
  <2> QED
    BY <1>1, <2>2, <2>3, <2>5, WaitsAt
<1>16. ObfsWrite'
  <2>1. ~raced' => ~raced
    BY <1>4, Zenon
  <2>2. (~raced' => Alone') /\ (~raced' /\ ~cut => Waits')
    BY <1>14, <1>15, Zenon
  <2> QED
    BY <1>1, <1>5, <1>12, <2>1, <2>2, WriteHolds
<1>17. HeadTaken' <=> HeadTaken
  <2>1. recvHead' = recvHead
    BY <1>1 DEF readVars
  <2> QED
    BY <1>1, <1>7, <2>1, Zenon DEF HeadTaken
<1> QED
  BY <1>1, <1>10, <1>11, <1>13, <1>16, <1>17, WriteStep, Zenon

LEMMA WriteSendIInv ==
  ASSUME ObfsIInv, NEW s \in Sides, WriteSend(s) PROVE ObfsIInv'
<1>1. /\ UNCHANGED readVars /\ obfs' = obfs /\ status' = status /\ sentHead' = sentHead /\ rawSent' = rawSent
      /\ parked' = parked /\ held' = held /\ oarg' = oarg /\ cut' = cut /\ pieces' = pieces /\ tokens' = tokens
      /\ raced' = raced /\ opc[s] = "send" /\ Emit(oarg[s]) /\ Goto(s, "idle")
  BY Zenon DEF WriteSend
<1>2. ObfsType /\ ObfsShape /\ ObfsWrite
  BY DEF ObfsIInv
<1>3. "idle" \in Places /\ status \in {0, 1, 8} /\ oarg[s] \in Seq(Units) /\ tokens \in Nat /\ oarg["reader"] = <<>>
  BY <1>2 DEF ObfsType, WhoType, Places
<1>4. \/ s = "writer" /\ AtW = "send" /\ AtW' = "idle" /\ AtR' = AtR
      \/ s = "reader" /\ AtR = "send" /\ AtR' = "idle" /\ AtW' = AtW
  BY <1>1, <1>2, <1>3, OneMoves
<1>5. WhoType'
  BY <1>1, <1>2, <1>3, SideGoes
<1>6. oarg[s] \in Seq(Int)
  BY <1>3, PositiveLists
<1>7. /\ sent' \in Seq(Int) /\ (cut => sent' = sent) /\ (~cut => sent' = sent \o oarg[s])
      /\ \A y : Says(sent', y) => Says(sent, y) \/ Says(oarg[s], y)
  BY <1>1, <1>2, <1>6, EmitSays
<1>8. SentType'
  BY <1>1, <1>2, <1>7 DEF ObfsType, SentType
<1>9. ObfsType'
  <2>1. BackType'
    BY <1>1, <1>2 DEF ObfsType, BackType, readVars
  <2> QED
    BY <1>5, <1>8, <2>1 DEF ObfsType
<1>10. ShapeTls /\ ShapeRandom /\ ShapeHttp
  BY <1>2 DEF ObfsShape
<1>11. ObfsShape'
  <2>1. (Says(sent', Hello) => Says(sent, Hello)) /\ (Says(sent', Finish) => Says(sent, Finish))
    BY <1>3, <1>7, DataSays
  <2>2. ShapeTls'
    BY <1>1, <1>4, <1>10, <2>1 DEF ShapeTls
  <2>3. ShapeRandom'
    <3>1. recvHead' = recvHead
      BY <1>1 DEF readVars
    <3>2. obfs = "random_head" => rawSent /\ recvHead
      BY <1>4, <1>10 DEF ShapeRandom
    <3> QED
      BY <1>1, <1>4, <1>10, <3>1, <3>2 DEF ShapeRandom
  <2>4. ShapeHttp'
    BY <1>1, <1>4, <1>10 DEF ShapeHttp
  <2> QED
    BY <2>2, <2>3, <2>4 DEF ObfsShape
<1>12. ASSUME ~raced PROVE Alone'
  <2>1. Alone
    BY <1>2, <1>12, WriteSays, Zenon
  <2> QED
    BY <1>1, <1>4, <2>1 DEF Alone
<1>13. ASSUME ~raced, ~cut PROVE Waits'
  <2>1. Alone
    BY <1>2, <1>13, WriteSays, Zenon
  <2>2. PICK a \in Nat, b \in Nat, c \in Nat :
          Told(sent, a) /\ Spans(held, a, b) /\ Spans(StillParked, b, c) /\ Spans(Pending, c, tokens)
    BY <1>2, <1>13, WaitsOpen, Zenon
  <2>3. CASE s = "writer"
    <3>1. AtW = "send" /\ AtR \in {"idle", "enter"} /\ held = <<>>
      BY <1>4, <2>1, <2>3 DEF Alone
    <3>2. parked = <<>>
      BY <1>2, <1>10, <2>1, <3>1 DEF Alone, ShapeTls, ShapeRandom, ShapeHttp, ObfsType, WhoType
    <3>3. StillParked = <<>> /\ StillParked' = <<>> /\ held' = <<>> /\ Pending = oarg[s] /\ Pending' = <<>>
      BY <1>1, <1>4, <2>3, <3>1, <3>2 DEF StillParked, Pending
    <3>4. a = b /\ b = c
      BY <2>2, <3>1, <3>3, SpansEmpty
    <3>5. Told(sent, c) /\ Spans(oarg[s], c, tokens) /\ sent' = sent \o oarg[s]
      BY <1>7, <1>13, <2>2, <3>3, <3>4
    <3>6. Told(sent', tokens)
      BY <1>3, <1>6, <3>5, ToldMore, Zenon
    <3>7. Spans(held', tokens, tokens) /\ Spans(StillParked', tokens, tokens) /\ Spans(Pending', tokens, tokens')
      BY <1>1, <1>3, <3>3, SpansNone
    <3> QED
      BY <1>3, <3>6, <3>7, WaitsAt
  <2>4. CASE s = "reader"
    <3>1. AtR = "send" /\ AtR' = "idle" /\ AtW' = "idle" /\ AtW = "idle"
      BY <1>4, <2>1, <2>4 DEF Alone
    <3>2. StillParked' = StillParked /\ Pending' = Pending
      BY <1>1, <3>1 DEF StillParked, Pending
    <3>3. sent' = sent
      <4>1. sent \o <<>> = sent
        BY <1>2 DEF ObfsType, SentType
      <4> QED
        BY <1>3, <1>7, <1>13, <2>4, <4>1
    <3> QED
      BY <1>1, <2>2, <3>2, <3>3, WaitsAt
  <2> QED
    BY <1>4, <2>3, <2>4
<1>14. ObfsWrite'
  <2>1. ~raced' => ~raced
    BY <1>1, Zenon
  <2>2. (~raced' => Alone') /\ (~raced' /\ ~cut => Waits')
    BY <1>1, <1>12, <1>13, Zenon
  <2> QED
    BY <1>1, <1>2, <1>7, <1>9, <2>1, <2>2, WriteHolds
<1>15. HeadTaken' <=> HeadTaken
  <2>1. recvHead' = recvHead
    BY <1>1 DEF readVars
  <2>2. obfs = "tls12" => AtR' = AtR
    BY <1>4, <1>10 DEF ShapeTls
  <2> QED
    BY <1>1, <2>1, <2>2, Zenon DEF HeadTaken
<1> QED
  BY <1>1, <1>5, <1>8, <1>11, <1>14, <1>15, WriteStep, Zenon

LEMMA WriteFirstIInv ==
  ASSUME ObfsIInv, NEW s \in Sides, WriteFirst(s) PROVE ObfsIInv'
<1>1. /\ UNCHANGED readVars /\ obfs' = obfs /\ status' = status /\ rawSent' = rawSent
      /\ parked' = parked /\ held' = held /\ oarg' = oarg /\ cut' = cut /\ pieces' = pieces /\ tokens' = tokens
      /\ raced' = raced /\ opc[s] = "first" /\ Emit(<<Hello>> \o oarg[s]) /\ Goto(s, "idle")
  BY Zenon DEF WriteFirst
<1>2. ObfsType /\ ObfsShape /\ ObfsWrite
  BY DEF ObfsIInv
<1>3. "idle" \in Places /\ status \in {0, 1, 8} /\ oarg[s] \in Seq(Units) /\ tokens \in Nat
  BY <1>2 DEF ObfsType, WhoType, Places
<1>10. ShapeTls /\ ShapeRandom /\ ShapeHttp
  BY <1>2 DEF ObfsShape
<1>4. s = "writer" /\ AtW = "first" /\ AtW' = "idle" /\ AtR' = AtR /\ obfs = "http"
  <2>1. \/ s = "writer" /\ AtW = "first" /\ AtW' = "idle" /\ AtR' = AtR
        \/ s = "reader" /\ AtR = "first" /\ AtR' = "idle" /\ AtW' = AtW
    BY <1>1, <1>2, <1>3, OneMoves
  <2>2. AtW = "first" \/ AtR = "first" => obfs = "http" /\ AtR # "first"
    BY <1>2, <1>10 DEF ObfsType, WhoType, ShapeTls, ShapeRandom, ShapeHttp
  <2> QED
    BY <2>1, <2>2
<1>5. WhoType'
  BY <1>1, <1>2, <1>3, SideGoes
<1>a. PICK e : e = <<Hello>>
  OBVIOUS
<1>b. e \in Seq(Int) /\ Hello \in Int /\ Hello < 0
  BY <1>a DEF Hello
<1>6. oarg[s] \in Seq(Int) /\ e \o oarg[s] \in Seq(Int) /\ Emit(e \o oarg[s])
  <2>1. oarg[s] \in Seq(Int)
    BY <1>3, PositiveLists
  <2>2. e \o oarg[s] \in Seq(Int)
    BY <1>b, <2>1
  <2> QED
    BY <1>1, <1>a, <2>1, <2>2
<1>7. sent' \in Seq(Int) /\ (cut => sent' = sent) /\ (~cut => sent' = sent \o (e \o oarg[s]))
  BY <1>2, <1>6, EmitSays, Zenon
<1>8. SentType'
  BY <1>1, <1>2, <1>7 DEF ObfsType, SentType
<1>9. ObfsType'
  <2>1. BackType'
    BY <1>1, <1>2 DEF ObfsType, BackType, readVars
  <2> QED
    BY <1>5, <1>8, <2>1 DEF ObfsType
<1>11. ObfsShape'
  <2>1. ShapeTls' /\ ShapeRandom'
    BY <1>1, <1>4 DEF ShapeTls, ShapeRandom
  <2>2. ShapeHttp'
    BY <1>1, <1>4, <1>10 DEF ShapeHttp
  <2> QED
    BY <2>1, <2>2 DEF ObfsShape
<1>12. ASSUME ~raced PROVE Alone'
  <2>1. Alone
    BY <1>2, <1>12, WriteSays, Zenon
  <2> QED
    BY <1>1, <1>4, <2>1 DEF Alone
<1>13. ASSUME ~raced, ~cut PROVE Waits'
  <2>1. PICK a \in Nat, b \in Nat, c \in Nat :
          Told(sent, a) /\ Spans(held, a, b) /\ Spans(StillParked, b, c) /\ Spans(Pending, c, tokens)
    BY <1>2, <1>13, WaitsOpen, Zenon
  <2>2. held = <<>> /\ parked = <<>> /\ AtR = "idle"
    BY <1>4, <1>10 DEF ShapeHttp
  <2>3. StillParked = <<>> /\ StillParked' = <<>> /\ held' = <<>> /\ Pending = oarg[s] /\ Pending' = <<>>
    BY <1>1, <1>4, <2>2 DEF StillParked, Pending
  <2>4. a = b /\ b = c
    BY <2>1, <2>2, <2>3, SpansEmpty
  <2>5. Told(sent, c) /\ Spans(oarg[s], c, tokens) /\ sent' = sent \o (e \o oarg[s])
    BY <1>7, <1>13, <2>1, <2>3, <2>4
  <2>6. PICK r : r = sent \o e
    OBVIOUS
  <2>7. sent' = r \o oarg[s]
    <3>1. sent \in Seq(Int)
      BY <1>2 DEF ObfsType, SentType
    <3> QED
      BY <1>6, <1>b, <2>5, <2>6, <3>1, JoinThree, Zenon
  <2>8. Told(r, c)
    BY <1>a, <1>b, <2>5, <2>6, ToldHead, Zenon
  <2>9. Told(sent', tokens)
    BY <1>3, <1>6, <2>5, <2>7, <2>8, ToldMore, Zenon
  <2>10. Spans(held', tokens, tokens) /\ Spans(StillParked', tokens, tokens) /\ Spans(Pending', tokens, tokens')
    BY <1>1, <1>3, <2>3, SpansNone
  <2> QED
    BY <1>3, <2>9, <2>10, WaitsAt
<1>14. ObfsWrite'
  <2>1. ~raced' => ~raced
    BY <1>1, Zenon
  <2>2. (~raced' => Alone') /\ (~raced' /\ ~cut => Waits')
    BY <1>1, <1>12, <1>13, Zenon
  <2> QED
    BY <1>1, <1>2, <1>7, <1>9, <2>1, <2>2, WriteHolds
<1>15. HeadTaken' <=> HeadTaken
  <2>1. recvHead' = recvHead
    BY <1>1 DEF readVars
  <2> QED
    BY <1>1, <1>4, <2>1, Zenon DEF HeadTaken
<1> QED
  BY <1>1, <1>5, <1>8, <1>11, <1>14, <1>15, WriteStep, Zenon

LEMMA WriteParkIInv ==
  ASSUME ObfsIInv, NEW s \in Sides, WritePark(s) PROVE ObfsIInv'
<1>1. /\ UNCHANGED readVars /\ obfs' = obfs /\ status' = status /\ sentHead' = sentHead /\ rawSent' = rawSent
      /\ held' = held /\ oarg' = oarg /\ cut' = cut /\ pieces' = pieces /\ tokens' = tokens /\ sent' = sent
      /\ raced' = raced /\ opc[s] = "park" /\ parked' = parked \o oarg[s] /\ Goto(s, "after")
  BY Zenon DEF WritePark
<1>2. ObfsType /\ ObfsShape /\ ObfsWrite
  BY DEF ObfsIInv
<1>3. "after" \in Places /\ status \in {0, 1, 8} /\ oarg[s] \in Seq(Units) /\ tokens \in Nat /\ oarg["reader"] = <<>>
  BY <1>2 DEF ObfsType, WhoType, Places
<1>4. \/ s = "writer" /\ AtW = "park" /\ AtW' = "after" /\ AtR' = AtR
      \/ s = "reader" /\ AtR = "park" /\ AtR' = "after" /\ AtW' = AtW
  BY <1>1, <1>2, <1>3, OneMoves
<1>5. WhoType'
  BY <1>1, <1>2, <1>3, SideGoes
<1>6. parked \in Seq(Units) /\ parked \in Seq(Int) /\ oarg[s] \in Seq(Int)
  <2>1. parked \in Seq(Units)
    BY <1>2 DEF ObfsType, SentType
  <2> QED
    BY <1>3, <2>1, PositiveLists
<1>7. parked' \in Seq(Units)
  BY <1>1, <1>3, <1>6
<1>8. SentType'
  BY <1>1, <1>2, <1>7 DEF ObfsType, SentType
<1>9. ObfsType'
  <2>1. BackType'
    BY <1>1, <1>2 DEF ObfsType, BackType, readVars
  <2> QED
    BY <1>5, <1>8, <2>1 DEF ObfsType
<1>10. ShapeTls /\ ShapeRandom /\ ShapeHttp
  BY <1>2 DEF ObfsShape
<1>11. ObfsShape'
  <2>1. ShapeTls'
    BY <1>1, <1>4, <1>10 DEF ShapeTls
  <2>2. ShapeRandom'
    <3>1. recvHead' = recvHead
      BY <1>1 DEF readVars
    <3> QED
      BY <1>1, <1>4, <1>10, <3>1 DEF ShapeRandom
  <2>3. ShapeHttp'
    BY <1>1, <1>4, <1>10 DEF ShapeHttp
  <2> QED
    BY <2>1, <2>2, <2>3 DEF ObfsShape
<1>a. s = "reader" => parked' = parked
  <2>1. parked \o <<>> = parked
    BY <1>6
  <2> QED
    BY <1>1, <1>3, <2>1
<1>12. ASSUME ~raced PROVE Alone'
  <2>1. Alone
    BY <1>2, <1>12, WriteSays, Zenon
  <2>2. CASE s = "writer"
    BY <1>1, <1>4, <2>1, <2>2 DEF Alone
  <2>3. CASE s = "reader"
    BY <1>1, <1>4, <1>a, <2>1, <2>3 DEF Alone
  <2> QED
    BY <1>4, <2>2, <2>3
<1>13. ASSUME ~raced, ~cut PROVE Waits'
  <2>1. Alone
    BY <1>2, <1>13, WriteSays, Zenon
  <2>2. PICK a \in Nat, b \in Nat, c \in Nat :
          Told(sent, a) /\ Spans(held, a, b) /\ Spans(StillParked, b, c) /\ Spans(Pending, c, tokens)
    BY <1>2, <1>13, WaitsOpen, Zenon
  <2>3. CASE s = "writer"
    <3>1. AtW = "park" /\ AtW' = "after" /\ AtR \in {"idle", "enter"} /\ AtR' = AtR
      BY <1>4, <2>1, <2>3 DEF Alone
    <3>2. StillParked = parked /\ StillParked' = parked' /\ Pending = oarg[s] /\ Pending' = <<>>
      BY <2>3, <3>1 DEF StillParked, Pending
    <3>3. Spans(parked, b, c) /\ Spans(oarg[s], c, tokens)
      BY <2>2, <3>2
    <3>4. Spans(parked', b, tokens)
      BY <1>1, <1>3, <1>6, <3>3, SpansJoin, Zenon
    <3>5. Spans(StillParked', b, tokens) /\ Spans(Pending', tokens, tokens')
      BY <1>1, <1>3, <3>2, <3>4, SpansNone
    <3> QED
      BY <1>1, <1>3, <2>2, <3>5, WaitsAt
  <2>4. CASE s = "reader"
    <3>1. AtR = "park" /\ AtR' = "after" /\ AtW' = "idle" /\ AtW = "idle"
      BY <1>4, <2>1, <2>4 DEF Alone
    <3>2. StillParked' = StillParked /\ Pending' = Pending
      BY <1>1, <1>a, <2>4, <3>1 DEF StillParked, Pending
    <3> QED
      BY <1>1, <2>2, <3>2, WaitsAt
  <2> QED
    BY <1>4, <2>3, <2>4
<1>14. ObfsWrite'
  <2>1. ~raced' => ~raced
    BY <1>1, Zenon
  <2>2. (~raced' => Alone') /\ (~raced' /\ ~cut => Waits')
    BY <1>1, <1>12, <1>13, Zenon
  <2> QED
    BY <1>1, <1>2, <1>9, <2>1, <2>2, WriteHolds
<1>15. HeadTaken' <=> HeadTaken
  <2>1. recvHead' = recvHead
    BY <1>1 DEF readVars
  <2>2. obfs = "tls12" => (AtR' # "idle" <=> AtR # "idle")
    BY <1>4
  <2> QED
    BY <1>1, <2>1, <2>2, Zenon DEF HeadTaken
<1> QED
  BY <1>1, <1>5, <1>8, <1>11, <1>14, <1>15, WriteStep, Zenon

LEMMA WriteHeadIInv ==
  ASSUME ObfsIInv, NEW s \in Sides, WriteHead(s) PROVE ObfsIInv'
<1>1. /\ UNCHANGED readVars /\ obfs' = obfs /\ rawSent' = rawSent
      /\ parked' = parked /\ held' = held /\ oarg' = oarg /\ cut' = cut /\ pieces' = pieces /\ tokens' = tokens
      /\ raced' = raced /\ opc[s] = "after" /\ Emit(<<Hello>>) /\ Goto(s, "idle")
      /\ \/ obfs = "tls12" /\ status = 0 /\ status' = 1
         \/ obfs = "random_head" /\ status' = status
  BY Zenon DEF WriteHead
<1>2. ObfsType /\ ObfsShape /\ ObfsWrite
  BY DEF ObfsIInv
<1>3. "idle" \in Places /\ status' \in {0, 1, 8} /\ tokens \in Nat /\ "after" # "idle"
  BY <1>1, <1>2 DEF ObfsType, WhoType, Places
<1>4. \/ s = "writer" /\ AtW = "after" /\ AtW' = "idle" /\ AtR' = AtR
      \/ s = "reader" /\ AtR = "after" /\ AtR' = "idle" /\ AtW' = AtW
  BY <1>1, <1>2, <1>3, OneMoves
<1>5. WhoType'
  BY <1>1, <1>2, <1>3, SideGoes
<1>a. PICK e : e = <<Hello>>
  OBVIOUS
<1>b. e \in Seq(Int) /\ Hello \in Int /\ Hello < 0 /\ Emit(e) /\ \A y : Says(e, y) => y = Hello
  BY <1>1, <1>a DEF Hello, Says
<1>7. /\ sent' \in Seq(Int) /\ (cut => sent' = sent) /\ (~cut => sent' = sent \o e)
      /\ \A y : Says(sent', y) => Says(sent, y) \/ y = Hello
  BY <1>2, <1>b, EmitSays
<1>8. SentType'
  BY <1>1, <1>2, <1>7 DEF ObfsType, SentType
<1>9. ObfsType'
  <2>1. BackType'
    BY <1>1, <1>2 DEF ObfsType, BackType, readVars
  <2> QED
    BY <1>5, <1>8, <2>1 DEF ObfsType
<1>10. ShapeTls /\ ShapeRandom /\ ShapeHttp
  BY <1>2 DEF ObfsShape
<1>11. ObfsShape'
  <2>1. Says(sent', Finish) => Says(sent, Finish)
    BY <1>7 DEF Hello, Finish
  <2>2. ShapeTls'
    BY <1>1, <1>4, <1>10, <2>1 DEF ShapeTls
  <2>3. ShapeRandom'
    <3>1. recvHead' = recvHead
      BY <1>1 DEF readVars
    <3>2. \A t \in Units : Says(sent', t) => Says(sent, t)
      BY <1>7 DEF Hello, Units
    <3> QED
      BY <1>1, <1>4, <1>10, <3>1, <3>2 DEF ShapeRandom
  <2>4. ShapeHttp'
    BY <1>1 DEF ShapeHttp
  <2> QED
    BY <2>2, <2>3, <2>4 DEF ObfsShape
<1>12. ASSUME ~raced PROVE Alone'
  <2>1. Alone
    BY <1>2, <1>12, WriteSays, Zenon
  <2> QED
    BY <1>1, <1>4, <2>1 DEF Alone
<1>13. ASSUME ~raced, ~cut PROVE Waits'
  <2>1. Alone
    BY <1>2, <1>13, WriteSays, Zenon
  <2>2. PICK a \in Nat, b \in Nat, c \in Nat :
          Told(sent, a) /\ Spans(held, a, b) /\ Spans(StillParked, b, c) /\ Spans(Pending, c, tokens)
    BY <1>2, <1>13, WaitsOpen, Zenon
  <2>3. AtW \in {"after", "idle"} /\ AtW' = "idle" /\ AtR # "clear" /\ AtR' # "clear"
    BY <1>4, <2>1 DEF Alone
  <2>4. StillParked' = StillParked /\ Pending' = Pending
    BY <1>1, <2>3 DEF StillParked, Pending
  <2>5. Told(sent', a)
    <3>1. sent' = sent \o <<Hello>>
      BY <1>7, <1>13, <1>a
    <3> QED
      BY <1>b, <2>2, <3>1, ToldHead, Zenon
  <2> QED
    BY <1>1, <2>2, <2>4, <2>5, WaitsAt
<1>14. ObfsWrite'
  <2>1. ~raced' => ~raced
    BY <1>1, Zenon
  <2>2. (~raced' => Alone') /\ (~raced' /\ ~cut => Waits')
    BY <1>1, <1>12, <1>13, Zenon
  <2> QED
    BY <1>1, <1>2, <1>7, <1>9, <2>1, <2>2, WriteHolds
<1>15. HeadTaken' <=> HeadTaken
  <2>1. recvHead' = recvHead
    BY <1>1 DEF readVars
  <2>2. obfs = "tls12" => status # 8 /\ status' # 8 /\ AtR' = AtR
    BY <1>1, <1>4, <1>10 DEF ShapeTls
  <2> QED
    BY <1>1, <2>1, <2>2, Zenon DEF HeadTaken
<1> QED
  BY <1>1, <1>5, <1>8, <1>11, <1>14, <1>15, WriteStep, Zenon

LEMMA WriteLaterIInv ==
  ASSUME ObfsIInv, NEW s \in Sides, WriteLater(s) PROVE ObfsIInv'
<1>1. /\ UNCHANGED readVars /\ obfs' = obfs /\ status' = status /\ sentHead' = sentHead /\ rawSent' = rawSent
      /\ parked' = parked /\ held' = held /\ oarg' = oarg /\ cut' = cut /\ pieces' = pieces /\ tokens' = tokens
      /\ sent' = sent /\ raced' = raced /\ opc[s] = "after" /\ Goto(s, "idle")
      /\ \/ obfs = "tls12" /\ status # 0 /\ ~(status = 1 /\ oarg[s] = <<>>)
         \/ obfs = "random_head"
  BY Zenon DEF WriteLater
<1>2. ObfsType /\ ObfsShape /\ ObfsWrite
  BY DEF ObfsIInv
<1>3. "idle" \in Places /\ status \in {0, 1, 8} /\ tokens \in Nat /\ oarg["reader"] = <<>>
  BY <1>2 DEF ObfsType, WhoType, Places
<1>4. \/ s = "writer" /\ AtW = "after" /\ AtW' = "idle" /\ AtR' = AtR
      \/ s = "reader" /\ AtR = "after" /\ AtR' = "idle" /\ AtW' = AtW
  BY <1>1, <1>2, <1>3, OneMoves
<1>5. WhoType'
  BY <1>1, <1>2, <1>3, SideGoes
<1>8. SentType'
  BY <1>1, <1>2 DEF ObfsType, SentType
<1>9. ObfsType'
  <2>1. BackType'
    BY <1>1, <1>2 DEF ObfsType, BackType, readVars
  <2> QED
    BY <1>5, <1>8, <2>1 DEF ObfsType
<1>10. ShapeTls /\ ShapeRandom /\ ShapeHttp
  BY <1>2 DEF ObfsShape
<1>11. ObfsShape'
  <2>2. ShapeTls'
    BY <1>1, <1>4, <1>10 DEF ShapeTls
  <2>3. ShapeRandom'
    <3>1. recvHead' = recvHead
      BY <1>1 DEF readVars
    <3> QED
      BY <1>1, <1>4, <1>10, <3>1 DEF ShapeRandom
  <2>4. ShapeHttp'
    BY <1>1, <1>4, <1>10 DEF ShapeHttp
  <2> QED
    BY <2>2, <2>3, <2>4 DEF ObfsShape
<1>12. ASSUME ~raced PROVE Alone'
  <2>1. Alone
    BY <1>2, <1>12, WriteSays, Zenon
  <2> QED
    BY <1>1, <1>4, <2>1 DEF Alone
<1>13. ASSUME ~raced, ~cut PROVE Waits'
  <2>1. Alone
    BY <1>2, <1>13, WriteSays, Zenon
  <2>2. PICK a \in Nat, b \in Nat, c \in Nat :
          Told(sent, a) /\ Spans(held, a, b) /\ Spans(StillParked, b, c) /\ Spans(Pending, c, tokens)
    BY <1>2, <1>13, WaitsOpen, Zenon
  <2>3. AtW \in {"after", "idle"} /\ AtW' = "idle" /\ AtR # "clear" /\ AtR' # "clear"
    BY <1>4, <2>1 DEF Alone
  <2>4. StillParked' = StillParked /\ Pending' = Pending
    BY <1>1, <2>3 DEF StillParked, Pending
  <2> QED
    BY <1>1, <2>2, <2>4, WaitsAt
<1>14. ObfsWrite'
  <2>1. ~raced' => ~raced
    BY <1>1, Zenon
  <2>2. (~raced' => Alone') /\ (~raced' /\ ~cut => Waits')
    BY <1>1, <1>12, <1>13, Zenon
  <2> QED
    BY <1>1, <1>2, <1>9, <2>1, <2>2, WriteHolds
<1>15. HeadTaken' <=> HeadTaken
  <2>1. recvHead' = recvHead
    BY <1>1 DEF readVars
  <2>2. obfs = "tls12" => status = 8 \/ AtR' = AtR
    BY <1>1, <1>3, <1>4
  <2> QED
    BY <1>1, <2>1, <2>2, Zenon DEF HeadTaken
<1> QED
  BY <1>1, <1>5, <1>8, <1>11, <1>14, <1>15, WriteStep, Zenon

LEMMA TakeParkedIInv ==
  ASSUME ObfsIInv, NEW s \in Sides, TakeParked(s) PROVE ObfsIInv'
<1>1. /\ UNCHANGED readVars /\ obfs' = obfs /\ sentHead' = sentHead /\ rawSent' = rawSent
      /\ oarg' = oarg /\ cut' = cut /\ pieces' = pieces /\ tokens' = tokens
      /\ sent' = sent /\ raced' = raced /\ opc[s] = "after" /\ Goto(s, "finish") /\ oarg[s] = <<>>
      /\ obfs = "tls12" /\ status = 1 /\ status' = 8 /\ held' = parked /\ parked' = <<>>
  BY Zenon DEF TakeParked
<1>2. ObfsType /\ ObfsShape /\ ObfsWrite
  BY DEF ObfsIInv
<1>3. "finish" \in Places /\ status' \in {0, 1, 8} /\ tokens \in Nat
  BY <1>1, <1>2 DEF ObfsType, WhoType, Places
<1>4. s = "reader" /\ AtR = "after" /\ AtR' = "finish" /\ AtW' = AtW
  <2>1. \/ s = "writer" /\ AtW = "after" /\ AtW' = "finish" /\ AtR' = AtR
        \/ s = "reader" /\ AtR = "after" /\ AtR' = "finish" /\ AtW' = AtW
    BY <1>1, <1>2, <1>3, OneMoves
  <2>2. AtW = "after" => oarg["writer"] # <<>>
    <3>1. <<tokens>> # <<>>
      OBVIOUS
    <3> QED
      BY <1>2, <3>1 DEF ObfsType, WhoType
  <2> QED
    BY <1>1, <2>1, <2>2
<1>5. WhoType'
  BY <1>1, <1>2, <1>3, SideGoes
<1>8. SentType'
  <2>1. <<>> \in Seq(Units)
    OBVIOUS
  <2> QED
    BY <1>1, <1>2, <2>1 DEF ObfsType, SentType
<1>9. ObfsType'
  <2>1. BackType'
    BY <1>1, <1>2 DEF ObfsType, BackType, readVars
  <2> QED
    BY <1>5, <1>8, <2>1 DEF ObfsType
<1>10. ShapeTls /\ ShapeRandom /\ ShapeHttp
  BY <1>2 DEF ObfsShape
<1>11. ObfsShape'
  <2>2. ShapeTls'
    BY <1>1, <1>4, <1>10 DEF ShapeTls
  <2>3. ShapeRandom' /\ ShapeHttp'
    BY <1>1 DEF ShapeRandom, ShapeHttp
  <2> QED
    BY <2>2, <2>3 DEF ObfsShape
<1>b. ASSUME ~raced PROVE Alone /\ AtW = "idle" /\ AtW' = "idle" /\ held = <<>>
  <2>1. Alone
    BY <1>2, <1>b, WriteSays, Zenon
  <2> QED
    BY <1>4, <2>1 DEF Alone
<1>12. ASSUME ~raced PROVE Alone'
  BY <1>1, <1>4, <1>b, <1>12 DEF Alone
<1>13. ASSUME ~raced, ~cut PROVE Waits'
  <2>1. AtW = "idle" /\ AtW' = "idle" /\ held = <<>>
    BY <1>b, <1>13
  <2>2. PICK a \in Nat, b \in Nat, c \in Nat :
          Told(sent, a) /\ Spans(held, a, b) /\ Spans(StillParked, b, c) /\ Spans(Pending, c, tokens)
    BY <1>2, <1>13, WaitsOpen, Zenon
  <2>3. StillParked = parked /\ StillParked' = <<>> /\ Pending' = Pending
    BY <1>1, <1>4, <2>1 DEF StillParked, Pending
  <2>4. a = b
    BY <2>1, <2>2, SpansEmpty
  <2>5. Spans(held', a, c) /\ Spans(StillParked', c, c) /\ Spans(Pending', c, tokens')
    BY <1>1, <2>2, <2>3, <2>4, SpansNone
  <2> QED
    BY <1>1, <2>2, <2>5, WaitsAt
<1>14. ObfsWrite'
  <2>1. ~raced' => ~raced
    BY <1>1, Zenon
  <2>2. (~raced' => Alone') /\ (~raced' /\ ~cut => Waits')
    BY <1>1, <1>12, <1>13, Zenon
  <2> QED
    BY <1>1, <1>2, <1>9, <2>1, <2>2, WriteHolds
<1>15. HeadTaken' <=> HeadTaken
  BY <1>1, <1>4 DEF HeadTaken
<1> QED
  BY <1>1, <1>5, <1>8, <1>11, <1>14, <1>15, WriteStep, Zenon

LEMMA WriteFinishIInv ==
  ASSUME ObfsIInv, NEW s \in Sides, WriteFinish(s) PROVE ObfsIInv'
<1>1. /\ UNCHANGED readVars /\ obfs' = obfs /\ status' = status /\ sentHead' = sentHead /\ rawSent' = rawSent
      /\ parked' = parked /\ held' = <<>> /\ oarg' = oarg /\ cut' = cut /\ pieces' = pieces /\ tokens' = tokens
      /\ raced' = raced /\ opc[s] = "finish" /\ Emit(<<Finish>> \o held) /\ Goto(s, "idle")
  BY Zenon DEF WriteFinish
<1>2. ObfsType /\ ObfsShape /\ ObfsWrite
  BY DEF ObfsIInv
<1>3. "idle" \in Places /\ status \in {0, 1, 8} /\ held \in Seq(Units) /\ tokens \in Nat
  BY <1>2 DEF ObfsType, WhoType, SentType, Places
<1>10. ShapeTls /\ ShapeRandom /\ ShapeHttp
  BY <1>2 DEF ObfsShape
<1>4. s = "reader" /\ AtR = "finish" /\ AtR' = "idle" /\ AtW' = AtW /\ obfs = "tls12" /\ status = 8
  <2>1. \/ s = "writer" /\ AtW = "finish" /\ AtW' = "idle" /\ AtR' = AtR
        \/ s = "reader" /\ AtR = "finish" /\ AtR' = "idle" /\ AtW' = AtW
    BY <1>1, <1>2, <1>3, OneMoves
  <2>2. AtW = "finish" \/ AtR = "finish" => obfs = "tls12" /\ AtW # "finish" /\ status = 8
    BY <1>2, <1>10 DEF ObfsType, WhoType, ShapeTls, ShapeRandom, ShapeHttp
  <2> QED
    BY <2>1, <2>2
<1>5. WhoType'
  BY <1>1, <1>2, <1>3, SideGoes
<1>a. PICK e : e = <<Finish>>
  OBVIOUS
<1>b. e \in Seq(Int) /\ Finish \in Int /\ Finish < 0
  BY <1>a DEF Finish
<1>6. held \in Seq(Int) /\ e \o held \in Seq(Int) /\ Emit(e \o held)
  <2>1. held \in Seq(Int)
    BY <1>3, PositiveLists
  <2>2. e \o held \in Seq(Int)
    BY <1>b, <2>1
  <2> QED
    BY <1>1, <1>a, <2>1, <2>2
<1>7. sent' \in Seq(Int) /\ (cut => sent' = sent) /\ (~cut => sent' = sent \o (e \o held))
  BY <1>2, <1>6, EmitSays, Zenon
<1>8. SentType'
  <2>1. <<>> \in Seq(Units)
    OBVIOUS
  <2> QED
    BY <1>1, <1>2, <1>7, <2>1 DEF ObfsType, SentType
<1>9. ObfsType'
  <2>1. BackType'
    BY <1>1, <1>2 DEF ObfsType, BackType, readVars
  <2> QED
    BY <1>5, <1>8, <2>1 DEF ObfsType
<1>11. ObfsShape'
  <2>1. ShapeTls'
    BY <1>1, <1>4, <1>10 DEF ShapeTls
  <2>2. ShapeRandom' /\ ShapeHttp'
    BY <1>1, <1>4 DEF ShapeRandom, ShapeHttp
  <2> QED
    BY <2>1, <2>2 DEF ObfsShape
<1>c. ASSUME ~raced PROVE Alone /\ AtW = "idle" /\ AtW' = "idle"
  <2>1. Alone
    BY <1>2, <1>c, WriteSays, Zenon
  <2> QED
    BY <1>4, <2>1 DEF Alone
<1>12. ASSUME ~raced PROVE Alone'
  BY <1>1, <1>4, <1>c, <1>12 DEF Alone
<1>13. ASSUME ~raced, ~cut PROVE Waits'
  <2>1. PICK a \in Nat, b \in Nat, c \in Nat :
          Told(sent, a) /\ Spans(held, a, b) /\ Spans(StillParked, b, c) /\ Spans(Pending, c, tokens)
    BY <1>2, <1>13, WaitsOpen, Zenon
  <2>2. AtW = "idle" /\ AtW' = "idle"
    BY <1>c, <1>13
  <2>3. StillParked' = StillParked /\ Pending' = Pending
    BY <1>1, <1>4, <2>2 DEF StillParked, Pending
  <2>4. sent' = sent \o (e \o held)
    BY <1>7, <1>13
  <2>5. PICK r : r = sent \o e
    OBVIOUS
  <2>6. sent' = r \o held
    <3>1. sent \in Seq(Int)
      BY <1>2 DEF ObfsType, SentType
    <3> QED
      BY <1>6, <1>b, <2>4, <2>5, <3>1, JoinThree, Zenon
  <2>7. Told(r, a)
    BY <1>a, <1>b, <2>1, <2>5, ToldHead, Zenon
  <2>8. Told(sent', b)
    BY <1>6, <2>1, <2>6, <2>7, ToldMore, Zenon
  <2>9. Spans(held', b, b)
    BY <1>1, SpansNone
  <2> QED
    BY <1>1, <2>1, <2>3, <2>8, <2>9, WaitsAt
<1>14. ObfsWrite'
  <2>1. ~raced' => ~raced
    BY <1>1, Zenon
  <2>2. (~raced' => Alone') /\ (~raced' /\ ~cut => Waits')
    BY <1>1, <1>12, <1>13, Zenon
  <2> QED
    BY <1>1, <1>2, <1>7, <1>9, <2>1, <2>2, WriteHolds
<1>15. HeadTaken' <=> HeadTaken
  BY <1>1, <1>4 DEF HeadTaken
<1> QED
  BY <1>1, <1>5, <1>8, <1>11, <1>14, <1>15, WriteStep, Zenon

LEMMA WriteFlushIInv ==
  ASSUME ObfsIInv, NEW s \in Sides, WriteFlush(s) PROVE ObfsIInv'
<1>1. /\ UNCHANGED readVars /\ obfs' = obfs /\ status' = status /\ sentHead' = sentHead /\ rawSent' = rawSent
      /\ parked' = parked /\ held' = held /\ oarg' = oarg /\ cut' = cut /\ pieces' = pieces /\ tokens' = tokens
      /\ raced' = raced /\ opc[s] = "after" /\ Emit(parked) /\ Goto(s, "clear") /\ obfs = "random_head" /\ recvHead
  BY Zenon DEF WriteFlush
<1>2. ObfsType /\ ObfsShape /\ ObfsWrite
  BY DEF ObfsIInv
<1>3. "clear" \in Places /\ status \in {0, 1, 8} /\ parked \in Seq(Units) /\ tokens \in Nat
  BY <1>2 DEF ObfsType, WhoType, SentType, Places
<1>4. \/ s = "writer" /\ AtW = "after" /\ AtW' = "clear" /\ AtR' = AtR
      \/ s = "reader" /\ AtR = "after" /\ AtR' = "clear" /\ AtW' = AtW
  BY <1>1, <1>2, <1>3, OneMoves
<1>5. WhoType'
  BY <1>1, <1>2, <1>3, SideGoes
<1>6. parked \in Seq(Int)
  BY <1>3, PositiveLists
<1>7. sent' \in Seq(Int) /\ (cut => sent' = sent) /\ (~cut => sent' = sent \o parked)
  BY <1>1, <1>2, <1>6, EmitSays, Zenon
<1>8. SentType'
  BY <1>1, <1>2, <1>7 DEF ObfsType, SentType
<1>9. ObfsType'
  <2>1. BackType'
    BY <1>1, <1>2 DEF ObfsType, BackType, readVars
  <2> QED
    BY <1>5, <1>8, <2>1 DEF ObfsType
<1>10. ShapeRandom
  BY <1>2 DEF ObfsShape
<1>a. recvHead'
  BY <1>1, Zenon DEF readVars
<1>11. ObfsShape'
  <2>1. ShapeRandom'
    BY <1>1, <1>4, <1>10, <1>a DEF ShapeRandom
  <2>2. ShapeTls' /\ ShapeHttp'
    BY <1>1 DEF ShapeTls, ShapeHttp
  <2> QED
    BY <2>1, <2>2 DEF ObfsShape
<1>b. ASSUME ~raced
      PROVE  Alone /\ held = <<>> /\ AtW \in {"idle", "after"} /\ AtR # "clear" /\ AtW' \in {"idle", "clear"}
  <2>1. Alone
    BY <1>2, <1>b, WriteSays, Zenon
  <2> QED
    BY <1>4, <2>1 DEF Alone
<1>12. ASSUME ~raced PROVE Alone'
  BY <1>1, <1>4, <1>b, <1>12 DEF Alone
<1>13. ASSUME ~raced, ~cut PROVE Waits'
  <2>1. PICK a \in Nat, b \in Nat, c \in Nat :
          Told(sent, a) /\ Spans(held, a, b) /\ Spans(StillParked, b, c) /\ Spans(Pending, c, tokens)
    BY <1>2, <1>13, WaitsOpen, Zenon
  <2>2. held = <<>> /\ AtW \in {"idle", "after"} /\ AtR # "clear" /\ AtW' \in {"idle", "clear"}
    BY <1>b, <1>13
  <2>3. StillParked = parked /\ StillParked' = <<>> /\ Pending' = Pending
    BY <1>1, <1>4, <2>2 DEF StillParked, Pending
  <2>4. a = b /\ Spans(parked, a, c)
    BY <2>1, <2>2, <2>3, SpansEmpty
  <2>5. Told(sent', c)
    <3>1. sent' = sent \o parked
      BY <1>7, <1>13
    <3> QED
      BY <1>6, <2>1, <2>4, <3>1, ToldMore, Zenon
  <2>6. Spans(held', c, c) /\ Spans(StillParked', c, c)
    BY <1>1, <2>2, <2>3, SpansNone
  <2> QED
    BY <1>1, <2>1, <2>3, <2>5, <2>6, WaitsAt
<1>14. ObfsWrite'
  <2>1. ~raced' => ~raced
    BY <1>1, Zenon
  <2>2. (~raced' => Alone') /\ (~raced' /\ ~cut => Waits')
    BY <1>1, <1>12, <1>13, Zenon
  <2> QED
    BY <1>1, <1>2, <1>7, <1>9, <2>1, <2>2, WriteHolds
<1>15. HeadTaken' <=> HeadTaken
  BY <1>1, <1>a, Zenon DEF HeadTaken
<1> QED
  BY <1>1, <1>5, <1>8, <1>11, <1>14, <1>15, WriteStep, Zenon

LEMMA WriteClearIInv ==
  ASSUME ObfsIInv, NEW s \in Sides, WriteClear(s) PROVE ObfsIInv'
<1>1. /\ UNCHANGED readVars /\ obfs' = obfs /\ status' = status /\ sentHead' = sentHead /\ rawSent'
      /\ parked' = <<>> /\ held' = held /\ oarg' = oarg /\ cut' = cut /\ pieces' = pieces /\ tokens' = tokens
      /\ sent' = sent /\ raced' = raced /\ opc[s] = "clear" /\ Goto(s, "idle")
  BY Zenon DEF WriteClear
<1>2. ObfsType /\ ObfsShape /\ ObfsWrite
  BY DEF ObfsIInv
<1>3. "idle" \in Places /\ status \in {0, 1, 8} /\ tokens \in Nat
  BY <1>2 DEF ObfsType, WhoType, Places
<1>10. ShapeTls /\ ShapeRandom /\ ShapeHttp
  BY <1>2 DEF ObfsShape
<1>4. \/ s = "writer" /\ AtW = "clear" /\ AtW' = "idle" /\ AtR' = AtR
      \/ s = "reader" /\ AtR = "clear" /\ AtR' = "idle" /\ AtW' = AtW
  BY <1>1, <1>2, <1>3, OneMoves
<1>5. WhoType'
  BY <1>1, <1>2, <1>3, SideGoes
<1>6. obfs = "random_head"
  BY <1>2, <1>4, <1>10 DEF ObfsType, WhoType, ShapeTls, ShapeHttp
<1>7. recvHead /\ recvHead'
  <2>1. recvHead
    BY <1>4, <1>6, <1>10 DEF ShapeRandom
  <2> QED
    BY <1>1, <2>1, Zenon DEF readVars
<1>8. SentType'
  <2>1. <<>> \in Seq(Units)
    OBVIOUS
  <2> QED
    BY <1>1, <1>2, <2>1 DEF ObfsType, SentType
<1>9. ObfsType'
  <2>1. BackType'
    BY <1>1, <1>2 DEF ObfsType, BackType, readVars
  <2> QED
    BY <1>5, <1>8, <2>1 DEF ObfsType
<1>11. ObfsShape'
  <2>1. ShapeRandom'
    BY <1>1, <1>4, <1>7, <1>10 DEF ShapeRandom
  <2>2. ShapeTls' /\ ShapeHttp'
    BY <1>1, <1>6 DEF ShapeTls, ShapeHttp
  <2> QED
    BY <2>1, <2>2 DEF ObfsShape
<1>b. ASSUME ~raced PROVE Alone /\ AtW \in {"idle", "clear"} /\ AtW' = "idle"
  <2>1. Alone
    BY <1>2, <1>b, WriteSays, Zenon
  <2> QED
    BY <1>4, <2>1 DEF Alone
<1>12. ASSUME ~raced PROVE Alone'
  BY <1>1, <1>4, <1>6, <1>b, <1>12 DEF Alone
<1>13. ASSUME ~raced, ~cut PROVE Waits'
  <2>1. PICK a \in Nat, b \in Nat, c \in Nat :
          Told(sent, a) /\ Spans(held, a, b) /\ Spans(StillParked, b, c) /\ Spans(Pending, c, tokens)
    BY <1>2, <1>13, WaitsOpen, Zenon
  <2>2. AtW \in {"idle", "clear"} /\ AtW' = "idle"
    BY <1>b, <1>13
  <2>3. StillParked = <<>> /\ StillParked' = <<>> /\ Pending' = Pending
    BY <1>1, <1>4, <2>2 DEF StillParked, Pending
  <2> QED
    BY <1>1, <2>1, <2>3, WaitsAt
<1>14. ObfsWrite'
  <2>1. ~raced' => ~raced
    BY <1>1, Zenon
  <2>2. (~raced' => Alone') /\ (~raced' /\ ~cut => Waits')
    BY <1>1, <1>12, <1>13, Zenon
  <2> QED
    BY <1>1, <1>2, <1>9, <2>1, <2>2, WriteHolds
<1>15. HeadTaken' <=> HeadTaken
  BY <1>1, <1>6, <1>7, Zenon DEF HeadTaken
<1> QED
  BY <1>1, <1>5, <1>8, <1>11, <1>14, <1>15, WriteStep, Zenon

LEMMA ObfsStutter ==
  ASSUME ObfsIInv, UNCHANGED obfsVars PROVE ObfsIInv'
<1>1. /\ UNCHANGED writeVars /\ UNCHANGED readVars /\ obfs' = obfs /\ cut' = cut /\ pieces' = pieces /\ recvHead' = recvHead
  BY Zenon DEF obfsVars, writeVars, readVars
<1>2. ObfsType /\ ObfsRead
  BY DEF ObfsIInv
<1>3. BackType'
  BY <1>1, <1>2 DEF ObfsType, BackType, readVars
<1>4. ObfsRead'
  <2>1. HeadTaken' <=> HeadTaken
    BY <1>1, Zenon DEF HeadTaken, AtR, writeVars
  <2> QED
    BY <1>1, <1>2, <2>1, ReadStays, Zenon
<1> QED
  BY <1>1, <1>3, <1>4, ReadStep, Zenon

LEMMA ObfsNextIInv ==
  ASSUME ObfsAssumption, ObfsIInv, ObfsNext PROVE ObfsIInv'
<1>1. ASSUME \/ WriteBegin \/ Answer \/ ServerSendsData \/ Fail \/ ReadRest \/ ReaderWrites \/ ReadRandomHead(0)
      PROVE  ObfsIInv'
  <2>1. CASE WriteBegin
    BY <2>1, WriteBeginIInv
  <2>2. CASE Answer
    BY <2>2, AnswerIInv
  <2>3. CASE ServerSendsData
    BY <2>3, ServerSendsDataIInv
  <2>4. CASE Fail
    BY <2>4, FailIInv
  <2>5. CASE ReadRest
    BY <2>5, ReadRestIInv
  <2>6. CASE ReaderWrites
    BY <2>6, ReaderWritesIInv
  <2>7. CASE ReadRandomHead(0)
    <3>1. Len(arriving) \in Nat
      BY DEF ObfsIInv, ObfsType, BackType
    <3>2. 0 \in 0 .. Len(arriving)
      BY <3>1
    <3> QED
      BY <2>7, <3>2, ReadRandomHeadIInv
  <2> QED
    BY <1>1, <2>1, <2>2, <2>3, <2>4, <2>5, <2>6, <2>7
<1>2. ASSUME NEW s \in Sides,
             \/ WriteSend(s) \/ WriteFirst(s) \/ WritePark(s) \/ WriteHead(s) \/ WriteLater(s)
             \/ TakeParked(s) \/ WriteFinish(s) \/ WriteFlush(s) \/ WriteClear(s)
      PROVE  ObfsIInv'
  <2>1. CASE WriteSend(s)
    BY <2>1, WriteSendIInv
  <2>2. CASE WriteFirst(s)
    BY <2>2, WriteFirstIInv
  <2>3. CASE WritePark(s)
    BY <2>3, WriteParkIInv
  <2>4. CASE WriteHead(s)
    BY <2>4, WriteHeadIInv
  <2>5. CASE WriteLater(s)
    BY <2>5, WriteLaterIInv
  <2>6. CASE TakeParked(s)
    BY <2>6, TakeParkedIInv
  <2>7. CASE WriteFinish(s)
    BY <2>7, WriteFinishIInv
  <2>8. CASE WriteFlush(s)
    BY <2>8, WriteFlushIInv
  <2>9. CASE WriteClear(s)
    BY <2>9, WriteClearIInv
  <2> QED
    BY <1>2, <2>1, <2>2, <2>3, <2>4, <2>5, <2>6, <2>7, <2>8, <2>9
<1>3. ASSUME NEW k \in 1 .. Len(arriving),
             \/ ReadHttpHead(k) \/ ReadTicket(k) \/ ReadRandomHead(k) \/ ReadRecords(k) \/ ReadHalf(k) \/ ReadPlain(k)
      PROVE  ObfsIInv'
  <2>1. CASE ReadHttpHead(k)
    BY <2>1, ReadHttpHeadIInv
  <2>2. CASE ReadTicket(k)
    BY <2>2, ReadTicketIInv
  <2>3. CASE ReadRandomHead(k)
    <3>1. k \in 0 .. Len(arriving)
      OBVIOUS
    <3> QED
      BY <2>3, <3>1, ReadRandomHeadIInv
  <2>4. CASE ReadRecords(k)
    BY <2>4, ReadRecordsIInv
  <2>5. CASE ReadHalf(k)
    BY <2>5, ReadHalfIInv
  <2>6. CASE ReadPlain(k)
    BY <2>6, ReadPlainIInv
  <2> QED
    BY <1>3, <2>1, <2>2, <2>3, <2>4, <2>5, <2>6
<1> QED
  BY <1>1, <1>2, <1>3, Zenon DEF ObfsNext

\* The disguise loses nothing: for any number of Writes and of pieces from the server, as
\* long as no Write overlaps the one with which the reader sends what is parked, what was
\* written goes out, or waits, once and in order, and nothing waits once the exchange is
\* over; and unless the server's head arrives in pieces, Read returns the server's data,
\* once and in order, and no error (tls1.2_ticket_auth, random_head and http_simple).
THEOREM DisguiseLosesNothing == ObfsSpec => []ObfsInOrder
<1>1. ObfsInit({"tls12", "random_head", "http"}) => ObfsIInv
  BY ObfsInitIInv
<1>2. ObfsIInv /\ [ObfsNext]_obfsVars => ObfsIInv'
  BY ObfsAssumption, ObfsNextIInv, ObfsStutter
<1>3. ObfsIInv => ObfsInOrder
  BY ObfsIInvInOrder
<1> QED
  BY <1>1, <1>2, <1>3, PTL DEF ObfsSpec

-----------------------------------------------------------------------------
(* The records of ssr/protocol.                                            *)

\* A server that cuts its stream into records that Decode takes: none is
\* empty, and the longest, with the two bytes in front, is shorter than 4096.
RepliesFit == \A n \in ReplySizes : 0 < n /\ n <= 4093

SsrRecord == [id : Nat, hurt : {"none", "body", "head"}, from : Nat, n : Nat, at : Nat, pos : Nat, len : Nat, bytes : Nat]

\* A record says where its data is and how long it is, in a length that is
\* taken.
Sound(chain, rec) ==
  /\ rec.pos = rec.at
  /\ IF chain THEN rec.len < 4096 /\ rec.bytes = 4 + rec.len
     ELSE 7 <= rec.len /\ rec.len < 8192 /\ rec.bytes = rec.len

IsChain == proto \in Chain

LEMMA PaddingFits ==
  ASSUME proto \in Protocols, NEW n \in Nat, n <= 8100, IsChain => n <= 4095, NEW full \in Nat, NEW r \in Padding(n, full)
  PROVE  r \in Nat /\ n + r < 8165 /\ (IsChain => n + r < 4096)
<1>1. \A max \in Int : \A x \in Below(max) : x \in Nat /\ x < max
  BY SsrAssumption DEF Below
<1>2. CASE proto = "auth_aes128"
  <2>1. r \in AESPadding(n, full) /\ ~IsChain
    BY <1>2 DEF Padding, IsChain, Chain
  <2>2. PICK rev \in Int : rev = 1460 - n - 9
    OBVIOUS
  <2>3. \/ r \in {0}
        \/ rev > 0 /\ r \in Below(rev)
        \/ ~(rev > 0) /\ rev > -1460 /\ r \in Below(rev + 1460)
        \/ r \in Below(32)
    BY <2>1, <2>2 DEF AESPadding
  <2>4. CASE r \in {0}
    BY <2>1, <2>4
  <2>5. CASE rev > 0 /\ r \in Below(rev)
    BY <1>1, <2>1, <2>2, <2>5
  <2>6. CASE ~(rev > 0) /\ rev > -1460 /\ r \in Below(rev + 1460)
    BY <1>1, <2>1, <2>2, <2>6
  <2>7. CASE r \in Below(32)
    BY <1>1, <2>1, <2>7
  <2> QED
    BY <2>3, <2>4, <2>5, <2>6, <2>7
<1>3. CASE proto = "auth_sha1_v4"
  <2>1. r \in SHA1Padding(n) /\ ~IsChain
    BY <1>3 DEF Padding, IsChain, Chain
  <2>2. r \in {0} \/ (n <= 1200 /\ r \in Below(256)) \/ (n <= 1200 /\ r \in Below(512))
    BY <2>1 DEF SHA1Padding
  <2> QED
    BY <1>1, <2>1, <2>2
<1>4. ASSUME IsChain, r \in ChainAPadding(n)
      PROVE  r \in Nat /\ n + r < 4096
  <2>1. \/ r \in {0} \/ (n <= 1440 /\ r \in Below(31)) \/ (n <= 1440 /\ r \in Below(127))
        \/ (n <= 1440 /\ r \in Below(521)) \/ (n <= 1440 /\ r \in Below(1021))
    BY <1>4 DEF ChainAPadding
  <2>2. n <= 4095
    BY <1>4
  <2> QED
    BY <1>1, <2>1, <2>2
<1>5. CASE proto = "auth_chain_a"
  BY <1>4, <1>5 DEF Padding, IsChain, Chain
<1>6. CASE proto = "auth_chain_b"
  <2>1. IsChain /\ r \in ChainBPadding(n)
    BY <1>6 DEF Padding, IsChain, Chain
  <2>2. Overhead = 4
    BY <1>6 DEF Overhead
  <2>3. r \in {0} \/ (r \in Below(1440 - n - 4)) \/ r \in ChainAPadding(n)
    BY <2>1, <2>2 DEF ChainBPadding
  <2>4. CASE r \in Below(1440 - n - 4)
    BY <1>1, <2>1, <2>4
  <2>5. CASE r \in {0}
    BY <2>1, <2>5
  <2> QED
    BY <1>4, <2>1, <2>3, <2>4, <2>5
<1> QED
  BY <1>2, <1>3, <1>5, <1>6 DEF Protocols, Chain

\* What packData makes.
LEMMA PackedIsSound ==
  ASSUME proto \in Protocols, NEW n \in Nat, n <= 8100, IsChain => n <= 4095, NEW full \in Nat, NEW r \in Padding(n, full),
         NEW id \in Nat, NEW from \in Nat, NEW rec, rec = PackData(id, from, n, r)
  PROVE  /\ rec \in SsrRecord /\ Sound(IsChain, rec)
         /\ rec.id = id /\ rec.from = from /\ rec.n = n /\ rec.hurt = "none" /\ (0 < n => 4 < rec.bytes)
<1>1. r \in Nat /\ n + r < 8165 /\ (IsChain => n + r < 4096)
  BY PaddingFits
<1>2. CASE IsChain
  <2>1. rec = [id |-> id, hurt |-> "none", from |-> from, n |-> n, at |-> 2, pos |-> 2, len |-> n + r, bytes |-> 2 + n + r + 2]
    BY <1>2 DEF PackData, PackChain, IsChain
  <2> QED
    BY <1>1, <1>2, <2>1 DEF SsrRecord, Sound
<1>3. CASE ~IsChain
  <2>1. PICK pre : pre = RandPrefix(r)
    OBVIOUS
  <2>2. PICK long : long = PackedDataLength(r, n)
    OBVIOUS
  <2>3. /\ pre \in Nat /\ long \in Nat /\ RandPos(r) = 4 + pre + r
        /\ long = 8 + pre + r + n /\ 9 <= long /\ long < 8192
    BY <1>1, <2>1, <2>2 DEF RandPrefix, RandPos, PackedDataLength
  <2>4. long % 65536 = long
    BY <2>3
  <2>5. rec = [id |-> id, hurt |-> "none", from |-> from, n |-> n, at |-> 4 + pre + r, pos |-> 4 + pre + r,
               len |-> long, bytes |-> 2 + 2 + pre + r + n + 4]
    BY <1>3, <2>1, <2>2, <2>3, <2>4 DEF PackData, PackPadded, IsChain
  <2> QED
    BY <1>1, <1>3, <2>3, <2>5 DEF SsrRecord, Sound
<1> QED
  BY <1>2, <1>3

\* What Decode makes of a sound record, of which `come' bytes have come.
LEMMA Judged ==
  ASSUME proto \in Protocols, NEW rec \in SsrRecord, Sound(IsChain, rec), NEW id \in Nat, rec.id = id, NEW come \in Nat,
         IsChain => rec.hurt # "head", NEW v, v = Judge(rec, id, come)
  PROVE  /\ v \in {"wait", "error", "take"}
         /\ v = "take" => rec.hurt = "none" /\ rec.bytes <= come
         /\ v = "error" => rec.hurt # "none"
         /\ v = "wait" => come <= 4 \/ come < rec.bytes
         /\ rec.hurt = "none" /\ rec.bytes <= come /\ 4 < come => v = "take"
<1>1. rec.len \in Nat /\ rec.bytes \in Nat /\ rec.hurt \in {"none", "body", "head"}
  BY DEF SsrRecord
<1>2. CASE IsChain
  <2>1. v = JudgeChain(rec, id, come)
    BY <1>2 DEF Judge, IsChain, Chain
  <2> QED
    BY <1>1, <1>2, <2>1 DEF JudgeChain, Sound
<1>3. CASE ~IsChain
  <2>1. v = JudgeSHA1(rec, come)
    BY <1>3 DEF Judge, JudgeAES, IsChain, Chain, Protocols
  <2> QED
    BY <1>1, <1>3, <2>1 DEF JudgeSHA1, Sound
<1> QED
  BY <1>2, <1>3

-----------------------------------------------------------------------------
(* What the client sends.                                                  *)

\* Records that carry the bytes from a up to b, numbered from f up to g, and
\* are sound if they have a number.
Carry(s, chain, a, f, b, g) ==
  /\ s \in Seq(SsrRecord) /\ a \in Nat /\ f \in Nat /\ b \in Nat /\ g \in Nat
  /\ s = <<>> => a = b /\ f = g
  /\ s # <<>> => /\ s[1].from = a /\ s[1].id = f
                 /\ s[Len(s)].from + s[Len(s)].n = b /\ s[Len(s)].id + 1 = g
  /\ \A i \in 2 .. Len(s) : s[i].from = s[i - 1].from + s[i - 1].n /\ s[i].id = s[i - 1].id + 1
  /\ \A i \in 1 .. Len(s) : s[i].id > 0 => Sound(chain, s[i]) /\ s[i].hurt = "none"

LEMMA NotEmpty ==
  ASSUME NEW S, NEW s \in Seq(S)
  PROVE  /\ Len(s) \in Nat /\ (s = <<>> <=> Len(s) = 0)
         /\ \A i \in 1 .. Len(s) : s[i] \in S
<1>1. s = <<>> => Len(s) = 0
  OBVIOUS
<1>2. Len(s) = 0 => s = <<>>
  OBVIOUS
<1> QED
  BY <1>1, <1>2

LEMMA CarryOn ==
  ASSUME NEW chain, NEW s, NEW t, NEW a, NEW b, NEW c, NEW f, NEW g, NEW h,
         Carry(s, chain, a, f, b, g), Carry(t, chain, b, g, c, h)
  PROVE  Carry(s \o t, chain, a, f, c, h)
<1>1. s \in Seq(SsrRecord) /\ t \in Seq(SsrRecord) /\ a \in Nat /\ f \in Nat /\ c \in Nat /\ h \in Nat
  BY DEF Carry
<1>2. PICK u : u = s \o t
  OBVIOUS
<1>3. PICK m \in Nat : m = Len(s)
  BY <1>1
<1>4. PICK k \in Nat : k = Len(t)
  BY <1>1
<1>5. u \in Seq(SsrRecord) /\ Len(u) = m + k
  BY <1>1, <1>2, <1>3, <1>4
<1>6. \A i \in 1 .. (m + k) : u[i] = IF i <= m THEN s[i] ELSE t[i - m]
  BY <1>1, <1>2, <1>3, <1>4
<1>7. (s = <<>> <=> m = 0) /\ (t = <<>> <=> k = 0) /\ (u = <<>> <=> m + k = 0)
  BY <1>1, <1>3, <1>4, <1>5, NotEmpty
<1>8. /\ m = 0 => a = b /\ f = g
      /\ m # 0 => s[1].from = a /\ s[1].id = f /\ s[m].from + s[m].n = b /\ s[m].id + 1 = g
      /\ \A i \in 2 .. m : s[i].from = s[i - 1].from + s[i - 1].n /\ s[i].id = s[i - 1].id + 1
      /\ \A i \in 1 .. m : s[i].id > 0 => Sound(chain, s[i]) /\ s[i].hurt = "none"
  BY <1>3, <1>7 DEF Carry
<1>9. /\ k = 0 => b = c /\ g = h
      /\ k # 0 => t[1].from = b /\ t[1].id = g /\ t[k].from + t[k].n = c /\ t[k].id + 1 = h
      /\ \A i \in 2 .. k : t[i].from = t[i - 1].from + t[i - 1].n /\ t[i].id = t[i - 1].id + 1
      /\ \A i \in 1 .. k : t[i].id > 0 => Sound(chain, t[i]) /\ t[i].hurt = "none"
  BY <1>4, <1>7 DEF Carry
<1>10. u = <<>> => a = c /\ f = h
  BY <1>7, <1>8, <1>9
<1>11. ASSUME u # <<>>
       PROVE  u[1].from = a /\ u[1].id = f /\ u[m + k].from + u[m + k].n = c /\ u[m + k].id + 1 = h
  <2>1. m + k # 0
    BY <1>7, <1>11
  <2>2. u[1].from = a /\ u[1].id = f
    <3>1. CASE m = 0
      BY <1>6, <1>8, <1>9, <2>1, <3>1
    <3>2. CASE m # 0
      BY <1>6, <1>8, <3>2
    <3> QED
      BY <3>1, <3>2
  <2>3. u[m + k].from + u[m + k].n = c /\ u[m + k].id + 1 = h
    <3>1. CASE k = 0
      BY <1>6, <1>8, <1>9, <2>1, <3>1
    <3>2. CASE k # 0
      BY <1>6, <1>9, <3>2
    <3> QED
      BY <3>1, <3>2
  <2> QED
    BY <2>2, <2>3
<1>12. ASSUME NEW i \in 2 .. (m + k) PROVE u[i].from = u[i - 1].from + u[i - 1].n /\ u[i].id = u[i - 1].id + 1
  <2>1. CASE i <= m
    BY <1>6, <1>8, <2>1
  <2>2. CASE i = m + 1
    <3>1. m # 0 /\ k # 0 /\ u[i] = t[1] /\ u[i - 1] = s[m]
      BY <1>6, <2>2
    <3> QED
      BY <1>8, <1>9, <3>1
  <2>3. CASE i > m + 1
    <3>1. u[i] = t[i - m] /\ u[i - 1] = t[(i - m) - 1] /\ i - m \in 2 .. k
      BY <1>6, <2>3
    <3> QED
      BY <1>9, <3>1
  <2> QED
    BY <2>1, <2>2, <2>3
<1>13. ASSUME NEW i \in 1 .. (m + k), u[i].id > 0 PROVE Sound(chain, u[i]) /\ u[i].hurt = "none"
  <2>1. CASE i <= m
    BY <1>6, <1>8, <1>13, <2>1
  <2>2. CASE ~(i <= m)
    <3>1. u[i] = t[i - m] /\ i - m \in 1 .. k
      BY <1>6, <2>2
    <3> QED
      BY <1>9, <1>13, <3>1
  <2> QED
    BY <2>1, <2>2
<1>14. Carry(u, chain, a, f, c, h)
  BY <1>1, <1>5, <1>10, <1>11, <1>12, <1>13 DEF Carry
<1> QED
  BY <1>2, <1>14

\* One record.
LEMMA CarryOne ==
  ASSUME NEW chain, NEW rec \in SsrRecord, rec.id > 0 => Sound(chain, rec) /\ rec.hurt = "none",
         NEW a \in Nat, NEW f \in Nat, NEW b \in Nat, NEW g \in Nat,
         rec.from = a, rec.id = f, a + rec.n = b, f + 1 = g
  PROVE  Carry(<<rec>>, chain, a, f, b, g)
<1>1. PICK s : s = <<rec>>
  OBVIOUS
<1>2. s \in Seq(SsrRecord) /\ Len(s) = 1 /\ s[1] = rec /\ s # <<>>
  BY <1>1
<1>3. \A i \in 1 .. Len(s) : i = 1
  BY <1>2
<1>4. 2 .. Len(s) = {}
  BY <1>2
<1>5. Carry(s, chain, a, f, b, g)
  BY <1>2, <1>3, <1>4 DEF Carry
<1> QED
  BY <1>1, <1>5

LEMMA CarryNone ==
  ASSUME NEW chain, NEW a \in Nat, NEW f \in Nat
  PROVE  Carry(<<>>, chain, a, f, a, f)
BY DEF Carry

\* Encode cuts what is left after the header into chunks.
ChunksOf(m, k) ==
  /\ k \in Nat /\ (m = 0 <=> k = 0)
  /\ Chunk \in Nat /\ Chunk <= 8100 /\ (IsChain => Chunk <= 2800)
  /\ \A i \in 1 .. k : ChunkLength(m, i) \in Nat /\ 0 < ChunkLength(m, i) /\ ChunkLength(m, i) <= Chunk
  /\ \A i \in 1 .. k : i < k => ChunkLength(m, i) = Chunk
  /\ m # 0 => (k - 1) * Chunk + ChunkLength(m, k) = m

LEMMA ChunksFit ==
  ASSUME NEW m \in Nat, proto \in Protocols
  PROVE  ChunksOf(m, ChunkCount(m))
<1>1. CASE IsChain
  <2>1. Chunk = 2800
    BY <1>1 DEF Chunk, IsChain
  <2>2. PICK k : k = ChunkCount(m)
    OBVIOUS
  <2>3. k = (m + 2799) \div 2800
    BY <2>1, <2>2 DEF ChunkCount
  <2>4. k \in Nat /\ k * 2800 <= m + 2799 /\ m + 2799 < k * 2800 + 2800
    BY <2>3
  <2>5. \A i \in 1 .. k : ChunkLength(m, i) = IF i < k THEN 2800 ELSE m - (k - 1) * 2800
    BY <2>1, <2>2 DEF ChunkLength
  <2>6. m = 0 <=> k = 0
    BY <2>4
  <2>7. \A i \in 1 .. k : i < k => ChunkLength(m, i) = 2800
    BY <2>4, <2>5
  <2>8. m # 0 => k \in 1 .. k /\ ~(k < k)
    BY <2>4, <2>6
  <2>9. m # 0 => ChunkLength(m, k) = m - (k - 1) * 2800
    BY <2>5, <2>8
  <2>10. m # 0 => ChunkLength(m, k) \in Nat /\ 0 < ChunkLength(m, k) /\ ChunkLength(m, k) <= 2800
    BY <2>4, <2>9
  <2>11. m # 0 => (k - 1) * 2800 + ChunkLength(m, k) = m
    BY <2>4, <2>9
  <2>12. \A i \in 1 .. k : ChunkLength(m, i) \in Nat /\ 0 < ChunkLength(m, i) /\ ChunkLength(m, i) <= 2800
    <3>1. \A i \in 1 .. k : i = k \/ i < k
      BY <2>4
    <3>2. \A i \in 1 .. k : m # 0
      BY <2>4, <2>6
    <3> QED
      BY <2>7, <2>10, <3>1, <3>2
  <2>13. Chunk \in Nat /\ Chunk <= 8100 /\ (IsChain => Chunk <= 2800)
    BY <1>1, <2>1
  <2>14. \A i \in 1 .. k : i < k => ChunkLength(m, i) = Chunk
    BY <2>1, <2>7
  <2>15. \A i \in 1 .. k : ChunkLength(m, i) \in Nat /\ 0 < ChunkLength(m, i) /\ ChunkLength(m, i) <= Chunk
    BY <2>1, <2>12
  <2>16. m # 0 => (k - 1) * Chunk + ChunkLength(m, k) = m
    BY <2>1, <2>11
  <2>17. k \in Nat
    BY <2>4
  <2>18. ChunksOf(m, k)
    BY <2>6, <2>13, <2>14, <2>15, <2>16, <2>17 DEF ChunksOf
  <2> QED
    BY <2>2, <2>18, Zenon
<1>2. CASE ~IsChain
  <2>1. Chunk = 8100
    BY <1>2 DEF Chunk, IsChain
  <2>2. PICK k : k = ChunkCount(m)
    OBVIOUS
  <2>3. k = (m + 8099) \div 8100
    BY <2>1, <2>2 DEF ChunkCount
  <2>4. k \in Nat /\ k * 8100 <= m + 8099 /\ m + 8099 < k * 8100 + 8100
    BY <2>3
  <2>5. \A i \in 1 .. k : ChunkLength(m, i) = IF i < k THEN 8100 ELSE m - (k - 1) * 8100
    BY <2>1, <2>2 DEF ChunkLength
  <2>6. m = 0 <=> k = 0
    BY <2>4
  <2>7. \A i \in 1 .. k : i < k => ChunkLength(m, i) = 8100
    BY <2>4, <2>5
  <2>8. m # 0 => k \in 1 .. k /\ ~(k < k)
    BY <2>4, <2>6
  <2>9. m # 0 => ChunkLength(m, k) = m - (k - 1) * 8100
    BY <2>5, <2>8
  <2>10. m # 0 => ChunkLength(m, k) \in Nat /\ 0 < ChunkLength(m, k) /\ ChunkLength(m, k) <= 8100
    BY <2>4, <2>9
  <2>11. m # 0 => (k - 1) * 8100 + ChunkLength(m, k) = m
    BY <2>4, <2>9
  <2>12. \A i \in 1 .. k : ChunkLength(m, i) \in Nat /\ 0 < ChunkLength(m, i) /\ ChunkLength(m, i) <= 8100
    <3>1. \A i \in 1 .. k : i = k \/ i < k
      BY <2>4
    <3>2. \A i \in 1 .. k : m # 0
      BY <2>4, <2>6
    <3> QED
      BY <2>7, <2>10, <3>1, <3>2
  <2>13. Chunk \in Nat /\ Chunk <= 8100 /\ ~IsChain
    BY <1>2, <2>1
  <2>14. \A i \in 1 .. k : i < k => ChunkLength(m, i) = Chunk
    BY <2>1, <2>7
  <2>15. \A i \in 1 .. k : ChunkLength(m, i) \in Nat /\ 0 < ChunkLength(m, i) /\ ChunkLength(m, i) <= Chunk
    BY <2>1, <2>12
  <2>16. m # 0 => (k - 1) * Chunk + ChunkLength(m, k) = m
    BY <2>1, <2>11
  <2>17. k \in Nat
    BY <2>4
  <2>18. ChunksOf(m, k)
    BY <2>6, <2>13, <2>14, <2>15, <2>16, <2>17 DEF ChunksOf
  <2> QED
    BY <2>2, <2>18, Zenon
<1> QED
  BY <1>1, <1>2

LEMMA RecordsInOrder ==
  ASSUME NEW k \in Nat, NEW t, t = [i \in 1 .. k |-> t[i]], \A i \in 1 .. k : t[i] \in SsrRecord
  PROVE  t \in Seq(SsrRecord) /\ Len(t) = k
<1>1. t \in [1 .. k -> SsrRecord]
  OBVIOUS
<1> QED
  BY <1>1

\* The chunks behind the header: m bytes of the n of a Write, the first of
\* them byte `base', under number `first'.
LEMMA ChunksCarry ==
  ASSUME proto \in Protocols, NEW m \in Nat, NEW n \in Nat, NEW base \in Nat, NEW first \in Nat, NEW k, k = ChunkCount(m),
         NEW pad, \A i \in 1 .. k : pad[i] \in Padding(ChunkLength(m, i), n),
         NEW t, t = [i \in 1 .. k |-> PackData(first + i - 1, base + (i - 1) * Chunk, ChunkLength(m, i), pad[i])]
  PROVE  Carry(t, IsChain, base, first, base + m, first + k)
<1>1. /\ k \in Nat /\ (m = 0 <=> k = 0)
      /\ Chunk \in Nat /\ Chunk <= 8100 /\ (IsChain => Chunk <= 2800)
      /\ \A i \in 1 .. k : ChunkLength(m, i) \in Nat /\ 0 < ChunkLength(m, i) /\ ChunkLength(m, i) <= Chunk
      /\ \A i \in 1 .. k : i < k => ChunkLength(m, i) = Chunk
      /\ m # 0 => (k - 1) * Chunk + ChunkLength(m, k) = m
  <2>1. ChunksOf(m, ChunkCount(m))
    BY ChunksFit
  <2>2. ChunksOf(m, k)
    BY <2>1, Zenon
  <2> QED
    BY <2>2 DEF ChunksOf
<1>1a. k \in Nat
  BY <1>1
<1>2. \A i \in 1 .. k : i \in Nat /\ 1 <= i /\ i <= k /\ first + i - 1 \in Nat
  BY <1>1
<1>3. PICK off : off = [i \in 1 .. k |-> (i - 1) * Chunk]
  OBVIOUS
<1>4. \A i \in 1 .. k : off[i] \in Nat
  BY <1>1, <1>2, <1>3
<1>5. \A i \in 2 .. k : i \in 1 .. k /\ i - 1 \in 1 .. k /\ i - 1 < k /\ off[i] = off[i - 1] + Chunk
  <2>1. ASSUME NEW i \in 2 .. k PROVE i \in 1 .. k /\ i - 1 \in 1 .. k /\ i - 1 < k /\ off[i] = off[i - 1] + Chunk
    <3>1. PICK j : j = i - 1
      OBVIOUS
    <3>2. i \in 1 .. k /\ j \in 1 .. k /\ j < k /\ j \in Nat /\ i = j + 1 /\ 1 <= j
      BY <1>1, <3>1
    <3>3. off[i] = j * Chunk /\ off[j] = (j - 1) * Chunk
      BY <1>3, <3>2
    <3>4. j * Chunk = (j - 1) * Chunk + Chunk
      BY <1>1, <3>2
    <3> QED
      BY <3>1, <3>2, <3>3, <3>4
  <2> QED
    BY <2>1
<1>6. k # 0 => 1 \in 1 .. k /\ k \in 1 .. k /\ off[1] = 0 /\ off[k] + ChunkLength(m, k) = m
  <2>1. ASSUME k # 0 PROVE 1 \in 1 .. k /\ k \in 1 .. k
    BY <1>1, <2>1
  <2>2. ASSUME k # 0 PROVE off[1] = 0
    <3>1. off[1] = (1 - 1) * Chunk
      BY <1>3, <2>1, <2>2
    <3> QED
      BY <1>1, <3>1
  <2>3. ASSUME k # 0 PROVE off[k] = (k - 1) * Chunk
    BY <1>3, <2>1, <2>3
  <2> QED
    BY <1>1, <2>1, <2>2, <2>3
<1>7. ASSUME NEW i \in 1 .. k
      PROVE  /\ t[i] \in SsrRecord /\ t[i].from = base + off[i] /\ t[i].id = first + i - 1 /\ t[i].n = ChunkLength(m, i)
             /\ Sound(IsChain, t[i]) /\ t[i].hurt = "none"
  <2>1. PICK len \in Nat : len = ChunkLength(m, i)
    BY <1>1
  <2>2. len <= 8100 /\ (IsChain => len <= 4095)
    BY <1>1, <2>1
  <2>3. PICK r \in Padding(len, n) : r = pad[i]
    BY <2>1
  <2>4. PICK from \in Nat : from = base + off[i]
    BY <1>4
  <2>5. PICK id \in Nat : id = first + i - 1
    BY <1>2
  <2>6. PICK rec : rec = PackData(id, from, len, r)
    OBVIOUS
  <2>7. from = base + (i - 1) * Chunk
    BY <1>3, <2>4
  <2>8. t[i] = rec
    BY <2>1, <2>3, <2>5, <2>6, <2>7
  <2>9. /\ rec \in SsrRecord /\ Sound(IsChain, rec)
        /\ rec.id = id /\ rec.from = from /\ rec.n = len /\ rec.hurt = "none"
    BY <2>2, <2>6, PackedIsSound
  <2> QED
    BY <2>1, <2>4, <2>5, <2>8, <2>9
<1>8. t \in Seq(SsrRecord) /\ Len(t) = k
  <2>1. \A i \in 1 .. k : t[i] \in SsrRecord
    BY <1>7
  <2>2. t = [i \in 1 .. k |-> t[i]]
    OBVIOUS
  <2> QED
    BY <1>1a, <2>1, <2>2, RecordsInOrder, Zenon
<1>9. t = <<>> => base = base + m /\ first = first + k
  BY <1>1, <1>8
<1>10. ASSUME t # <<>>
       PROVE  t[1].from = base /\ t[1].id = first /\ t[k].from + t[k].n = base + m /\ t[k].id + 1 = first + k
  <2>1. k # 0
    BY <1>8, <1>10, NotEmpty
  <2>2. 1 \in 1 .. k /\ k \in 1 .. k /\ off[1] = 0 /\ off[k] + ChunkLength(m, k) = m
    BY <1>6, <2>1
  <2>3. t[1].from = base + off[1] /\ t[1].id = first + 1 - 1
    BY <1>7, <2>2
  <2>4. t[k].from = base + off[k] /\ t[k].id = first + k - 1 /\ t[k].n = ChunkLength(m, k)
    BY <1>7, <2>2
  <2>5. PICK o \in Nat : o = off[k]
    BY <1>4, <2>2
  <2>6. PICK len \in Nat : len = ChunkLength(m, k)
    BY <1>1, <2>2
  <2>7. t[k].from + t[k].n = (base + o) + len /\ o + len = m
    BY <2>2, <2>4, <2>5, <2>6
  <2>8. t[k].from + t[k].n = base + m
    BY <2>7
  <2>9. t[1].from = base /\ t[1].id = first
    BY <2>2, <2>3
  <2>10. (first + k - 1) + 1 = first + k
    BY <1>1
  <2> QED
    BY <2>4, <2>8, <2>9, <2>10
<1>11. ASSUME NEW i \in 2 .. k PROVE t[i].from = t[i - 1].from + t[i - 1].n /\ t[i].id = t[i - 1].id + 1
  <2>1. PICK j : j = i - 1
    OBVIOUS
  <2>2. i \in 1 .. k /\ j \in 1 .. k /\ j < k /\ off[i] = off[j] + Chunk /\ i = j + 1
    BY <1>1, <1>5, <2>1
  <2>3. t[i].from = base + off[i] /\ t[i].id = first + i - 1
    BY <1>7, <2>2
  <2>4. t[j].from = base + off[j] /\ t[j].id = first + j - 1 /\ t[j].n = Chunk
    BY <1>1, <1>7, <2>2
  <2>5. PICK o \in Nat : o = off[j]
    BY <1>4, <2>2
  <2>6. j \in Nat /\ Chunk \in Nat
    BY <1>1, <1>2, <2>2
  <2>7. base + off[i] = (base + o) + Chunk
    BY <2>2, <2>5, <2>6
  <2>8. t[i].from = t[j].from + t[j].n
    BY <2>3, <2>4, <2>5, <2>7
  <2>9. first + i - 1 = (first + j - 1) + 1
    BY <2>2, <2>6
  <2>10. t[i].id = t[j].id + 1
    BY <2>3, <2>4, <2>9
  <2> QED
    BY <2>1, <2>8, <2>10
<1>12. base + m \in Nat /\ first + k \in Nat
  BY <1>1
<1>13. \A i \in 1 .. k : Sound(IsChain, t[i]) /\ t[i].hurt = "none"
  BY <1>7
<1>14. \A i \in 2 .. k : t[i].from = t[i - 1].from + t[i - 1].n /\ t[i].id = t[i - 1].id + 1
  BY <1>11
<1> QED
  BY <1>8, <1>9, <1>10, <1>12, <1>13, <1>14, Zenon DEF Carry

\* What is invariant of the client's side.
UpInv == /\ \E f : Carry(up, IsChain, 0, f, written, packID)
         /\ ~sentHeader => up = <<>> /\ written = 0 /\ packID = 1

\* The head of the first Write.
LEMMA HeadCarries ==
  ASSUME proto \in Protocols, packID = 1, NEW n \in Nat, NEW h \in HeadLengths(n), NEW r \in Padding(h, n),
         NEW first, first = packID + (IF IsChain THEN 1 ELSE 0)
  PROVE  /\ h \in Nat /\ h <= n
         /\ \E f : Carry(PackAuthData(h, r), IsChain, 0, f, h, first)
<1>1. h \in Nat /\ h <= n /\ h <= 290
  <2>1. PICK size \in HeadSizes : h = IF n < size THEN n ELSE size
    BY Zenon DEF HeadLengths
  <2>2. size \in Nat /\ size <= 290
    BY SsrAssumption
  <2> QED
    BY <2>1, <2>2
<1>2. CASE IsChain
  <2>1. PICK rec : rec = PackData(packID, 0, h, r)
    OBVIOUS
  <2>2. /\ rec \in SsrRecord /\ Sound(IsChain, rec)
        /\ rec.id = 1 /\ rec.from = 0 /\ rec.n = h /\ rec.hurt = "none"
    BY <1>1, <2>1, PackedIsSound
  <2>3. PackAuthData(h, r) = <<rec>>
    BY <1>2, <2>1 DEF PackAuthData, ChainAuthData, PackData, IsChain, Chain
  <2>4. first = 2
    BY <1>2
  <2>5. Carry(<<rec>>, IsChain, 0, 1, h, 2)
    BY <1>1, <2>2, CarryOne
  <2> QED
    BY <1>1, <2>3, <2>4, <2>5
<1>3. CASE ~IsChain
  <2>1. PICK rec : rec = [id |-> 0, hurt |-> "none", from |-> 0, n |-> h, at |-> 0, pos |-> 0, len |-> 0, bytes |-> 0]
    OBVIOUS
  <2>2. rec \in SsrRecord /\ rec.id = 0 /\ rec.from = 0 /\ rec.n = h
    BY <1>1, <2>1 DEF SsrRecord
  <2>2a. 0 + rec.n = h /\ 0 + 1 = 1 /\ ~(rec.id > 0) /\ 0 \in Nat /\ 1 \in Nat
    BY <1>1, <2>2
  <2>3. Carry(<<rec>>, IsChain, 0, 0, h, 1)
    BY <1>1, <2>2, <2>2a, CarryOne, Zenon
  <2>4. first = 1
    BY <1>3
  <2>5. proto \notin Chain
    BY <1>3 DEF IsChain
  <2>6. PackAuthData(h, r) = <<rec>> \/ (h = 0 /\ PackAuthData(h, r) = <<>>)
    BY <2>1, <2>5 DEF PackAuthData, AESAuthData, AuthHead, Protocols, Chain
  <2>7. Carry(<<>>, IsChain, 0, 1, 0, 1)
    BY CarryNone
  <2> QED
    BY <1>1, <2>3, <2>4, <2>6, <2>7
<1> QED
  BY <1>2, <1>3

LEMMA EncodeKeeps ==
  ASSUME proto \in Protocols, UpInv, NEW n \in WriteSizes, Encode(n)
  PROVE  UpInv'
<1>1. n \in Nat
  BY SsrAssumption
<1>2. PICK h \in IF sentHeader THEN {0} ELSE HeadLengths(n) : \E hr \in IF sentHeader THEN {0} ELSE Padding(h, n) :
       LET k == ChunkCount(n - h)
           head == IF sentHeader THEN <<>> ELSE PackAuthData(h, hr)
           first == packID + (IF proto \in Chain /\ ~sentHeader THEN 1 ELSE 0)
       IN \E pad \in [1 .. k -> UNION {Padding(ChunkLength(n - h, i), n) : i \in 1 .. k}] :
            /\ \A i \in 1 .. k : pad[i] \in Padding(ChunkLength(n - h, i), n)
            /\ up' = up \o head \o
                 [i \in 1 .. k |-> PackData(first + i - 1, written + h + (i - 1) * Chunk, ChunkLength(n - h, i), pad[i])]
            /\ packID' = first + k
  BY Zenon DEF Encode
<1>3. PICK hr \in IF sentHeader THEN {0} ELSE Padding(h, n) :
       \E pad \in [1 .. ChunkCount(n - h) -> UNION {Padding(ChunkLength(n - h, i), n) : i \in 1 .. ChunkCount(n - h)}] :
            /\ \A i \in 1 .. ChunkCount(n - h) : pad[i] \in Padding(ChunkLength(n - h, i), n)
            /\ up' = up \o (IF sentHeader THEN <<>> ELSE PackAuthData(h, hr)) \o
                 [i \in 1 .. ChunkCount(n - h) |->
                    PackData((packID + (IF proto \in Chain /\ ~sentHeader THEN 1 ELSE 0)) + i - 1,
                             written + h + (i - 1) * Chunk, ChunkLength(n - h, i), pad[i])]
            /\ packID' = (packID + (IF proto \in Chain /\ ~sentHeader THEN 1 ELSE 0)) + ChunkCount(n - h)
  BY <1>2, Zenon
<1>4. PICK head : head = IF sentHeader THEN <<>> ELSE PackAuthData(h, hr)
  OBVIOUS
<1>5. PICK first : first = packID + (IF proto \in Chain /\ ~sentHeader THEN 1 ELSE 0)
  OBVIOUS
<1>6. PICK k : k = ChunkCount(n - h)
  OBVIOUS
<1>7. PICK pad : /\ \A i \in 1 .. k : pad[i] \in Padding(ChunkLength(n - h, i), n)
                 /\ up' = up \o head \o
                      [i \in 1 .. k |-> PackData(first + i - 1, written + h + (i - 1) * Chunk, ChunkLength(n - h, i), pad[i])]
                 /\ packID' = first + k
  BY <1>3, <1>4, <1>5, <1>6, Zenon
<1>8. written' = written + n /\ sentHeader' = TRUE /\ proto' = proto
  BY Zenon DEF Encode
<1>9. PICK f : Carry(up, IsChain, 0, f, written, packID)
  BY Zenon DEF UpInv
<1>10. written \in Nat /\ packID \in Nat
  BY <1>9 DEF Carry
<1>11. h \in Nat /\ h <= n /\ first \in Nat /\ \E e : Carry(up \o head, IsChain, 0, e, written + h, first)
  <2>1. CASE sentHeader
    <3>1. h = 0 /\ head = <<>> /\ first = packID
      BY <1>4, <1>5, <1>10, <2>1
    <3>2. Carry(<<>>, IsChain, written, packID, written, packID)
      BY <1>10, CarryNone
    <3>3. Carry(up \o <<>>, IsChain, 0, f, written, packID)
      BY <1>9, <3>2, CarryOn
    <3>4. written + h = written
      BY <1>10, <3>1
    <3> QED
      BY <1>1, <1>10, <3>1, <3>3, <3>4
  <2>2. CASE ~sentHeader
    <3>1. up = <<>> /\ written = 0 /\ packID = 1
      BY <2>2, Zenon DEF UpInv
    <3>2. h \in HeadLengths(n) /\ hr \in Padding(h, n) /\ head = PackAuthData(h, hr)
      BY <1>4, <2>2
    <3>3. first = packID + (IF IsChain THEN 1 ELSE 0)
      BY <1>5, <2>2 DEF IsChain
    <3>4. h \in Nat /\ h <= n /\ \E e : Carry(head, IsChain, 0, e, h, first)
      BY <1>1, <3>1, <3>2, <3>3, HeadCarries
    <3>5. PICK e : Carry(head, IsChain, 0, e, h, first)
      BY <3>4
    <3>6. head \in Seq(SsrRecord) /\ first \in Nat
      BY <3>5 DEF Carry
    <3>7. up \o head = head /\ written + h = h
      BY <3>1, <3>4, <3>6
    <3> QED
      BY <3>4, <3>5, <3>6, <3>7
  <2> QED
    BY <2>1, <2>2
<1>12. PICK e : Carry(up \o head, IsChain, 0, e, written + h, first)
  BY <1>11
<1>13. PICK m \in Nat : m = n - h
  BY <1>1, <1>11
<1>14. PICK base \in Nat : base = written + h
  BY <1>10, <1>11
<1>15. PICK t : t = [i \in 1 .. k |-> PackData(first + i - 1, base + (i - 1) * Chunk, ChunkLength(m, i), pad[i])]
  OBVIOUS
<1>16. Carry(t, IsChain, base, first, base + m, first + k)
  BY <1>1, <1>6, <1>7, <1>11, <1>13, <1>14, <1>15, ChunksCarry
<1>17. up' = (up \o head) \o t
  BY <1>7, <1>13, <1>14, <1>15, Zenon
<1>18. Carry((up \o head) \o t, IsChain, 0, e, base + m, first + k)
  BY <1>12, <1>14, <1>16, CarryOn
<1>19. base + m = written'
  BY <1>1, <1>8, <1>10, <1>11, <1>13, <1>14
<1>20. IsChain' <=> IsChain
  BY <1>8 DEF IsChain
<1>21. IsChain' \in BOOLEAN /\ IsChain \in BOOLEAN
  BY DEF IsChain
<1>22. Carry(up', IsChain', 0, e, written', packID')
  BY <1>7, <1>17, <1>18, <1>19, <1>20, <1>21
<1> QED
  BY <1>8, <1>22, Zenon DEF UpInv

-----------------------------------------------------------------------------
(* What the server sends, and Decode.                                      *)

\* Up to its record m, the sums of the lengths of q.
SumTo(f, q, m) == f = [i \in 0 .. m |-> IF i = 0 THEN 0 ELSE f[i - 1] + q[i].bytes]
Summed(q, m) == \E f : SumTo(f, q, m)

LEMMA SumsAre ==
  ASSUME NEW q, NEW m \in Nat, NEW f, SumTo(f, q, m)
  PROVE  f[0] = 0 /\ \A i \in 1 .. m : f[i] = f[i - 1] + q[i].bytes
<1>1. \A i \in 0 .. m : f[i] = IF i = 0 THEN 0 ELSE f[i - 1] + q[i].bytes
  BY DEF SumTo
<1>2. 0 \in 0 .. m /\ \A i \in 1 .. m : i \in 0 .. m /\ i # 0
  OBVIOUS
<1> QED
  BY <1>1, <1>2

LEMMA SumGoesOn ==
  ASSUME NEW q, NEW m \in Nat, Summed(q, m)
  PROVE  Summed(q, m + 1)
<1>1. PICK f : SumTo(f, q, m)
  BY DEF Summed
<1>2. PICK g : g = [i \in 0 .. (m + 1) |-> IF i = m + 1 THEN f[m] + q[m + 1].bytes ELSE f[i]]
  OBVIOUS
<1>3. f[0] = 0 /\ \A i \in 1 .. m : f[i] = f[i - 1] + q[i].bytes
  BY <1>1, SumsAre
<1>4. ASSUME NEW i \in 0 .. (m + 1) PROVE g[i] = IF i = 0 THEN 0 ELSE g[i - 1] + q[i].bytes
  <2>1. CASE i = 0
    BY <1>2, <1>3, <2>1
  <2>2. CASE i = m + 1
    <3>1. i - 1 = m /\ m \in 0 .. (m + 1) /\ m # m + 1 /\ i # 0
      BY <2>2
    <3>2. g[m] = f[m] /\ g[i] = f[m] + q[i].bytes
      BY <1>2, <2>2, <3>1
    <3> QED
      BY <3>1, <3>2
  <2>3. CASE i # 0 /\ i # m + 1
    <3>1. i \in 1 .. m /\ i - 1 \in 0 .. (m + 1) /\ i - 1 # m + 1
      BY <2>3
    <3>2. g[i] = f[i] /\ g[i - 1] = f[i - 1]
      BY <1>2, <2>3, <3>1
    <3> QED
      BY <1>3, <2>3, <3>1, <3>2
  <2> QED
    BY <2>1, <2>2, <2>3
<1>5. SumTo(g, q, m + 1)
  BY <1>2, <1>4 DEF SumTo
<1> QED
  BY <1>5 DEF Summed

LEMMA SumStarts ==
  ASSUME NEW q
  PROVE  Summed(q, 0)
<1>1. PICK f : f = [i \in 0 .. 0 |-> 0]
  OBVIOUS
<1>2. \A i \in 0 .. 0 : i = 0
  OBVIOUS
<1>3. SumTo(f, q, 0)
  BY <1>1, <1>2 DEF SumTo
<1> QED
  BY <1>3 DEF Summed

LEMMA SumsExist ==
  ASSUME NEW q, NEW m \in Nat
  PROVE  Summed(q, m)
<1> SUFFICES ASSUME ~Summed(q, m) PROVE FALSE
  OBVIOUS
<1>1. PICK T : T = {k \in Nat : ~Summed(q, k)}
  OBVIOUS
<1>2. T \in SUBSET Nat /\ T # {}
  BY <1>1
<1>3. PICK k \in T : \A j \in T : k <= j
  BY <1>2, LeastOne
<1>4. k \in Nat /\ ~Summed(q, k)
  BY <1>1, <1>3
<1>5. k # 0
  BY <1>4, SumStarts
<1>6. PICK j \in Nat : k = j + 1
  <2>1. k - 1 \in Nat /\ k = (k - 1) + 1
    BY <1>4, <1>5
  <2> QED
    BY <2>1
<1>7. j \notin T
  BY <1>3, <1>4, <1>6
<1>8. Summed(q, j)
  BY <1>1, <1>7
<1> QED
  BY <1>4, <1>6, <1>8, SumGoesOn

\* The sums of the lengths of records.
Sums(s, q) == /\ s[0] = 0 /\ \A i \in 1 .. Len(q) : s[i] = s[i - 1] + q[i].bytes
              /\ \A i \in 0 .. Len(q) : s[i] \in Nat
              /\ \A i \in 1 .. Len(q) : s[1] <= s[i]

LEMMA TotalIsSum ==
  ASSUME NEW q \in Seq(SsrRecord)
  PROVE  \E s : Sums(s, q) /\ Total(q) = s[Len(q)]
<1>1. PICK m \in Nat : m = Len(q)
  OBVIOUS
<1>1a. \A i \in 1 .. m : q[i] \in SsrRecord
  BY <1>1
<1>1b. \A rec \in SsrRecord : rec.bytes \in Nat
  BY DEF SsrRecord
<1>2. \A i \in 1 .. m : q[i].bytes \in Nat
  BY <1>1a, <1>1b
<1>3. PICK s : s = CHOOSE f : f = [i \in 0 .. Len(q) |-> IF i = 0 THEN 0 ELSE f[i - 1] + q[i].bytes]
  OBVIOUS
<1>4. SumTo(s, q, m)
  <2>1. Summed(q, m)
    BY SumsExist
  <2>2. \E f : f = [i \in 0 .. Len(q) |-> IF i = 0 THEN 0 ELSE f[i - 1] + q[i].bytes]
    BY <1>1, <2>1 DEF Summed, SumTo
  <2>3. s = [i \in 0 .. Len(q) |-> IF i = 0 THEN 0 ELSE s[i - 1] + q[i].bytes]
    BY <1>3, <2>2, Zenon
  <2> QED
    BY <1>1, <2>3 DEF SumTo
<1>5. s[0] = 0 /\ \A i \in 1 .. m : s[i] = s[i - 1] + q[i].bytes
  BY <1>4, SumsAre
<1>6. Total(q) = s[Len(q)]
  BY <1>3, Zenon DEF Total
<1>7. \A i \in 0 .. m : s[i] \in Nat
  <2> SUFFICES ASSUME NEW i \in 0 .. m, s[i] \notin Nat PROVE FALSE
    OBVIOUS
  <2>1. PICK T : T = {k \in 0 .. m : s[k] \notin Nat}
    OBVIOUS
  <2>2. T \in SUBSET Nat /\ T # {}
    BY <2>1
  <2>3. PICK k \in T : \A j \in T : k <= j
    BY <2>2, LeastOne
  <2>4. k \in 0 .. m /\ s[k] \notin Nat /\ k # 0
    BY <1>5, <2>1, <2>3
  <2>5. k \in 1 .. m /\ k - 1 \in 0 .. m /\ ~(k <= k - 1)
    BY <2>4
  <2>6. k - 1 \notin T
    BY <2>3, <2>5
  <2>7. s[k - 1] \in Nat
    BY <2>1, <2>5, <2>6
  <2>8. s[k] = s[k - 1] + q[k].bytes /\ q[k].bytes \in Nat
    BY <1>2, <1>5, <2>5
  <2> QED
    BY <2>4, <2>7, <2>8
<1>8. \A i \in 1 .. m : s[1] <= s[i]
  <2> SUFFICES ASSUME NEW i \in 1 .. m, ~(s[1] <= s[i]) PROVE FALSE
    OBVIOUS
  <2>1. PICK T : T = {k \in 1 .. m : ~(s[1] <= s[k])}
    OBVIOUS
  <2>2. T \in SUBSET Nat /\ T # {}
    BY <2>1
  <2>3. PICK k \in T : \A j \in T : k <= j
    BY <2>2, LeastOne
  <2>4. k \in 1 .. m /\ ~(s[1] <= s[k]) /\ 1 \in 1 .. m /\ 1 \in 0 .. m
    BY <2>1, <2>3
  <2>5. s[1] \in Nat
    BY <1>7, <2>4
  <2>6. k # 1
    BY <2>4, <2>5
  <2>7. k - 1 \in 1 .. m /\ k - 1 \in 0 .. m /\ ~(k <= k - 1)
    BY <2>4, <2>6
  <2>8. k - 1 \notin T
    BY <2>3, <2>7
  <2>9. s[1] <= s[k - 1] /\ s[k - 1] \in Nat
    BY <1>7, <2>1, <2>7, <2>8
  <2>10. s[k] = s[k - 1] + q[k].bytes /\ q[k].bytes \in Nat
    BY <1>2, <1>5, <2>4
  <2> QED
    BY <2>4, <2>5, <2>9, <2>10
<1>9. Sums(s, q)
  BY <1>1, <1>5, <1>7, <1>8 DEF Sums
<1> QED
  BY <1>6, <1>9

\* The run of Decode over the first m records of q.
First(bytes) == [n |-> 0, left |-> bytes, verdict |-> "take"]
After(p, rec, id) ==
  LET v == Judge(rec, id, p.left)
  IN [n |-> p.n + (IF v = "take" THEN 1 ELSE 0), left |-> p.left - (IF v = "take" THEN rec.bytes ELSE 0), verdict |-> v]
RunTo(f, q, bytes, m) ==
  f = [i \in 0 .. m |-> IF i = 0 THEN First(bytes) ELSE IF f[i - 1].verdict # "take" THEN f[i - 1]
                        ELSE After(f[i - 1], q[i], recvID + i - 1)]
Runs(q, bytes, m) == \E f : RunTo(f, q, bytes, m)

StepByStep(f, q, bytes, m) ==
  /\ f[0] = First(bytes)
  /\ \A i \in 1 .. m : f[i] = IF f[i - 1].verdict # "take" THEN f[i - 1] ELSE After(f[i - 1], q[i], recvID + i - 1)

LEMMA RunIs ==
  ASSUME NEW q, NEW bytes, NEW m \in Nat, NEW f, RunTo(f, q, bytes, m)
  PROVE  StepByStep(f, q, bytes, m)
<1>1. \A i \in 0 .. m : f[i] = IF i = 0 THEN First(bytes) ELSE IF f[i - 1].verdict # "take" THEN f[i - 1]
                               ELSE After(f[i - 1], q[i], recvID + i - 1)
  BY DEF RunTo
<1>2. 0 \in 0 .. m /\ \A i \in 1 .. m : i \in 0 .. m /\ i # 0
  OBVIOUS
<1> QED
  BY <1>1, <1>2 DEF StepByStep

LEMMA RunStarts ==
  ASSUME NEW q, NEW bytes
  PROVE  Runs(q, bytes, 0)
<1>1. PICK f : f = [i \in 0 .. 0 |-> First(bytes)]
  OBVIOUS
<1>2. \A i \in 0 .. 0 : i = 0
  OBVIOUS
<1>3. RunTo(f, q, bytes, 0)
  BY <1>1, <1>2 DEF RunTo
<1> QED
  BY <1>3 DEF Runs

LEMMA RunGoesOn ==
  ASSUME NEW q, NEW bytes, NEW m \in Nat, Runs(q, bytes, m)
  PROVE  Runs(q, bytes, m + 1)
<1>1. PICK f : RunTo(f, q, bytes, m)
  BY DEF Runs
<1>2. PICK last : last = IF f[m].verdict # "take" THEN f[m] ELSE After(f[m], q[m + 1], recvID + (m + 1) - 1)
  OBVIOUS
<1>3. PICK g : g = [i \in 0 .. (m + 1) |-> IF i = m + 1 THEN last ELSE f[i]]
  OBVIOUS
<1>4. /\ f[0] = First(bytes)
      /\ \A i \in 1 .. m : f[i] = IF f[i - 1].verdict # "take" THEN f[i - 1] ELSE After(f[i - 1], q[i], recvID + i - 1)
  <2>1. StepByStep(f, q, bytes, m)
    BY <1>1, RunIs
  <2> QED
    BY <2>1, Zenon DEF StepByStep
<1>5. ASSUME NEW i \in 0 .. (m + 1)
      PROVE  g[i] = IF i = 0 THEN First(bytes) ELSE IF g[i - 1].verdict # "take" THEN g[i - 1]
                    ELSE After(g[i - 1], q[i], recvID + i - 1)
  <2>1. CASE i = 0
    BY <1>3, <1>4, <2>1
  <2>2. CASE i = m + 1
    <3>1. i - 1 = m /\ m \in 0 .. (m + 1) /\ m # m + 1 /\ i # 0
      BY <2>2
    <3>2. g[m] = f[m] /\ g[i] = last
      BY <1>3, <2>2, <3>1
    <3> QED
      BY <1>2, <2>2, <3>1, <3>2
  <2>3. CASE i # 0 /\ i # m + 1
    <3>1. i \in 1 .. m /\ i - 1 \in 0 .. (m + 1) /\ i - 1 # m + 1
      BY <2>3
    <3>2. g[i] = f[i] /\ g[i - 1] = f[i - 1]
      BY <1>3, <2>3, <3>1
    <3> QED
      BY <1>4, <2>3, <3>1, <3>2
  <2> QED
    BY <2>1, <2>2, <2>3
<1>6. RunTo(g, q, bytes, m + 1)
  BY <1>3, <1>5 DEF RunTo
<1> QED
  BY <1>6 DEF Runs

LEMMA RunsExist ==
  ASSUME NEW q, NEW bytes, NEW m \in Nat
  PROVE  Runs(q, bytes, m)
<1> SUFFICES ASSUME ~Runs(q, bytes, m) PROVE FALSE
  OBVIOUS
<1>1. PICK T : T = {k \in Nat : ~Runs(q, bytes, k)}
  OBVIOUS
<1>2. T \in SUBSET Nat /\ T # {}
  BY <1>1
<1>3. PICK k \in T : \A j \in T : k <= j
  BY <1>2, LeastOne
<1>4. k \in Nat /\ ~Runs(q, bytes, k)
  BY <1>1, <1>3
<1>5. k # 0
  BY <1>4, RunStarts
<1>6. PICK j \in Nat : k = j + 1
  <2>1. k - 1 \in Nat /\ k = (k - 1) + 1
    BY <1>4, <1>5
  <2> QED
    BY <2>1
<1>7. j \notin T
  BY <1>3, <1>4, <1>6
<1>8. Runs(q, bytes, j)
  BY <1>1, <1>7
<1> QED
  BY <1>4, <1>6, <1>8, RunGoesOn

\* Records as Decode expects them, the first under number id.
Awaited(q, chain, id) ==
  /\ q \in Seq(SsrRecord) /\ id \in Nat
  /\ \A i \in 1 .. Len(q) : /\ q[i].id = id + i - 1 /\ Sound(chain, q[i]) /\ 4 < q[i].bytes
                            /\ chain => q[i].hurt # "head"

\* How far Decode has come after i records, when n were taken.
Decoded(d, q, s, bytes, i) ==
  /\ d.n \in Nat /\ d.n <= i /\ d.left \in Nat /\ d.left + s[d.n] = bytes
  /\ d.verdict \in {"wait", "error", "take"}
  /\ d.verdict = "take" => d.n = i
  /\ d.verdict = "error" => d.n < i /\ q[d.n + 1].hurt # "none"
  /\ d.verdict = "wait" => d.n < i /\ d.left < q[d.n + 1].bytes

LEMMA DecodeStep ==
  ASSUME proto \in Protocols, NEW q, Awaited(q, IsChain, recvID), NEW s, Sums(s, q), NEW bytes \in Nat,
         NEW i \in 1 .. Len(q), NEW p, Decoded(p, q, s, bytes, i - 1), p.verdict = "take",
         NEW d, d = After(p, q[i], recvID + i - 1)
  PROVE  Decoded(d, q, s, bytes, i)
<1>1. q \in Seq(SsrRecord) /\ recvID \in Nat /\ i \in Nat /\ 1 <= i /\ q[i] \in SsrRecord
  BY DEF Awaited
<1>2. PICK rec \in SsrRecord : rec = q[i]
  BY <1>1
<1>3. PICK id \in Nat : id = recvID + i - 1
  BY <1>1
<1>4. rec.id = id /\ Sound(IsChain, rec) /\ 4 < rec.bytes /\ (IsChain => rec.hurt # "head")
  BY <1>2, <1>3 DEF Awaited
<1>5. p.n = i - 1 /\ p.left \in Nat /\ p.left + s[i - 1] = bytes
  BY DEF Decoded
<1>6. PICK come \in Nat : come = p.left
  BY <1>5
<1>7. PICK v : v = Judge(rec, id, come)
  OBVIOUS
<1>8. /\ v \in {"wait", "error", "take"}
      /\ v = "take" => rec.hurt = "none" /\ rec.bytes <= come
      /\ v = "error" => rec.hurt # "none"
      /\ v = "wait" => come <= 4 \/ come < rec.bytes
  BY <1>4, <1>7, Judged
<1>9. d = [n |-> p.n + (IF v = "take" THEN 1 ELSE 0), left |-> come - (IF v = "take" THEN rec.bytes ELSE 0), verdict |-> v]
  BY <1>2, <1>3, <1>6, <1>7, Zenon DEF After
<1>10. rec.bytes \in Nat
  BY DEF SsrRecord
<1>11. s[i] = s[i - 1] + rec.bytes /\ s[i] \in Nat /\ s[i - 1] \in Nat
  <2>1. i \in 0 .. Len(q) /\ i - 1 \in 0 .. Len(q)
    BY <1>1
  <2> QED
    BY <1>2, <2>1 DEF Sums
<1>12. CASE v = "take"
  <2>1. d.n = i /\ d.left = come - rec.bytes /\ d.verdict = "take"
    BY <1>1, <1>5, <1>9, <1>12
  <2>2. d.left \in Nat /\ d.left + s[i] = bytes
    BY <1>5, <1>6, <1>8, <1>10, <1>11, <1>12, <2>1
  <2> QED
    BY <1>1, <2>1, <2>2 DEF Decoded
<1>13. CASE v # "take"
  <2>1. d.n = i - 1 /\ d.left = come /\ d.verdict = v
    BY <1>1, <1>5, <1>9, <1>13
  <2>2. q[d.n + 1] = rec /\ d.n \in Nat /\ d.n < i /\ d.n <= i
    BY <1>1, <1>2, <2>1
  <2>3. d.left + s[d.n] = bytes
    BY <1>5, <1>6, <2>1
  <2>4. v = "wait" => come < rec.bytes
    BY <1>4, <1>8, <1>10
  <2> QED
    BY <1>8, <1>13, <2>1, <2>2, <2>3, <2>4 DEF Decoded
<1> QED
  BY <1>12, <1>13

LEMMA DecodeIs ==
  ASSUME proto \in Protocols, NEW q, Awaited(q, IsChain, recvID), NEW s, Sums(s, q), NEW bytes \in Nat
  PROVE  Decoded(Decode(q, bytes), q, s, bytes, Len(q))
<1>1. PICK m \in Nat : m = Len(q)
  BY DEF Awaited
<1> DEFINE Steps(f) ==
  [i \in 0 .. Len(q) |->
        IF i = 0 THEN [n |-> 0, left |-> bytes, verdict |-> "take"]
        ELSE IF f[i - 1].verdict # "take" THEN f[i - 1]
        ELSE LET v == Judge(q[i], recvID + i - 1, f[i - 1].left)
             IN [n |-> f[i - 1].n + (IF v = "take" THEN 1 ELSE 0),
                 left |-> f[i - 1].left - (IF v = "take" THEN q[i].bytes ELSE 0), verdict |-> v]]
<1>2. PICK c : c = CHOOSE f : f = Steps(f)
  OBVIOUS
<1>3. Decode(q, bytes) = c[Len(q)]
  BY <1>2, Zenon DEF Decode
<1>4. \A f : f = Steps(f) <=> RunTo(f, q, bytes, m)
  BY <1>1 DEF RunTo, First, After
<1> HIDE DEF Steps
<1>5. \E f : f = Steps(f)
  <2>1. Runs(q, bytes, m)
    BY RunsExist
  <2> QED
    BY <1>4, <2>1 DEF Runs
<1>6. c = Steps(c)
  BY <1>2, <1>5, Zenon
<1>7. RunTo(c, q, bytes, m)
  BY <1>4, <1>6
<1>8. /\ c[0] = First(bytes)
      /\ \A i \in 1 .. m : c[i] = IF c[i - 1].verdict # "take" THEN c[i - 1] ELSE After(c[i - 1], q[i], recvID + i - 1)
  <2>1. StepByStep(c, q, bytes, m)
    BY <1>7, RunIs
  <2> QED
    BY <2>1, Zenon DEF StepByStep
<1>9. Decoded(c[0], q, s, bytes, 0)
  <2>1. s[0] = 0
    BY DEF Sums
  <2>2. c[0].n = 0 /\ c[0].left = bytes /\ c[0].verdict = "take"
    BY <1>8 DEF First
  <2> QED
    BY <2>1, <2>2 DEF Decoded
<1>10. ASSUME NEW i \in 1 .. m, Decoded(c[i - 1], q, s, bytes, i - 1)
       PROVE  Decoded(c[i], q, s, bytes, i)
  <2>1. CASE c[i - 1].verdict = "take"
    <3>1. c[i] = After(c[i - 1], q[i], recvID + i - 1)
      BY <1>8, <2>1
    <3> QED
      BY <1>1, <1>10, <2>1, <3>1, DecodeStep
  <2>2. CASE c[i - 1].verdict # "take"
    <3>1. c[i] = c[i - 1]
      BY <1>8, <2>2
    <3>2. PICK d : d = c[i]
      OBVIOUS
    <3>3. Decoded(d, q, s, bytes, i - 1) /\ d.verdict # "take"
      BY <1>10, <2>2, <3>1, <3>2
    <3>4. Decoded(d, q, s, bytes, i)
      BY <3>3 DEF Decoded
    <3> QED
      BY <3>2, <3>4
  <2> QED
    BY <2>1, <2>2
<1>11. Decoded(c[m], q, s, bytes, m)
  <2> SUFFICES ASSUME ~Decoded(c[m], q, s, bytes, m) PROVE FALSE
    OBVIOUS
  <2>1. PICK T : T = {k \in 0 .. m : ~Decoded(c[k], q, s, bytes, k)}
    OBVIOUS
  <2>2. T \in SUBSET Nat /\ T # {}
    BY <2>1
  <2>3. PICK k \in T : \A j \in T : k <= j
    BY <2>2, LeastOne
  <2>4. k \in 0 .. m /\ ~Decoded(c[k], q, s, bytes, k)
    BY <2>1, <2>3
  <2>5. k # 0
    BY <1>9, <2>4
  <2>6. k \in 1 .. m /\ k - 1 \in 0 .. m /\ ~(k <= k - 1)
    BY <2>4, <2>5
  <2>7. k - 1 \notin T
    BY <2>3, <2>6
  <2>8. Decoded(c[k - 1], q, s, bytes, k - 1)
    BY <2>1, <2>6, <2>7
  <2> QED
    BY <1>10, <2>4, <2>6, <2>8
<1> QED
  BY <1>1, <1>3, <1>11

\* The byte after the first i records of q, when rep were sent in all.
NextFrom(q, rep, i) == IF i < Len(q) THEN q[i + 1].from ELSE rep
LeadOf(chain, id) == IF chain /\ id = 1 THEN 2 ELSE 0
Threads(q, chain, id, rep) ==
  \A i \in 1 .. Len(q) : /\ LeadOf(chain, id + i - 1) <= q[i].n
                         /\ q[i].from + q[i].n - LeadOf(chain, id + i - 1) = NextFrom(q, rep, i)

LEMMA OutputIs ==
  ASSUME Awaited(down, IsChain, recvID), Threads(down, IsChain, recvID, replied), NEW o, o = NextFrom(down, replied, 0),
         NEW k \in Nat, k <= Len(down)
  PROVE  Output(o, k) = NextFrom(down, replied, k)
<1>1. PICK m \in Nat : m = Len(down)
  BY DEF Awaited
<1> DEFINE Steps(f) ==
  [i \in 0 .. k |->
        IF i = 0 THEN o
        ELSE IF down[i].pos = down[i].at /\ down[i].from = f[i - 1]
             THEN f[i - 1] + down[i].n - Lead(recvID + i - 1) ELSE -1]
<1>2. PICK F : F = [i \in 0 .. k |-> NextFrom(down, replied, i)]
  OBVIOUS
<1>3. ASSUME NEW i \in 1 .. k
      PROVE  /\ down[i].pos = down[i].at /\ down[i].from = NextFrom(down, replied, i - 1)
             /\ NextFrom(down, replied, i - 1) + down[i].n - Lead(recvID + i - 1) = NextFrom(down, replied, i)
  <2>1. i \in 1 .. Len(down) /\ i \in Nat /\ 1 <= i
    BY <1>1
  <2>2. down[i].pos = down[i].at
    BY <2>1 DEF Awaited, Sound
  <2>3. i - 1 < Len(down) /\ (i - 1) + 1 = i
    BY <1>1, <2>1
  <2>4. down[i].from = NextFrom(down, replied, i - 1)
    BY <2>3 DEF NextFrom
  <2>5. Lead(recvID + i - 1) = LeadOf(IsChain, recvID + i - 1)
    BY DEF Lead, LeadOf, IsChain
  <2>6. down[i].from + down[i].n - LeadOf(IsChain, recvID + i - 1) = NextFrom(down, replied, i)
    BY <2>1 DEF Threads
  <2> QED
    BY <2>2, <2>4, <2>5, <2>6
<1>4. F = Steps(F)
  <2>1. ASSUME NEW i \in 0 .. k
        PROVE  F[i] = IF i = 0 THEN o
                      ELSE IF down[i].pos = down[i].at /\ down[i].from = F[i - 1]
                           THEN F[i - 1] + down[i].n - Lead(recvID + i - 1) ELSE -1
    <3>1. CASE i = 0
      BY <1>2, <3>1
    <3>2. CASE i # 0
      <4>1. i \in 1 .. k /\ i - 1 \in 0 .. k
        BY <3>2
      <4>2. F[i] = NextFrom(down, replied, i) /\ F[i - 1] = NextFrom(down, replied, i - 1)
        BY <1>2, <4>1
      <4> QED
        BY <1>3, <3>2, <4>1, <4>2
    <3> QED
      BY <3>1, <3>2
  <2> QED
    BY <1>2, <2>1
<1>5. PICK c : c = CHOOSE f : f = Steps(f)
  OBVIOUS
<1>6. c = Steps(c)
  BY <1>4, <1>5, Zenon
<1>7. Output(o, k) = c[k]
  BY <1>5, Zenon DEF Output
<1>8. ASSUME NEW i \in 0 .. k
      PROVE  c[i] = IF i = 0 THEN o
                    ELSE IF down[i].pos = down[i].at /\ down[i].from = c[i - 1]
                         THEN c[i - 1] + down[i].n - Lead(recvID + i - 1) ELSE -1
  BY <1>6
<1> HIDE DEF Steps
<1>9. c[k] = NextFrom(down, replied, k)
  <2> SUFFICES ASSUME c[k] # NextFrom(down, replied, k) PROVE FALSE
    OBVIOUS
  <2>1. PICK T : T = {i \in 0 .. k : c[i] # NextFrom(down, replied, i)}
    OBVIOUS
  <2>2. T \in SUBSET Nat /\ T # {}
    BY <2>1
  <2>3. PICK i \in T : \A j \in T : i <= j
    BY <2>2, LeastOne
  <2>4. i \in 0 .. k /\ c[i] # NextFrom(down, replied, i)
    BY <2>1, <2>3
  <2>5. i # 0
    BY <1>8, <2>4
  <2>6. i \in 1 .. k /\ i - 1 \in 0 .. k /\ ~(i <= i - 1)
    BY <2>4, <2>5
  <2>7. i - 1 \notin T
    BY <2>3, <2>6
  <2>8. c[i - 1] = NextFrom(down, replied, i - 1)
    BY <2>1, <2>6, <2>7
  <2> QED
    BY <1>3, <1>8, <2>4, <2>5, <2>6, <2>8
<1> QED
  BY <1>7, <1>9

\* What is left of the records when n were taken.
Shorter(q, u, chain, next, rep, n) ==
  /\ Awaited(u, chain, next) /\ Threads(u, chain, next, rep)
  /\ NextFrom(u, rep, 0) = NextFrom(q, rep, n)
  /\ u = <<>> <=> n = Len(q)
  /\ u # <<>> => n < Len(q) /\ u[1] = q[n + 1]

LEMMA RestIs ==
  ASSUME NEW q, NEW chain, NEW id, Awaited(q, chain, id), NEW rep, Threads(q, chain, id, rep),
         NEW n \in Nat, n <= Len(q), NEW u, u = SubSeq(q, n + 1, Len(q)),
         NEW next, next = id + n
  PROVE  Shorter(q, u, chain, next, rep, n)
<1>1. q \in Seq(SsrRecord) /\ id \in Nat
  BY DEF Awaited
<1>2. PICK m \in Nat : m = Len(q)
  BY <1>1
<1>3. u \in Seq(SsrRecord) /\ Len(u) = m - n /\ \A i \in 1 .. (m - n) : u[i] = q[n + i]
  BY <1>1, <1>2
<1>4. u = <<>> <=> Len(u) = 0
  BY <1>3, NotEmpty
<1>5. \A i \in 1 .. (m - n) : n + i \in 1 .. m /\ (id + n) + i - 1 = id + (n + i) - 1
  BY <1>1, <1>2
<1>6. \A i \in 0 .. (m - n) : NextFrom(u, rep, i) = NextFrom(q, rep, n + i)
  <2>1. ASSUME NEW i \in 0 .. (m - n) PROVE NextFrom(u, rep, i) = NextFrom(q, rep, n + i)
    <3>1. CASE i < m - n
      <4>1. i + 1 \in 1 .. (m - n) /\ n + (i + 1) = (n + i) + 1 /\ n + i < m
        BY <1>2, <3>1
      <4>2. u[i + 1] = q[(n + i) + 1]
        BY <1>3, <4>1
      <4> QED
        BY <1>2, <1>3, <3>1, <4>1, <4>2 DEF NextFrom
    <3>2. CASE ~(i < m - n)
      <4>1. ~(n + i < m)
        BY <1>2, <3>2
      <4> QED
        BY <1>2, <1>3, <3>2, <4>1 DEF NextFrom
    <3> QED
      BY <3>1, <3>2
  <2> QED
    BY <2>1
<1>7. ASSUME NEW i \in 1 .. (m - n)
      PROVE  u[i].id = (id + n) + i - 1 /\ Sound(chain, u[i]) /\ 4 < u[i].bytes /\ (chain => u[i].hurt # "head")
  <2>0. n + i \in 1 .. m /\ (id + n) + i - 1 = id + (n + i) - 1
    BY <1>5, <1>7
  <2>0a. u[i] = q[n + i]
    BY <1>3, <1>7
  <2>1. u[i] = q[n + i] /\ n + i \in 1 .. Len(q) /\ (id + n) + i - 1 = id + (n + i) - 1
    BY <1>2, <2>0, <2>0a
  <2> QED
    BY <2>1 DEF Awaited
<1>8. Awaited(u, chain, next)
  <2>1. next \in Nat
    BY <1>1
  <2> QED
    BY <1>3, <1>7, <2>1 DEF Awaited
<1>9. ASSUME NEW i \in 1 .. (m - n)
      PROVE  /\ LeadOf(chain, (id + n) + i - 1) <= u[i].n
             /\ u[i].from + u[i].n - LeadOf(chain, (id + n) + i - 1) = NextFrom(u, rep, i)
  <2>0. n + i \in 1 .. m /\ (id + n) + i - 1 = id + (n + i) - 1
    BY <1>5, <1>9
  <2>0a. u[i] = q[n + i]
    BY <1>3, <1>9
  <2>0b. i \in 0 .. (m - n)
    BY <1>9
  <2>1. u[i] = q[n + i] /\ n + i \in 1 .. Len(q) /\ (id + n) + i - 1 = id + (n + i) - 1 /\ i \in 0 .. (m - n)
    BY <1>2, <2>0, <2>0a, <2>0b
  <2>2. NextFrom(u, rep, i) = NextFrom(q, rep, n + i)
    BY <1>6, <2>1
  <2> QED
    BY <2>1, <2>2 DEF Threads
<1>10. Threads(u, chain, next, rep)
  BY <1>3, <1>9 DEF Threads
<1>11. NextFrom(u, rep, 0) = NextFrom(q, rep, n)
  <2>1. 0 \in 0 .. (m - n) /\ n + 0 = n
    BY <1>2
  <2> QED
    BY <1>6, <2>1
<1>12. u = <<>> <=> n = Len(q)
  BY <1>2, <1>3, <1>4
<1>13. ASSUME u # <<>> PROVE n < Len(q) /\ u[1] = q[n + 1]
  <2>1. n < m
    BY <1>2, <1>12, <1>13
  <2>2. 1 \in 1 .. (m - n)
    BY <1>2, <2>1
  <2> QED
    BY <1>2, <1>3, <2>1, <2>2
<1> QED
  BY <1>8, <1>10, <1>11, <1>12, <1>13, Zenon DEF Shorter

\* What is invariant of the server's side.
DownInv ==
  /\ Awaited(down, IsChain, recvID) /\ Threads(down, IsChain, recvID, replied)
  /\ replied \in Nat /\ under \in Nat /\ out = NextFrom(down, replied, 0)
  /\ err \in {"none", "error"}
  /\ err = "error" => down # <<>> /\ down[1].hurt # "none"
  /\ err = "none" => IF down = <<>> THEN under = 0 ELSE under = 0 \/ under < down[1].bytes

\* A record is sent.
Longer(q, u, chain, id, rep, end) ==
  /\ Awaited(u, chain, id) /\ Threads(u, chain, id, end)
  /\ NextFrom(u, end, 0) = NextFrom(q, rep, 0)
  /\ u # <<>> /\ (q # <<>> => u[1] = q[1])

LEMMA OneMoreRecord ==
  ASSUME NEW q, NEW chain, NEW id, Awaited(q, chain, id), NEW rep \in Nat, Threads(q, chain, id, rep),
         NEW rec \in SsrRecord, rec.id = id + Len(q), Sound(chain, rec), 4 < rec.bytes, chain => rec.hurt # "head",
         NEW n \in Nat, rec.n = n + LeadOf(chain, rec.id), rec.from = rep,
         NEW u, u = Append(q, rec), NEW end, end = rep + n
  PROVE  Longer(q, u, chain, id, rep, end)
<1>1. q \in Seq(SsrRecord) /\ id \in Nat
  BY DEF Awaited
<1>2. PICK m \in Nat : m = Len(q)
  BY <1>1
<1>3. u \in Seq(SsrRecord) /\ Len(u) = m + 1 /\ u[m + 1] = rec /\ \A i \in 1 .. m : u[i] = q[i]
  BY <1>1, <1>2
<1>4. (u = <<>> <=> Len(u) = 0) /\ (q = <<>> <=> m = 0)
  BY <1>1, <1>2, <1>3, NotEmpty
<1>5. ASSUME NEW i \in 0 .. m PROVE NextFrom(u, end, i) = NextFrom(q, rep, i)
  <2>1. i < m + 1
    OBVIOUS
  <2>2. NextFrom(u, end, i) = u[i + 1].from
    BY <1>3, <2>1 DEF NextFrom
  <2>3. CASE i < m
    <3>1. i + 1 \in 1 .. m
      BY <2>3
    <3> QED
      BY <1>2, <1>3, <2>2, <2>3, <3>1 DEF NextFrom
  <2>4. CASE i = m
    BY <1>2, <1>3, <2>2, <2>4 DEF NextFrom
  <2> QED
    BY <2>3, <2>4
<1>6. NextFrom(u, end, m + 1) = rep + n
  BY <1>3 DEF NextFrom
<1>7. LeadOf(chain, rec.id) \in Nat
  BY DEF LeadOf
<1>7a. \A i \in 1 .. (m + 1) : i \in 1 .. m \/ i = m + 1
  BY <1>2
<1>8. ASSUME NEW i \in 1 .. (m + 1)
      PROVE  u[i].id = id + i - 1 /\ Sound(chain, u[i]) /\ 4 < u[i].bytes /\ (chain => u[i].hurt # "head")
  <2>1. CASE i \in 1 .. m
    <3>1. u[i] = q[i] /\ i \in 1 .. Len(q)
      BY <1>2, <1>3, <2>1
    <3> QED
      BY <3>1 DEF Awaited
  <2>2. CASE i = m + 1
    <3>1. u[i] = rec /\ rec.id = id + i - 1
      BY <1>1, <1>2, <1>3, <2>2
    <3> QED
      BY <3>1
  <2> QED
    BY <1>7a, <2>1, <2>2, Zenon
<1>9. ASSUME NEW i \in 1 .. (m + 1)
      PROVE  /\ LeadOf(chain, id + i - 1) <= u[i].n
             /\ u[i].from + u[i].n - LeadOf(chain, id + i - 1) = NextFrom(u, end, i)
  <2>1. CASE i \in 1 .. m
    <3>1. u[i] = q[i] /\ i \in 1 .. Len(q) /\ i \in 0 .. m
      BY <1>2, <1>3, <2>1
    <3>2. NextFrom(u, end, i) = NextFrom(q, rep, i)
      BY <1>5, <3>1
    <3> QED
      BY <3>1, <3>2 DEF Threads
  <2>2. CASE i = m + 1
    <3>1. u[i] = rec /\ rec.id = id + i - 1
      BY <1>1, <1>2, <1>3, <2>2
    <3>2. rec.from + rec.n - LeadOf(chain, rec.id) = rep + n /\ LeadOf(chain, rec.id) <= rec.n
      BY <1>7
    <3> QED
      BY <1>6, <2>2, <3>1, <3>2
  <2> QED
    BY <1>7a, <2>1, <2>2, Zenon
<1>10. Awaited(u, chain, id)
  BY <1>1, <1>3, <1>8 DEF Awaited
<1>11. Threads(u, chain, id, end)
  BY <1>3, <1>9 DEF Threads
<1>12. NextFrom(u, end, 0) = NextFrom(q, rep, 0)
  BY <1>5
<1>13. u # <<>> /\ (q # <<>> => u[1] = q[1])
  <2>1. m # 0 => 1 \in 1 .. m
    OBVIOUS
  <2> QED
    BY <1>3, <1>4, <2>1
<1> QED
  BY <1>10, <1>11, <1>12, <1>13, Zenon DEF Longer

LEMMA ServerKeeps ==
  ASSUME RepliesFit, proto \in Protocols, DownInv, NEW n \in ReplySizes, ServerSends(n)
  PROVE  DownInv'
<1>1. n \in Nat /\ 0 < n /\ n <= 4093
  BY SsrAssumption DEF RepliesFit
<1>2. /\ Awaited(down, IsChain, recvID) /\ Threads(down, IsChain, recvID, replied)
      /\ replied \in Nat /\ under \in Nat /\ out = NextFrom(down, replied, 0)
      /\ down \in Seq(SsrRecord) /\ recvID \in Nat
  BY DEF DownInv, Awaited
<1>3. PICK id : id = recvID + Len(down)
  OBVIOUS
<1>4. id \in Nat
  BY <1>2, <1>3
<1>5. PICK r \in Padding(n + Lead(id), n), hurt \in {"none", "body"} \cup (IF proto \in Chain THEN {} ELSE {"head"}) :
        down' = Append(down, [PackData(id, replied, n + Lead(id), r) EXCEPT !.hurt = hurt])
  BY <1>3, Zenon DEF ServerSends
<1>6. replied' = replied + n /\ UNCHANGED <<proto, under, recvID, out, err>>
  BY DEF ServerSends
<1>7. Lead(id) = LeadOf(IsChain, id) /\ Lead(id) \in Nat /\ Lead(id) <= 2
  BY DEF Lead, LeadOf, IsChain
<1>8. PICK len \in Nat : len = n + Lead(id)
  BY <1>1, <1>7
<1>9. 0 < len /\ len <= 8100 /\ (IsChain => len <= 4095)
  BY <1>1, <1>7, <1>8
<1>10. PICK packed : packed = PackData(id, replied, len, r)
  OBVIOUS
<1>11. /\ packed \in SsrRecord /\ Sound(IsChain, packed) /\ packed.id = id /\ packed.from = replied /\ packed.n = len
       /\ 4 < packed.bytes
  BY <1>1, <1>2, <1>4, <1>5, <1>8, <1>9, <1>10, PackedIsSound
<1>12. PICK rec : rec = [packed EXCEPT !.hurt = hurt]
  OBVIOUS
<1>13. /\ rec \in SsrRecord /\ rec.id = id /\ rec.from = replied /\ rec.n = len /\ rec.hurt = hurt
       /\ rec.bytes = packed.bytes /\ rec.len = packed.len /\ rec.pos = packed.pos /\ rec.at = packed.at
  BY <1>5, <1>11, <1>12 DEF SsrRecord
<1>14. Sound(IsChain, rec) /\ 4 < rec.bytes
  BY <1>11, <1>13 DEF Sound
<1>15. IsChain => rec.hurt # "head"
  BY <1>5, <1>13 DEF IsChain
<1>16. down' = Append(down, rec)
  BY <1>5, <1>8, <1>10, <1>12
<1>17. rec.id = recvID + Len(down) /\ rec.n = n + LeadOf(IsChain, rec.id)
  BY <1>3, <1>7, <1>8, <1>13
<1>18. /\ Awaited(down', IsChain, recvID) /\ Threads(down', IsChain, recvID, replied + n)
       /\ NextFrom(down', replied + n, 0) = NextFrom(down, replied, 0)
       /\ down' # <<>> /\ (down # <<>> => down'[1] = down[1])
  <2>1. PICK u : u = down'
    OBVIOUS
  <2>2. PICK end : end = replied + n
    OBVIOUS
  <2>3. u = Append(down, rec)
    BY <1>16, <2>1
  <2>4. Longer(down, u, IsChain, recvID, replied, end)
    <3>1. PICK q : q = down
      OBVIOUS
    <3>2. PICK chain : chain = IsChain
      OBVIOUS
    <3>3. PICK rep \in Nat : rep = replied
      BY <1>2
    <3>4. PICK rc \in SsrRecord : rc = rec
      BY <1>13
    <3>5. Awaited(q, chain, recvID) /\ Threads(q, chain, recvID, rep)
      BY <1>2, <3>1, <3>2, <3>3
    <3>6. rc.id = recvID + Len(q) /\ 4 < rc.bytes /\ rc.from = rep
      BY <1>13, <1>14, <1>17, <3>1, <3>3, <3>4
    <3>7. Sound(chain, rc) /\ (chain => rc.hurt # "head")
      BY <1>14, <1>15, <3>2, <3>4
    <3>8. rc.n = n + LeadOf(chain, rc.id)
      BY <1>17, <3>2, <3>4
    <3>9. n \in Nat /\ end = rep + n /\ u = Append(q, rc)
      BY <1>1, <2>2, <2>3, <3>1, <3>3, <3>4
    <3>10. Longer(q, u, chain, recvID, rep, end)
      BY <3>5, <3>6, <3>7, <3>8, <3>9, OneMoreRecord
    <3> QED
      BY <3>1, <3>2, <3>3, <3>10
  <2>5. Longer(down, down', IsChain, recvID, replied, replied + n)
    BY <2>1, <2>2, <2>4
  <2> QED
    BY <2>5, Zenon DEF Longer
<1>19. IsChain' = IsChain
  BY <1>6 DEF IsChain
<1>20. replied' \in Nat
  BY <1>1, <1>2, <1>6
<1>21. err' \in {"none", "error"} /\ (err' = "error" => down'[1].hurt # "none")
  BY <1>6, <1>18 DEF DownInv
<1>22. err' = "none" => under' = 0 \/ under' < down'[1].bytes
  BY <1>6, <1>18 DEF DownInv
<1>23. out' = NextFrom(down', replied', 0) /\ under' \in Nat
  BY <1>2, <1>6, <1>18
<1>24. Awaited(down', IsChain', recvID') /\ Threads(down', IsChain', recvID', replied')
  BY <1>6, <1>18, <1>19
<1> QED
  BY <1>18, <1>20, <1>21, <1>22, <1>23, <1>24 DEF DownInv

LEMMA SsrReadKeeps ==
  ASSUME proto \in Protocols, DownInv, NEW piece \in Nat, Read(piece)
  PROVE  DownInv'
<1>1. /\ Awaited(down, IsChain, recvID) /\ Threads(down, IsChain, recvID, replied)
      /\ replied \in Nat /\ under \in Nat /\ out = NextFrom(down, replied, 0)
      /\ down \in Seq(SsrRecord) /\ recvID \in Nat
  BY DEF DownInv, Awaited
<1>2. PICK d : d = Decode(down, under + piece)
  OBVIOUS
<1>3. /\ under + piece <= Total(down)
      /\ out' = Output(out, d.n)
      /\ down' = SubSeq(down, d.n + 1, Len(down)) /\ recvID' = recvID + d.n
      /\ under' = (IF d.verdict = "error" THEN 0 ELSE d.left)
      /\ err' = (IF d.verdict = "error" THEN "error" ELSE "none")
      /\ proto' = proto /\ replied' = replied
  BY <1>2, Zenon DEF Read
<1>4. PICK s : Sums(s, down) /\ Total(down) = s[Len(down)]
  BY <1>1, TotalIsSum
<1>5. PICK bytes \in Nat : bytes = under + piece
  BY <1>1
<1>6. Decoded(d, down, s, bytes, Len(down))
  BY <1>1, <1>2, <1>4, <1>5, DecodeIs
<1>7. PICK m \in Nat : m = Len(down)
  BY <1>1
<1>8. /\ d.n \in Nat /\ d.n <= m /\ d.left \in Nat /\ d.left + s[d.n] = bytes
      /\ d.verdict \in {"wait", "error", "take"}
      /\ d.verdict = "take" => d.n = m
      /\ d.verdict = "error" => d.n < m /\ down[d.n + 1].hurt # "none"
      /\ d.verdict = "wait" => d.n < m /\ d.left < down[d.n + 1].bytes
  BY <1>6, <1>7 DEF Decoded
<1>9. /\ Awaited(down', IsChain, recvID + d.n) /\ Threads(down', IsChain, recvID + d.n, replied)
      /\ NextFrom(down', replied, 0) = NextFrom(down, replied, d.n)
      /\ down' = <<>> <=> d.n = Len(down)
      /\ down' # <<>> => d.n < Len(down) /\ down'[1] = down[d.n + 1]
  <2>1. PICK u : u = down'
    OBVIOUS
  <2>2. PICK from : from = recvID + d.n
    OBVIOUS
  <2>3. u = SubSeq(down, d.n + 1, Len(down)) /\ d.n \in Nat /\ d.n <= Len(down)
    BY <1>3, <1>7, <1>8, <2>1
  <2>4. PICK k \in Nat : k = d.n
    BY <2>3
  <2>5. Shorter(down, u, IsChain, from, replied, k)
    BY <1>1, <2>2, <2>3, <2>4, RestIs
  <2>6. Shorter(down, down', IsChain, recvID + d.n, replied, d.n)
    BY <2>1, <2>2, <2>4, <2>5
  <2> QED
    BY <2>6, Zenon DEF Shorter
<1>10. Output(out, d.n) = NextFrom(down, replied, d.n)
  BY <1>1, <1>7, <1>8, OutputIs
<1>11. out' = NextFrom(down', replied', 0)
  BY <1>3, <1>9, <1>10
<1>12. under' \in Nat /\ err' \in {"none", "error"} /\ replied' \in Nat
  BY <1>1, <1>3, <1>8
<1>13. ASSUME err' = "error" PROVE down' # <<>> /\ down'[1].hurt # "none"
  <2>1. d.verdict = "error"
    BY <1>3, <1>13
  <2> QED
    BY <1>7, <1>8, <1>9, <2>1
<1>14. ASSUME err' = "none" PROVE IF down' = <<>> THEN under' = 0 ELSE under' = 0 \/ under' < down'[1].bytes
  <2>1. d.verdict # "error" /\ under' = d.left
    BY <1>3, <1>14
  <2>2. CASE d.verdict = "take"
    <3>1. d.n = m /\ down' = <<>>
      BY <1>7, <1>8, <1>9, <2>2
    <3>2. s[m] \in Nat
      BY <1>4, <1>7 DEF Sums
    <3>3. bytes <= s[m] /\ d.left + s[m] = bytes
      BY <1>3, <1>4, <1>5, <1>7, <1>8, <3>1
    <3>4. d.left = 0
      BY <1>8, <3>2, <3>3
    <3> QED
      BY <2>1, <3>1, <3>4
  <2>3. CASE d.verdict = "wait"
    BY <1>7, <1>8, <1>9, <2>1, <2>3
  <2> QED
    BY <1>8, <2>1, <2>2, <2>3
<1>15. IsChain' = IsChain
  BY <1>3 DEF IsChain
<1>16. Awaited(down', IsChain', recvID') /\ Threads(down', IsChain', recvID', replied')
  BY <1>3, <1>9, <1>15
<1> QED
  BY <1>11, <1>12, <1>13, <1>14, <1>16 DEF DownInv

-----------------------------------------------------------------------------
(* The invariant.                                                          *)

SsrIInv == proto \in Protocols /\ UpInv /\ DownInv

LEMMA SsrStarts == SsrInit(Protocols) => SsrIInv
<1> SUFFICES ASSUME SsrInit(Protocols) PROVE SsrIInv
  OBVIOUS
<1>1. /\ proto \in Protocols /\ sentHeader = FALSE /\ packID = 1 /\ up = <<>> /\ written = 0
      /\ down = <<>> /\ replied = 0 /\ under = 0 /\ recvID = 1 /\ out = 0 /\ err = "none"
  BY DEF SsrInit
<1>2. Carry(<<>>, IsChain, 0, 1, 0, 1)
  BY CarryNone
<1>3. UpInv
  BY <1>1, <1>2 DEF UpInv
<1>4. Len(<<>>) = 0 /\ <<>> \in Seq(SsrRecord)
  OBVIOUS
<1>5. Awaited(<<>>, IsChain, 1) /\ Threads(<<>>, IsChain, 1, 0) /\ NextFrom(<<>>, 0, 0) = 0
  BY <1>4 DEF Awaited, Threads, NextFrom
<1>6. DownInv
  BY <1>1, <1>5 DEF DownInv
<1> QED
  BY <1>1, <1>3, <1>6 DEF SsrIInv

LEMMA SsrStays ==
  ASSUME RepliesFit, SsrIInv, [Encodes \/ Decodes]_ssrVars
  PROVE  SsrIInv'
<1>1. proto \in Protocols /\ UpInv /\ DownInv
  BY DEF SsrIInv
<1>2. ASSUME UNCHANGED <<proto, down, replied, under, recvID, out, err>> PROVE DownInv'
  BY <1>1, <1>2 DEF DownInv, IsChain
<1>3. ASSUME UNCHANGED <<proto, sentHeader, packID, up, written>> PROVE UpInv'
  BY <1>1, <1>3 DEF UpInv, IsChain
<1>4. ASSUME NEW n \in WriteSizes, Encode(n) PROVE SsrIInv'
  <2>1. UNCHANGED <<proto, down, replied, under, recvID, out, err>>
    BY <1>4 DEF Encode
  <2>2. UpInv'
    BY <1>1, <1>4, EncodeKeeps
  <2> QED
    BY <1>1, <1>2, <2>1, <2>2 DEF SsrIInv
<1>5. ASSUME NEW n \in ReplySizes, ServerSends(n) PROVE SsrIInv'
  <2>1. UNCHANGED <<proto, sentHeader, packID, up, written>>
    BY <1>5 DEF ServerSends
  <2>2. DownInv'
    BY <1>1, <1>5, ServerKeeps
  <2> QED
    BY <1>1, <1>3, <2>1, <2>2 DEF SsrIInv
<1>6. ASSUME NEW p \in Pieces, Read(p) PROVE SsrIInv'
  <2>1. UNCHANGED <<proto, sentHeader, packID, up, written>>
    BY <1>6 DEF Read
  <2>2. p \in Nat
    <3>1. down \in Seq(SsrRecord) /\ under \in Nat
      BY <1>1 DEF DownInv, Awaited
    <3>2. PICK s : Sums(s, down) /\ Total(down) = s[Len(down)]
      BY <3>1, TotalIsSum
    <3>3. Total(down) \in Nat
      BY <3>1, <3>2 DEF Sums
    <3>4. down # <<>> => down[1].bytes \in Nat
      <4>1. down # <<>> => down[1] \in SsrRecord
        BY <3>1
      <4> QED
        BY <4>1 DEF SsrRecord
    <3> QED
      BY <3>1, <3>3, <3>4 DEF Pieces
  <2>3. DownInv'
    BY <1>1, <1>6, <2>2, SsrReadKeeps
  <2> QED
    BY <1>1, <1>3, <2>1, <2>3 DEF SsrIInv
<1>7. CASE UNCHANGED ssrVars
  BY <1>1, <1>2, <1>3, <1>7 DEF ssrVars, SsrIInv
<1> QED
  BY <1>4, <1>5, <1>6, <1>7 DEF Encodes, Decodes

\* The records that go up carry what was written.
LEMMA UpIsUnderstood ==
  ASSUME SsrIInv
  PROVE  /\ \A i \in DOMAIN up :
              /\ up[i].from = (IF i = 1 THEN 0 ELSE up[i - 1].from + up[i - 1].n)
              /\ up[i].id > 0 => Judge(up[i], up[i].id, up[i].bytes + 1) = "take" /\ up[i].pos = up[i].at
              /\ i > 1 => up[i].id = up[i - 1].id + 1
         /\ up # <<>> => up[Len(up)].from + up[Len(up)].n = written
<1>1. PICK f : Carry(up, IsChain, 0, f, written, packID)
  BY Zenon DEF SsrIInv, UpInv
<1>2. up \in Seq(SsrRecord) /\ proto \in Protocols
  BY <1>1 DEF Carry, SsrIInv
<1>3. PICK m \in Nat : m = Len(up)
  BY <1>2
<1>4. DOMAIN up = 1 .. m /\ (up # <<>> <=> m # 0)
  BY <1>2, <1>3, NotEmpty
<1>5. /\ m # 0 => up[1].from = 0 /\ up[m].from + up[m].n = written
      /\ \A i \in 2 .. m : up[i].from = up[i - 1].from + up[i - 1].n /\ up[i].id = up[i - 1].id + 1
      /\ \A i \in 1 .. m : up[i].id > 0 => Sound(IsChain, up[i]) /\ up[i].hurt = "none"
  BY <1>1, <1>3, <1>4 DEF Carry
<1>6. ASSUME NEW i \in 1 .. m, up[i].id > 0
      PROVE  Judge(up[i], up[i].id, up[i].bytes + 1) = "take" /\ up[i].pos = up[i].at
  <2>1. PICK rec \in SsrRecord : rec = up[i]
    BY <1>2, <1>3
  <2>2. Sound(IsChain, rec) /\ rec.hurt = "none"
    BY <1>5, <1>6, <2>1
  <2>3. PICK id \in Nat : id = rec.id
    BY DEF SsrRecord
  <2>4. PICK come \in Nat : come = rec.bytes + 1
    BY DEF SsrRecord
  <2>5. rec.bytes <= come /\ 4 < come
    BY <2>2, <2>4 DEF Sound, SsrRecord
  <2>6. PICK v : v = Judge(rec, id, come)
    OBVIOUS
  <2>7. v = "take"
    BY <1>2, <2>2, <2>3, <2>5, <2>6, Judged
  <2>8. rec.pos = rec.at
    BY <2>2 DEF Sound
  <2> QED
    BY <2>1, <2>3, <2>4, <2>6, <2>7, <2>8
<1>7. ASSUME NEW i \in 1 .. m
      PROVE  /\ up[i].from = (IF i = 1 THEN 0 ELSE up[i - 1].from + up[i - 1].n)
             /\ i > 1 => up[i].id = up[i - 1].id + 1
  <2>1. m # 0 /\ (i = 1 \/ (i > 1 /\ i \in 2 .. m))
    OBVIOUS
  <2> QED
    BY <1>5, <2>1
<1> QED
  BY <1>3, <1>4, <1>5, <1>6, <1>7

LEMMA DownIsUnderstood ==
  ASSUME SsrIInv
  PROVE  /\ err = "error" => down[1].hurt # "none"
         /\ out >= 0 /\ out = (IF down = <<>> THEN replied ELSE down[1].from)
         /\ (err = "none" /\ down # <<>> /\ under = Total(down)) => under = 0
<1>1. DownInv /\ down \in Seq(SsrRecord) /\ replied \in Nat /\ out = NextFrom(down, replied, 0)
  BY DEF SsrIInv, DownInv, Awaited
<1>2. PICK m \in Nat : m = Len(down)
  BY <1>1
<1>3. (down = <<>> <=> m = 0) /\ (m # 0 => down[1] \in SsrRecord)
  BY <1>1, <1>2, NotEmpty
<1>4. m # 0 => down[1].from \in Nat /\ down[1].bytes \in Nat
  BY <1>3 DEF SsrRecord
<1>5. out = (IF down = <<>> THEN replied ELSE down[1].from)
  BY <1>1, <1>2, <1>3 DEF NextFrom
<1>6. out >= 0
  BY <1>1, <1>3, <1>4, <1>5
<1>7. ASSUME err = "none", down # <<>>, under = Total(down) PROVE under = 0
  <2>1. PICK s : Sums(s, down) /\ Total(down) = s[Len(down)]
    BY <1>1, TotalIsSum
  <2>2. m # 0 /\ 1 \in 1 .. m /\ m \in 1 .. m
    BY <1>3, <1>7
  <2>3. s[1] = s[1 - 1] + down[1].bytes /\ s[0] = 0 /\ s[1] <= s[m] /\ s[m] = under
    BY <1>2, <1>7, <2>1, <2>2 DEF Sums
  <2>4. down[1].bytes <= under
    BY <1>4, <2>2, <2>3
  <2>5. under = 0 \/ under < down[1].bytes
    BY <1>1, <1>7 DEF DownInv
  <2>6. under \in Nat
    BY <1>1 DEF DownInv
  <2> QED
    BY <1>4, <2>2, <2>4, <2>5, <2>6
<1>8. err = "error" => down[1].hurt # "none"
  BY <1>1 DEF DownInv
<1> QED
  BY <1>5, <1>6, <1>7, <1>8

LEMMA Understood == SsrIInv => RecordsAreUnderstood
BY UpIsUnderstood, DownIsUnderstood, Zenon DEF RecordsAreUnderstood

\* What one side writes the other can take: Encode's records carry the
\* written bytes once and in order, under consecutive numbers and in lengths
\* that Decode accepts; Decode gives the server's stream and fails only at a
\* damaged record (Encode, Decode and packData of ssr/protocol).  The server
\* is one that keeps to the lengths Decode takes.
THEOREM RecordsAreTaken == RepliesFit => (SsrSpec => []RecordsAreUnderstood)
<1> SUFFICES ASSUME RepliesFit PROVE SsrSpec => []RecordsAreUnderstood
  OBVIOUS
<1>1. SsrInit(Protocols) => SsrIInv
  BY SsrStarts
<1>2. SsrIInv /\ [Encodes \/ Decodes]_ssrVars => SsrIInv'
  BY SsrStays
<1>3. SsrIInv => RecordsAreUnderstood
  BY Understood
<1> QED
  BY <1>1, <1>2, <1>3, PTL DEF SsrSpec
=============================================================================
