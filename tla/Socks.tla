------------------------------- MODULE Socks -------------------------------
(***************************************************************************)
(* One SOCKS connection of a dynamic forward: the byte parser of           *)
(* src/src/app/tunnel/socks5.js, fed by startSocksRelay of relay.js with   *)
(* what TCP delivers, in pieces of any size.                               *)
(*                                                                         *)
(* Bytes are bytes here: the lengths in the greeting and in the request    *)
(* decide where each ends.  Left out: pauses, back-pressure and the way    *)
(* back from the target (module Relay), and the text an address is         *)
(* rendered to: a destination is its address type, its bytes and its port. *)
(***************************************************************************)
EXTENDS Naturals, Sequences

CONSTANTS
  Streams,  \* BOUND: what a client may send, each a sequence of bytes
  Refusals  \* the REP codes that forwardErrorToRep() tells failures apart by

ASSUME SocksAssumption == Streams \subseteq Seq(0..255)

VARIABLES
  stream, \* what this client sends
  got,    \* how many of its bytes have been delivered
  hs,     \* the Socks5Handshake: its buffer and its phase
  link,   \* "handshake", "opening", "open" or "over"
  held,   \* the bytes behind the request, until the channel is open
  asked,  \* the destinations a channel was asked for
  wrote,  \* what was written to the client
  passed  \* what was written to the channel

socksVars == <<stream, got, hs, link, held, asked, wrote, passed>>

Ver == 5
Connect == 1
AddressTypes == {1, 3, 4}

ReplyBuffer(rep) == <<Ver, rep, 0, 1, 0, 0, 0, 0, 0, 0>>

From(s, n) == SubSeq(s, n + 1, Len(s))

-----------------------------------------------------------------------------
(* What a call of feed() returns, with the buffer it leaves.               *)
NeedMore(buf) == [status |-> "need-more", buf |-> buf, send |-> <<>>]

Failed(buf, send, rep) == [status |-> "error", buf |-> buf, send |-> send, rep |-> rep]

ParseGreeting(buf) ==
  IF Len(buf) < 2 THEN NeedMore(buf)
  ELSE IF buf[1] # Ver THEN Failed(buf, <<>>, 1)
  ELSE IF Len(buf) < 2 + buf[2] THEN NeedMore(buf)
  ELSE LET rest == From(buf, 2 + buf[2])
       IN  IF \E i \in 3..(2 + buf[2]) : buf[i] = 0
           THEN [status |-> "greeting", buf |-> rest, send |-> <<Ver, 0>>]
           ELSE Failed(rest, <<Ver, 255>>, 2)

(* readAddress(): the index behind the address, 0 while it is not all      *)
(* there.                                                                  *)
AddressEnd(buf) ==
  LET end == CASE buf[4] = 1 -> 8
               [] buf[4] = 4 -> 20
               [] buf[4] = 3 -> IF Len(buf) < 5 THEN Len(buf) + 1 ELSE 5 + buf[5]
  IN  IF Len(buf) < end THEN 0 ELSE end

Destination(buf, end) ==
  [atyp |-> buf[4], addr |-> SubSeq(buf, IF buf[4] = 3 THEN 6 ELSE 5, end),
   port |-> 256 * buf[end + 1] + buf[end + 2]]

ParseRequest(buf) ==
  IF Len(buf) < 4 THEN NeedMore(buf)
  ELSE IF buf[1] # Ver THEN Failed(buf, <<>>, 1)
  ELSE IF buf[4] \notin AddressTypes THEN Failed(buf, <<>>, 8)
  ELSE LET end == AddressEnd(buf)
       IN  IF end = 0 \/ Len(buf) < end + 2 THEN NeedMore(buf)
           ELSE IF buf[2] # Connect THEN Failed(<<>>, <<>>, 7)
           ELSE [status |-> "request", buf |-> <<>>, send |-> <<>>,
                 dst |-> Destination(buf, end), leftover |-> From(buf, end + 2)]

(* Mutant: what came along with the greeting is not kept for the request.  *)
Step_Mutant(h, chunk) ==
  LET buf == h.buf \o chunk
      g == ParseGreeting(buf)
  IN  IF h.phase = "request" THEN [phase |-> "request", reply |-> ParseRequest(buf)]
      ELSE IF g.status # "greeting" THEN [phase |-> "greeting", reply |-> g]
      ELSE [phase |-> "request", reply |-> [NeedMore(<<>>) EXCEPT !.send = g.send]]

(* feed(): both phases in turn, as far as the bytes go; the reply to the   *)
(* greeting is handed over with whatever the request comes to.             *)
Step(h, chunk) ==
  LET buf == h.buf \o chunk
      g == ParseGreeting(buf)
  IN  IF h.phase = "request" THEN [phase |-> "request", reply |-> ParseRequest(buf)]
      ELSE IF g.status # "greeting" THEN [phase |-> "greeting", reply |-> g]
      ELSE [phase |-> "request", reply |-> [ParseRequest(g.buf) EXCEPT !.send = g.send]]

-----------------------------------------------------------------------------
SocksInit ==
  /\ stream \in Streams /\ got = 0
  /\ hs = [buf |-> <<>>, phase |-> "greeting"]
  /\ link = "handshake"
  /\ held = <<>> /\ asked = <<>> /\ wrote = <<>> /\ passed = <<>>

Chunk(n) == SubSeq(stream, got + 1, got + n)

(* onHandshakeData(): a reply that is due goes out first.  A request takes *)
(* the listener off and pauses the socket until the channel is there.      *)
Feed(n) ==
  LET step == Step(hs, Chunk(n))
      r == step.reply
  IN  /\ link = "handshake" /\ got + n <= Len(stream)
      /\ got' = got + n
      /\ hs' = [buf |-> r.buf, phase |-> IF r.status = "request" THEN "done" ELSE step.phase]
      /\ \/ /\ r.status = "need-more"
            /\ wrote' = wrote \o r.send
            /\ UNCHANGED <<link, held, asked>>
         \/ /\ r.status = "error"
            /\ wrote' = wrote \o r.send \o ReplyBuffer(r.rep)
            /\ link' = "over"
            /\ UNCHANGED <<held, asked>>
         \/ /\ r.status = "request"
            /\ wrote' = wrote \o r.send
            /\ link' = "opening"
            /\ asked' = Append(asked, r.dst)
            /\ held' = r.leftover
      /\ UNCHANGED <<stream, passed>>

(* forwardOut() succeeds: the client hears of it, and what it sent along   *)
(* with its request goes ahead of what the pipe brings.                    *)
ChannelOpens ==
  /\ link = "opening"
  /\ link' = "open"
  /\ wrote' = wrote \o ReplyBuffer(0)
  /\ passed' = passed \o held /\ held' = <<>>
  /\ UNCHANGED <<stream, got, hs, asked>>

ChannelFails(rep) ==
  /\ link = "opening"
  /\ link' = "over"
  /\ wrote' = wrote \o ReplyBuffer(rep)
  /\ UNCHANGED <<stream, got, hs, held, asked, passed>>

Piped(n) ==
  /\ link = "open" /\ got + n <= Len(stream)
  /\ got' = got + n
  /\ passed' = passed \o Chunk(n)
  /\ UNCHANGED <<stream, hs, link, held, asked, wrote>>

(* finish(): an end closes, or the tunnel drops its relays.                *)
ClientGone ==
  /\ link # "over"
  /\ link' = "over"
  /\ UNCHANGED <<stream, got, hs, held, asked, wrote, passed>>

SocksNext ==
  \/ \E n \in 1..Len(stream) : Feed(n) \/ Piped(n)
  \/ ChannelOpens \/ ClientGone
  \/ \E rep \in Refusals : ChannelFails(rep)

SocksSpec == SocksInit /\ [][SocksNext]_socksVars

-----------------------------------------------------------------------------
(* The protocol as the comment on top of socks5.js lays it out, by what    *)
(* the bytes are and not by how they arrive.                               *)
IsGreeting(g) ==
  /\ Len(g) >= 2 /\ g[1] = Ver /\ Len(g) = 2 + g[2]
  /\ \E i \in 3..Len(g) : g[i] = 0

IsConnect(q, dst) ==
  /\ q = <<Ver, Connect, q[3], dst.atyp>>
           \o (IF dst.atyp = 3 THEN <<Len(dst.addr)>> ELSE <<>>) \o dst.addr
           \o <<dst.port \div 256, dst.port % 256>>
  /\ \/ dst.atyp = 1 /\ Len(dst.addr) = 4
     \/ dst.atyp = 3
     \/ dst.atyp = 4 /\ Len(dst.addr) = 16

(* However a client's bytes are cut up on the way, a channel is asked for  *)
(* exactly when a greeting that offers no-auth and a CONNECT request have  *)
(* arrived, once, for the address in the request; the client has then been *)
(* answered 05 00 and nothing else yet; and every byte behind the request, *)
(* those that came along with it too, reaches the target in order.         *)
(* (socks5.js:26-39, 172-180; relay.js:421-426, 463-471)                   *)
ChunksDoNotMatter ==
  LET sofar == SubSeq(stream, 1, got)
      Requests == {p \in (2..got) \X (8..got) :
                     LET q == SubSeq(sofar, p[1] + 1, p[2])
                     IN  /\ p[1] + 6 < p[2] /\ IsGreeting(SubSeq(sofar, 1, p[1]))
                         /\ IsConnect(q, Destination(q, Len(q) - 2))}
  IN  /\ Requests = {} => asked = <<>>
      /\ \A p \in Requests :
           LET q == SubSeq(sofar, p[1] + 1, p[2])
           IN  /\ asked = <<Destination(q, Len(q) - 2)>>
               /\ SubSeq(wrote, 1, 2) = <<Ver, 0>>
               /\ link = "opening" => Len(wrote) = 2
               /\ link = "open" => passed = From(sofar, p[2])
=============================================================================
