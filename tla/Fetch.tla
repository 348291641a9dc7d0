-------------------------------- MODULE Fetch ---------------------------------
(***************************************************************************)
(* One fetch after another, as its thread sees it: a name is looked up at  *)
(* the nameservers of resolv.conf, a connection made, TLS spoken if the    *)
(* address asks for it, a request sent and what comes back taken apart in  *)
(* whatever pieces it arrives.                                             *)
(*                                                                         *)
(* A reply on the wire is a sequence of tokens, each one byte wide: <<"status", *)
(* n>>, <<"length", n>>, <<"chunked", 0>>, <<"other", 0>> and              *)
(* <<"junk", 0>> are lines, <<"size", n>> introduces a chunk, perhaps with  *)
(* an extension of several <<"ext", 0>>, <<"byte", n>> is data, CR and LF   *)
(* are themselves and may be data too.  The four limits keep their order:  *)
(* a header and a body fit a transfer.                                     *)
(***************************************************************************)
EXTENDS Integers, SequencesExt, FiniteSets

CONSTANTS
  Replies,          \* what a server may send: status, headers, framing,
                    \* declared length, chunks of the body, bytes of their
                    \* extensions, end of line
  Confs,            \* what resolv.conf may list: a sequence of lines
  Servers,          \* those lines that are IPv4 nameservers
  Public,           \* 8.8.8.8, for a device without any
  Messages,         \* what a nameserver may answer
  MaxNameservers,   \* kMaxNameservers
  MaxBody,          \* kMaxBodyBytes
  MaxHeader,        \* kMaxHeaderBytes
  MaxTransfer,      \* kMaxTransferBytes
  MaxSizeLine,      \* the longest wait for the end of a chunk's size
  Piece,            \* the most one read returns
  MaxFetches        \* bound

VARIABLES
  site,       \* what is fetched: whether by https, whether the host is an address
  phase,      \* how far the thread has come
  conf,       \* resolv.conf
  asked,      \* the nameservers that were asked in vain, in order
  preferred,  \* g_preferredNameserver
  reply,      \* what the server sends
  left,       \* the part of it that has not been read
  parser,     \* ResponseParser
  total,      \* bytes read
  result,     \* Exchange
  cut,        \* did the server, the network or TLS break the reply off
  fetches     \* how many were begun

reading == <<left, parser, total>>
vars == <<site, phase, conf, asked, preferred, reply, reading, result, cut, fetches>>

CR == <<"cr", 0>>
LF == <<"lf", 0>>
CRLF == <<CR, LF>>

-----------------------------------------------------------------------------
(* The wire.                                                               *)
Eol(r) == IF r.crlf THEN CRLF ELSE <<LF>>
Body(r) == FlattenSeq(r.chunks)

Framing(r) ==
  CASE r.framing = "length" -> <<<<"length", r.declared>>>> \o Eol(r)
    [] r.framing = "chunked" -> <<<<"chunked", 0>>>> \o Eol(r)
    [] OTHER -> <<>>

Header(r) ==
  <<<<"status", r.status>>>> \o Eol(r)
  \o FlattenSeq([i \in 1..Len(r.headers) |-> <<r.headers[i]>> \o Eol(r)])
  \o Framing(r) \o Eol(r)

Chunk(r, data) ==
  <<<<"size", Len(data)>>>> \o [i \in 1..r.extension |-> <<"ext", 0>>] \o CRLF \o data \o CRLF

Chunked(r, n) == FlattenSeq([i \in 1..n |-> Chunk(r, r.chunks[i])])

Wire(r) ==
  Header(r)
  \o IF r.framing = "chunked" THEN Chunked(r, Len(r.chunks)) \o Chunk(r, <<>>)
     ELSE Body(r)

Kept(r) == SubSeq(Body(r), 1, IF Len(Body(r)) < MaxBody THEN Len(Body(r)) ELSE MaxBody)

(* A server that does what it says, in headers that fit although each byte *)
(* may be counted twice, and in chunks that begin with a short line.       *)
Sound(r) ==
  /\ \A i \in 1..Len(r.headers) : r.headers[i][1] = "other"
  /\ r.framing = "length" => r.declared = Len(Body(r))
  /\ 2 * Len(Header(r)) <= MaxHeader
  /\ r.framing = "chunked" => r.extension + 2 <= MaxSizeLine
  /\ r.status > 0

(* By the end of these chunks as much is sent as is kept. *)
Enough(r) ==
  {n \in 0..Len(r.chunks) : Len(FlattenSeq(SubSeq(r.chunks, 1, n))) >= Len(Kept(r))}

(* The chunk that fills what is kept ends within a transfer. *)
Fits(r) ==
  r.framing = "chunked" => \E n \in Enough(r) : Len(Header(r) \o Chunked(r, n)) <= MaxTransfer

-----------------------------------------------------------------------------
(* The parser.                                                             *)
Fresh ==
  [stage |-> "status", pending |-> <<>>, status |-> 0, chunked |-> FALSE, length |-> -1,
   body |-> <<>>, taken |-> 0, truncated |-> FALSE, headerBytes |-> 0]

Broken(p) == [p EXCEPT !.stage = "broken"]
Complete(p) == [p EXCEPT !.stage = "complete", !.pending = <<>>]
Drop(p, n) == [p EXCEPT !.pending = SubSeq(@, n + 1, Len(@))]

(* consumeStatusLine, of a line without its end *)
StatusLine(p, line) ==
  IF Len(line) = 1 /\ line[1][1] = "status" /\ line[1][2] > 0
  THEN [p EXCEPT !.status = line[1][2], !.stage = "headers"]
  ELSE Broken(p)

(* consumeHeader: chunked wins over a length before it, not over one after. *)
HeaderLine(p, line) ==
  CASE line = <<>> /\ p.status \in {204, 304} -> [p EXCEPT !.stage = "complete"]
    [] line = <<>> /\ p.status \notin {204, 304} ->
         [p EXCEPT !.stage = IF p.chunked THEN "chunk" ELSE "body"]
    [] Len(line) = 1 /\ line[1][1] = "length" -> [p EXCEPT !.length = line[1][2]]
    [] Len(line) = 1 /\ line[1][1] = "chunked" -> [p EXCEPT !.chunked = TRUE, !.length = -1]
    [] Len(line) = 1 /\ line[1][1] = "other" -> p
    [] OTHER -> Broken(p)

Room(p) == IF MaxBody > Len(p.body) THEN MaxBody - Len(p.body) ELSE 0

(* Up to as much of the data as is kept.                                   *)
Take(p, data) ==
  [p EXCEPT !.body = @ \o SubSeq(data, 1, IF Len(data) < Room(p) THEN Len(data) ELSE Room(p)),
            !.truncated = @ \/ Len(data) > Room(p)]

(* consumeBody *)
ReadBody(p) ==
  LET q == [Take(p, p.pending) EXCEPT !.taken = @ + Len(p.pending), !.pending = <<>>] IN
  IF (q.length >= 0 /\ q.taken >= q.length) \/ (q.truncated /\ q.length < 0)
  THEN Complete(q) ELSE q

FirstCrlf(bytes) == {i \in 1..(Len(bytes) - 1) :
                       /\ SubSeq(bytes, i, i + 1) = CRLF
                       /\ \A j \in 1..(i - 1) : SubSeq(bytes, j, j + 1) # CRLF}


(* A chunk is taken whole, with the end of line behind it, or not at all.  *)
ReadChunk(p, at, size) ==
  IF Len(p.pending) < at + 3 + size THEN p
  ELSE Drop(Take(p, SubSeq(p.pending, at + 2, at + 1 + size)), at + 3 + size)

(* The size of a chunk, whatever is behind it in the line. *)
IsSize(line) ==
  Len(line) >= 1 /\ line[1][1] = "size" /\ \A i \in 2..Len(line) : line[i][1] = "ext"

(* consumeChunks *)
RECURSIVE ReadChunks(_)
ReadChunks(p) ==
  IF FirstCrlf(p.pending) = {} THEN IF Len(p.pending) > MaxSizeLine THEN Broken(p) ELSE p
  ELSE
    LET at == CHOOSE i \in FirstCrlf(p.pending) : TRUE
        line == SubSeq(p.pending, 1, at - 1)
    IN IF ~IsSize(line) THEN Broken(p)
       ELSE IF line[1][2] = 0 THEN Complete(p)
       ELSE LET q == ReadChunk(p, at, line[1][2]) IN
            IF q.truncated THEN Complete(q)
            ELSE IF q = p THEN p ELSE ReadChunks(q)

Ends(bytes) == {i \in 1..Len(bytes) : bytes[i] = LF /\ \A j \in 1..(i - 1) : bytes[j] # LF}

(* The line that ends at a place, without its end.                         *)
LineTo(bytes, at) ==
  IF at > 1 /\ bytes[at - 1] = CR THEN SubSeq(bytes, 1, at - 2) ELSE SubSeq(bytes, 1, at - 1)

(* feed, after the bytes were appended: line after line, then the body.    *)
RECURSIVE Consume(_, _)
Consume(p, size) ==
  CASE p.stage \in {"status", "headers"} /\ Ends(p.pending) = {} ->
         LET q == [p EXCEPT !.headerBytes = @ + size] IN
         IF q.headerBytes > MaxHeader THEN Broken(q) ELSE q
    [] p.stage \in {"status", "headers"} /\ Ends(p.pending) # {} ->
         LET at == CHOOSE i \in Ends(p.pending) : TRUE
             q == [p EXCEPT !.headerBytes = @ + at]
             line == LineTo(p.pending, at)
             r == IF p.stage = "status" THEN StatusLine(q, line) ELSE HeaderLine(q, line)
         IN IF q.headerBytes > MaxHeader THEN Broken(q) ELSE Consume(Drop(r, at), size)
    [] p.stage = "body" -> ReadBody(p)
    [] p.stage = "chunk" -> ReadChunks(p)
    [] OTHER -> p

Feed(p, bytes) ==
  IF p.stage \in {"broken", "complete"} THEN p
  ELSE Consume([p EXCEPT !.pending = @ \o bytes], Len(bytes))

-----------------------------------------------------------------------------
(* The nameservers.                                                        *)

(* parseNameservers: every one once, in order, whatever else is listed.    *)
Listed(lines) ==
  FoldLeft(LAMBDA found, line :
             IF line \in Servers /\ line \notin Range(found) /\ Len(found) < MaxNameservers
             THEN Append(found, line) ELSE found, <<>>, lines)

Nameservers == IF Listed(conf) = <<>> THEN <<Public>> ELSE Listed(conf)

(* dns::parse: the first address in an answer to the question that was     *)
(* asked.  No answer in two seconds is as good as one to another question. *)
Understood(message) ==
  /\ message.own /\ message.response /\ ~message.short /\ message.code = "ok"
  /\ \E i \in 1..Len(message.records) :
       /\ message.records[i] = "a"
       /\ \A j \in 1..i : message.records[j] # "torn"

(* Each in turn, from the one that answered last.                          *)
Turn(attempt) == (preferred + attempt) % Len(Nameservers)

-----------------------------------------------------------------------------
Nothing == [ok |-> FALSE, status |-> 0, body |-> <<>>, why |-> "nothing"]

Init ==
  /\ site = [secure |-> FALSE, literal |-> TRUE]
  /\ phase = "idle"
  /\ conf \in Confs
  /\ asked = <<>>
  /\ preferred = 0
  /\ reply \in Replies
  /\ left = <<>> /\ parser = Fresh /\ total = 0
  /\ result = Nothing
  /\ cut = FALSE
  /\ fetches = 0

End(outcome) ==
  /\ phase' = "ended"
  /\ result' = outcome

Failed(why) == [Nothing EXCEPT !.why = why]

(* begin, and what the conf is like this time.  https is refused without  *)
(* roots, never spoken as http.                                            *)
Begin ==
  /\ phase \in {"idle", "ended"}
  /\ fetches < MaxFetches
  /\ fetches' = fetches + 1
  /\ site' \in [secure : BOOLEAN, literal : BOOLEAN]
  /\ IF site'.literal THEN UNCHANGED conf
     ELSE conf' \in Confs
  /\ asked' = <<>> /\ left' = <<>> /\ parser' = Fresh /\ total' = 0 /\ cut' = FALSE
  /\ \/ phase' = (IF site'.literal THEN "connecting" ELSE "resolving") /\ result' = Nothing
     \/ site'.secure /\ End(Failed("no tls"))
  /\ UNCHANGED <<preferred, reply>>

(* askNameserver, and what resolve makes of it.                            *)
Ask ==
  /\ phase = "resolving"
  /\ Len(asked) < Len(Nameservers)
  /\ LET index == Turn(Len(asked))
     IN \E message \in Messages :
          IF Understood(message)
          THEN preferred' = index /\ phase' = "connecting" /\ asked' = <<>>
          ELSE /\ asked' = Append(asked, Nameservers[index + 1])
               /\ UNCHANGED <<preferred, phase>>
  /\ UNCHANGED <<site, conf, reply, reading, result, cut, fetches>>

Unresolved ==
  /\ phase = "resolving"
  /\ Len(asked) = Len(Nameservers)
  /\ End(Failed("cannot resolve"))
  /\ UNCHANGED <<site, conf, asked, preferred, reply, reading, cut, fetches>>

(* connectWithin, Tls::connect and sendAll, each of which may give up.     *)
Advance(from, to, why) ==
  /\ phase = from
  /\ \/ phase' = to /\ UNCHANGED <<result, cut>>
     \/ End(Failed(why)) /\ cut' = TRUE
  /\ UNCHANGED <<site, conf, asked, preferred, reply, reading, fetches>>

Connect == Advance("connecting", IF site.secure THEN "securing" ELSE "sending", "cannot reach")
Secure == Advance("securing", "sending", "tls failed")

Send ==
  /\ phase = "sending"
  /\ \/ /\ phase' = "reading"
        /\ reply' \in Replies /\ left' = Wire(reply')
        /\ UNCHANGED <<result, cut>>
     \/ End(Failed("send failed")) /\ cut' = TRUE /\ UNCHANGED <<reply, left>>
  /\ UNCHANGED <<site, conf, asked, preferred, parser, total, fetches>>

(* What the thread leaves behind.                                          *)
Outcome(p) ==
  IF p.stage = "broken" THEN Failed("malformed")
  ELSE IF p.status = 0 THEN Failed("no response")
  ELSE [ok |-> TRUE, status |-> p.status, body |-> p.body, why |-> "nothing"]

(* One read, of as much as has arrived.                                    *)
Receive(n) ==
  /\ phase = "reading"
  /\ n <= Len(left)
  /\ left' = SubSeq(left, n + 1, Len(left))
  /\ total' = total + n
  /\ parser' = Feed(parser, SubSeq(left, 1, n))
  /\ IF parser'.stage \in {"broken", "complete"} \/ total' > MaxTransfer
     THEN End(Outcome(parser')) ELSE UNCHANGED <<phase, result>>
  /\ UNCHANGED <<site, conf, asked, preferred, reply, cut, fetches>>

(* The server closes: after all of it, or before.                          *)
Close ==
  /\ phase = "reading"
  /\ cut' = (left # <<>>)
  /\ End(Outcome(parser))
  /\ UNCHANGED <<site, conf, asked, preferred, reply, reading, fetches>>

(* Nothing arrives for ten seconds, the connection breaks, or TLS ends     *)
(* without its goodbye.                                                    *)
Break ==
  /\ phase = "reading"
  /\ cut' = TRUE
  /\ End(Failed("read timed out"))
  /\ UNCHANGED <<site, conf, asked, preferred, reply, reading, fetches>>

Next ==
  \/ Begin \/ Ask \/ Unresolved \/ Connect \/ Secure \/ Send
  \/ \E n \in 1..Piece : Receive(n)
  \/ Close \/ Break

Spec == Init /\ [][Next]_vars

-----------------------------------------------------------------------------
TypeOK ==
  /\ phase \in {"idle", "resolving", "connecting", "securing", "sending", "reading", "ended"}
  /\ parser.stage \in {"status", "headers", "body", "chunk", "complete", "broken"}
  /\ Len(parser.body) <= MaxBody
  /\ preferred \in 0..(MaxNameservers - 1)

(* However a reply is cut into pieces: what a script is given is the       *)
(* beginning of what the server sent, all of it up to the limit unless the *)
(* reply was broken off or a chunk ends beyond a transfer; and a sound     *)
(* server is not refused.                                                  *)
WhatWasSentIsRead ==
  phase = "ended" =>
    /\ result.ok => result.status = reply.status /\ IsPrefix(result.body, Body(reply))
    /\ result.ok /\ ~cut /\ Sound(reply) /\ Fits(reply) => result.body = Kept(reply)
    /\ result.why \in {"malformed", "no response"} => cut \/ ~Sound(reply)

(* Tc002HttpClient.cpp:386-387: at the limit of a transfer "everything     *)
(* worth keeping is already kept".  Not of a chunk that is larger, which   *)
(* is waited for whole: the reply is taken for a success without it.       *)
WorthKeepingIsKept ==
  phase = "ended" /\ result.ok /\ ~cut /\ Sound(reply) => result.body = Kept(reply)

(* A name is given up only when none of the nameservers that are listed    *)
(* told it when it was asked, whichever of them answered last time.        *)
OneNameserverIsEnough ==
  result.why = "cannot resolve" => Range(asked) = Range(Nameservers)

=============================================================================
