----------------------------- MODULE AppSockets ------------------------------
(* The web sockets an app of a session has over a connection of the pool     *)
(* (core/agent.py): WebSocketOLD, whose messages are frames of a stream, and *)
(* WebSocketSimulate, where the client sends requests, each a query and a    *)
(* post, and the app's messages go out in the responses.  Both read a stream *)
(* of bytes that arrives in pieces cut anywhere.  What the other end of a     *)
(* simulated one does is HttpSocket.                                         *)
(*                                                                           *)
(* A length, of four bytes, is two cells here for WebSocketSimulate, so that *)
(* it can be cut, and four for WebSocketOLD, whose code counts on it.        *)
EXTENDS HttpSocket, Integers

CONSTANTS
  MaxAsked,     \* bound: requests or frames of the client
  MaxAppSent,   \* bound: messages of the app
  MaxBatch      \* messages in a response (MAX_SEND_SIZE)

ASSUME BatchAssumption == MaxBatch \in Nat

VARIABLES
  mode,         \* "old" or "simulate"
  wire,         \* cells under way to the agent
  aAsked,       \* the requests the client sent
  parser,       \* what the reader keeps between two pieces
  aAt,          \* the reader: "read", "frames" or "wait"
  served,       \* what the app was handed: the cells, for each frame, or the length
                \* of each query
  list,         \* _data_list
  aSent,        \* messages the app sent
  aGot,         \* messages the client has
  aAnswered,    \* responses the client has
  aClosed,      \* _bclose
  aLink         \* the socket and its connection: "none", "open" or "over"

aVars == <<mode, wire, aAsked, parser, aAt, served, list, aSent, aGot, aAnswered, aClosed,
           aLink>>

\* A request: whether it has a query, whether it waits for a message ("wait" 0),
\* whether it ends the socket ("destroy").  A frame: its number of data cells.
Request == [query : 0..1, wait : BOOLEAN, destroy : BOOLEAN]
Frame == [data : 0..2]

Length(n, v) == [i \in 1..n |-> [length |-> TRUE, at |-> i, v |-> v]]
Body(n) == [i \in 1..n |-> [length |-> FALSE, at |-> i, v |-> 0]]

\* The first cell of the body of a frame is its type.
Cells(m, r) == IF m = "old" THEN Length(4, r.data + 1) \o Body(r.data + 1)
               ELSE Length(2, r.query) \o Body(r.query) \o Length(2, 1) \o Body(1)

Reader(half, qlen, plen, qry, pst) ==
  [half |-> half, qlen |-> qlen, plen |-> plen, qry |-> qry, pst |-> pst]
Fresh == Reader("qry", -1, -1, <<>>, <<>>)

AInit ==
  /\ mode \in {"old", "simulate"}
  /\ wire = <<>> /\ aAsked = <<>> /\ parser = Fresh /\ aAt = "read" /\ served = <<>>
  /\ list = <<>> /\ aSent = 0 /\ aGot = <<>> /\ aAnswered = 0
  /\ aClosed = TRUE /\ aLink = "none"

\* _websocketOLD and _websocketsimulate: the app accepts, or the socket is
\* closed and the request answered with an error.
Accept ==
  /\ aLink = "none" /\ aClosed' = FALSE /\ aLink' = "open"
  /\ UNCHANGED <<mode, wire, aAsked, parser, aAt, served, list, aSent, aGot, aAnswered>>

-----------------------------------------------------------------------------
(* The client                                                                *)

\* Frames at any time; a request when the last one was answered.
ClientSends ==
  /\ aLink = "open" /\ Len(aAsked) < MaxAsked
  /\ mode = "simulate" => aAnswered = Len(aAsked)
  /\ \E r \in IF mode = "old" THEN Frame ELSE Request :
       aAsked' = Append(aAsked, r) /\ wire' = wire \o Cells(mode, r)
  /\ UNCHANGED <<mode, parser, aAt, served, list, aSent, aGot, aAnswered, aClosed, aLink>>

ClientCloses ==
  /\ aLink = "open" /\ aLink' = "over" /\ aClosed' = TRUE /\ list' = <<>>
  /\ UNCHANGED <<mode, wire, aAsked, parser, aAt, served, aSent, aGot, aAnswered>>

-----------------------------------------------------------------------------
(* WebSocketOLD                                                              *)

\* A piece of the stream comes, of any length.
Piece(n) == /\ aAt = "read" /\ ~aClosed /\ n \in 1..Len(wire)
            /\ wire' = SubSeq(wire, n + 1, Len(wire))

\* on_data_conn: the piece is put after what is left of the former ones.
OldPiece ==
  /\ mode = "old"
  /\ \E n \in 1..Len(wire) :
       /\ Piece(n)
       /\ parser' = [parser EXCEPT !.pst = @ \o SubSeq(wire, 1, n)]
  /\ aAt' = "frames"
  /\ UNCHANGED <<mode, aAsked, served, list, aSent, aGot, aAnswered, aClosed, aLink>>

\* What is left after the first frame.
Consumed(d) == SubSeq(d, 4 + d[1].v + 1, Len(d))

Whole(d) == Len(d) >= 4 /\ Len(d) - 4 >= d[1].v

\* What is taken for the body of the first frame: the bytes from the sixth on,
\* though its type is the fifth.  The last of them is the next frame's, if any of
\* that has come.
Handed(d) == SubSeq(d, 6, IF Len(d) < 5 + d[1].v THEN Len(d) ELSE 5 + d[1].v)

\* A whole frame has come: the app is handed that, with the first of it as the type.
\* There may be nothing there, and the socket is closed.
OldFrame ==
  /\ aAt = "frames" /\ Whole(parser.pst)
  /\ IF Len(parser.pst) < 6
       THEN /\ aClosed' = TRUE /\ aLink' = "over" /\ aAt' = "read"
            /\ UNCHANGED <<parser, served>>
       ELSE /\ parser' = [parser EXCEPT !.pst = Consumed(@)]
            /\ served' = Append(served, Handed(parser.pst))
            /\ UNCHANGED <<aAt, aClosed, aLink>>
  /\ UNCHANGED <<mode, wire, aAsked, list, aSent, aGot, aAnswered>>

OldRest ==
  /\ aAt = "frames" /\ ~Whole(parser.pst) /\ aAt' = "read"
  /\ UNCHANGED <<mode, wire, aAsked, parser, served, list, aSent, aGot, aAnswered, aClosed, aLink>>

-----------------------------------------------------------------------------
(* WebSocketSimulate                                                         *)

After(s, n) == SubSeq(s, n + 1, Len(s))

\* The query is read when all of it is there; what follows it is the beginning of
\* the post.
QueryCut(p, q, n) ==
  IF Len(q) >= n THEN Reader("pst", n, p.plen, SubSeq(q, 1, n), After(q, n))
                 ELSE Reader("qry", n, p.plen, q, p.pst)

\* The length comes first.
QueryRead(p) == CASE p.qlen # -1 -> QueryCut(p, p.qry, p.qlen)
                  [] p.qlen = -1 /\ Len(p.qry) >= 2 -> QueryCut(p, After(p.qry, 2), p.qry[1].v)
                  [] OTHER -> p

\* The post, likewise; what follows it is the beginning of the next query.
PostRead(p) == IF p.plen = -1 /\ Len(p.pst) >= 2
                 THEN Reader(p.half, p.qlen, p.pst[1].v, p.qry, After(p.pst, 2))
                 ELSE p

Complete(p) == p.half = "pst" /\ p.plen # -1 /\ Len(p.pst) >= p.plen

\* A piece is put after what is left of the half that is read, and read.
Parsed(p, piece) ==
  LET p1 == Reader(p.half, p.qlen, p.plen, IF p.half = "qry" THEN p.qry \o piece ELSE p.qry,
                   IF p.half = "pst" THEN p.pst \o piece ELSE p.pst)
      p2 == IF p1.half = "qry" THEN QueryRead(p1) ELSE p1
  IN  IF p2.half = "pst" THEN PostRead(p2) ELSE p2

\* on_data_conn: the messages of a whole request are handed to the app.
SimPiece ==
  /\ mode = "simulate"
  /\ \E n \in 1..Len(wire) :
       LET p == Parsed(parser, SubSeq(wire, 1, n))
       IN  /\ Piece(n)
           /\ IF Complete(p)
                THEN /\ parser' = Reader("qry", -1, -1, After(p.pst, p.plen), <<>>)
                     /\ served' = Append(served, Len(p.qry))
                     /\ aAt' = "wait"
                ELSE parser' = p /\ UNCHANGED <<served, aAt>>
  /\ UNCHANGED <<mode, aAsked, list, aSent, aGot, aAnswered, aClosed, aLink>>

\* What is left in the list after a response with its first n messages.
TakenOff(n) == After(list, n)

\* The response: after the wait asked for, or as soon as there is a message.
\* A request that says so ends the socket.
Respond ==
  /\ aAt = "wait" /\ ~aClosed
  /\ LET r == aAsked[Len(served)] IN
     /\ r.wait /\ ~r.destroy => list # <<>>
     /\ \E n \in 0..MaxBatch :
          /\ n = (IF Len(list) < MaxBatch THEN Len(list) ELSE MaxBatch)
          /\ aGot' = aGot \o SubSeq(list, 1, n)
          /\ list' = IF r.destroy THEN <<>> ELSE TakenOff(n)
     /\ aAnswered' = aAnswered + 1 /\ aAt' = "read"
     /\ IF r.destroy THEN aClosed' = TRUE /\ aLink' = "over"
                     ELSE UNCHANGED <<aClosed, aLink>>
  /\ UNCHANGED <<mode, wire, aAsked, parser, served, aSent>>

\* The socket was closed while the reader waited.
WaitEnds ==
  /\ aAt = "wait" /\ aClosed /\ aAt' = "read"
  /\ UNCHANGED <<mode, wire, aAsked, parser, served, list, aSent, aGot, aAnswered, aClosed, aLink>>

-----------------------------------------------------------------------------
(* The app                                                                   *)

\* send_string, send_bytes: at once on the connection, or put in the list.
Send ==
  /\ ~aClosed /\ aSent < MaxAppSent /\ aSent' = aSent + 1
  /\ IF mode = "old" THEN aGot' = Append(aGot, aSent + 1) /\ UNCHANGED list
                     ELSE list' = Append(list, aSent + 1) /\ UNCHANGED aGot
  /\ UNCHANGED <<mode, wire, aAsked, parser, aAt, served, aAnswered, aClosed, aLink>>

\* close, or the session's end, by which the app is told too.
AppCloses ==
  /\ ~aClosed /\ aClosed' = TRUE /\ aLink' = "over" /\ list' = <<>>
  /\ UNCHANGED <<mode, wire, aAsked, parser, aAt, served, aSent, aGot, aAnswered>>

-----------------------------------------------------------------------------
ANext ==
  \/ Accept \/ ClientSends \/ ClientCloses \/ OldPiece \/ OldFrame \/ OldRest
  \/ SimPiece \/ Respond \/ WaitEnds \/ Send \/ AppCloses

\* What the client sent arrives, and the reader goes on.
AFairness == WF_aVars(OldPiece \/ SimPiece) /\ WF_aVars(OldFrame \/ OldRest)
             /\ WF_aVars(Respond \/ WaitEnds)

ASpec == AInit /\ [][ANext]_aVars /\ AFairness

-----------------------------------------------------------------------------
\* What is handed for the i-th frame of the stream: its data, without its type, and
\* after them at most one byte, the first of the next frame (agent.py:3243-3244).
OneByteOff(c, i) ==
  /\ Len(c) \in {aAsked[i].data, aAsked[i].data + 1}
  /\ \A j \in 1..aAsked[i].data : c[j] = Cells("old", aAsked[i])[5 + j]
  /\ Len(c) > aAsked[i].data =>
       i < Len(aAsked) /\ c[Len(c)] = Cells("old", aAsked[i + 1])[1]

\* However the stream is cut, the app is handed what the client sent, in order
\* and all of it: what is left of a piece begins where a frame or a request
\* does.  From an older server's frame it is handed all the data, but their first byte
\* as the type too, and it may be one byte of the next frame at the end.
ReadWhole ==
  /\ Len(served) <= Len(aAsked)
  /\ \A i \in 1..Len(served) :
        IF mode = "old" THEN OneByteOff(served[i], i) ELSE served[i] = aAsked[i].query
  /\ ~aClosed /\ wire = <<>> /\ aAt # "frames" => Len(served) = Len(aAsked)

\* The client has the app's messages in the order they were sent, each once;
\* those it has not are in the list, or the socket is closed.
SentInOrder ==
  /\ aGot = [i \in 1..Len(aGot) |-> i]
  /\ ~aClosed => aGot \o list = [i \in 1..aSent |-> i]

\* Over the requests of HTTP, and over the connections for an older server, messages keep
\* their order, none is left out or read from another place than its own (but for the byte
\* that the frames of an older server are read too far), and the end is told once.
MessagesInOrder == InOrder /\ EndTold /\ ReadWhole /\ SentInOrder

\* Each request of the client is answered, unless it waits for a message that
\* does not come or the socket is closed.
RequestAnswered ==
  (mode = "simulate" /\ Len(aAsked) > aAnswered /\ ~aAsked[Len(aAsked)].wait)
    ~> (aClosed \/ Len(aAsked) = aAnswered)
=============================================================================
