--------------------------- MODULE RequestStream ----------------------------
(***************************************************************************)
(* The bytes of one keep-alive connection of node.ohn: what handleRead and *)
(* handleWrite (loop.ohn) do with them, the parser of http.ohn, the router *)
(* (router.ohn) and the responses of bindings.c.  EventLoop models when    *)
(* these handlers run; this module models what they compute.               *)
(*                                                                         *)
(* Bytes are grouped into tokens: the method with its space, the pieces of *)
(* the path, the space after it, the header lines, and the two line ends   *)
(* that close the header.  A read always stores at offset 0 of the slot's  *)
(* buffer, and the response is put into the same place.                    *)
(***************************************************************************)
EXTENDS Naturals, SequencesExt

CONSTANTS
    Methods,       \* methods the client uses
    Paths,         \* paths the client asks for
    Cuts,          \* tokens after which the network may cut a request in two
    PartialWrites, \* may the kernel take a part of a response only
    BufSize,       \* BUF_SLOT_SIZE, in tokens
    UriMax,        \* 2048, the longest request line, in tokens
    RespLen,       \* tokens of a response
    MaxRequests    \* bound: requests the client sends

ASSUME StreamAssumption ==
    /\ Methods \subseteq {"GET", "POST"}
    /\ Paths \subseteq Seq(STRING \ {"SP"})
    /\ \A p \in Paths : Len(p) + 5 <= BufSize
    /\ PartialWrites \in BOOLEAN
    /\ BufSize \in Nat /\ UriMax \in Nat /\ MaxRequests \in Nat
    /\ RespLen \in 1 .. BufSize - 1

Offsets == 0 .. BufSize - 1

VARIABLES
    state,          \* state_table[slot], "CLOSED" once closeSlot has run
    parser,         \* parse_state, parse_method, current_hash and bytes_processed
    bytes_read, bytes_written,
    buffer,         \* the slot's part of read_buf
    requests,       \* history: what the client asked for, in order
    wire,           \* sent by the client and not read yet
    answered        \* what the client has received

vars == <<state, parser, bytes_read, bytes_written, buffer, requests, wire, answered>>

Fresh == [step |-> 0, method |-> "none", hash |-> <<>>, at |-> 0]

Init ==
    /\ state = "READING"
    /\ parser = Fresh
    /\ bytes_read = 0 /\ bytes_written = 0
    /\ buffer = [i \in Offsets |-> "0"]
    /\ requests = <<>> /\ wire = <<>> /\ answered = <<>>

-----------------------------------------------------------------------------
(* The client: it waits for an answer before it sends the next request.    *)

Request(r) == <<r.method>> \o r.path \o <<"SP", "HDR", "CRLF", "CRLF">>

Send ==
    /\ Len(requests) < MaxRequests
    /\ Len(answered) >= RespLen * Len(requests)
    /\ \E r \in [method : Methods, path : Paths] :
          /\ requests' = Append(requests, r)
          /\ wire' = wire \o Request(r)
    /\ UNCHANGED <<state, parser, bytes_read, bytes_written, buffer, answered>>

-----------------------------------------------------------------------------
(* http.ohn and router.ohn.                                                *)

\* http_parse_method, once five bytes ("GET /") have been read.
ParseMethod(p, buf, total) ==
    IF p.step = 0 /\ total >= 2
    THEN [p EXCEPT !.step = 1, !.at = 1,
                   !.method = IF buf[0] \in {"GET", "POST"} THEN buf[0] ELSE "unknown"]
    ELSE p

Tokens(buf, from, to) == [k \in 1 .. to - from |-> buf[from + k - 1]]

\* What the route hash is computed of: the path up to its query.
Hashed(path) == SelectInSeq(path, LAMBDA t : t = "?")
Target(path) == IF Hashed(path) = 0 THEN path ELSE SubSeq(path, 1, Hashed(path) - 1)

\* http_parse_route_hash: a space has to follow the path within UriMax.
ParseRoute(p, buf, total) ==
    LET spaces == {i \in p.at .. Min({total, UriMax, BufSize}) - 1 : buf[i] = "SP"}
    IN  IF p.step = 1 /\ spaces # {}
        THEN [p EXCEPT !.step = 2, !.at = Min(spaces),
                       !.hash = Target(Tokens(buf, p.at, Min(spaces)))]
        ELSE p

\* Fault: the scan stops one short of the last place it has to look at.
HeadersEndShort(buf, total) ==
    \E i \in 0 .. Min({total, BufSize}) - 3 : buf[i] = "CRLF" /\ buf[i + 1] = "CRLF"

\* http_find_headers_end
HeadersEnd(buf, total) ==
    \E i \in 0 .. Min({total, BufSize}) - 2 : buf[i] = "CRLF" /\ buf[i + 1] = "CRLF"

\* router_handle: which response is sent.
Route(method, hash) ==
    IF method # "GET" THEN "405"
    ELSE IF hash = <<"/">> THEN "200 root"
    ELSE IF hash = <<"/", "users">> THEN "200 users"
    ELSE "404"

\* The length router_handle returns: 55 for the 54 bytes of its 405.
ResponseLength(answer) == IF answer = "405" THEN RespLen + 1 ELSE RespLen

\* sys_fill_response: a status line, which tells the answers apart, and the rest.
Response(answer) == <<answer>> \o [k \in 1 .. RespLen - 1 |-> "body"]

\* A sequence stored at offset 0.
Stored(seq, buf) == [i \in Offsets |-> IF i < Len(seq) THEN seq[i + 1] ELSE buf[i]]

-----------------------------------------------------------------------------
(* The handlers.                                                           *)

\* How much of what was sent a read may find.
Arrived == {n \in 1 .. Min({Len(wire), BufSize}) : n = Len(wire) \/ wire[n] \in Cuts}

\* No space was found in the longest request line there may be.
TooLong(p, total) == p.step = 1 /\ total > UriMax

Complete(p, buf, total) == p.step = 2 /\ HeadersEnd(buf, total)

\* handleRead: store, parse as far as it goes, answer when the header is complete.
HandleRead ==
    /\ state = "READING"
    /\ \E n \in Arrived :
         LET buf == Stored(SubSeq(wire, 1, n), buffer)
             total == bytes_read + n
             p == ParseRoute(ParseMethod(parser, buf, total), buf, total)
             answer == Route(p.method, p.hash)
         IN  /\ wire' = SubSeq(wire, n + 1, Len(wire))
             /\ \/ /\ TooLong(p, total)
                   /\ state' = "CLOSED" /\ parser' = Fresh
                   /\ bytes_read' = 0 /\ bytes_written' = 0 /\ buffer' = buf
                \/ /\ ~TooLong(p, total) /\ ~Complete(p, buf, total)
                   /\ parser' = p /\ bytes_read' = total /\ buffer' = buf
                   /\ UNCHANGED <<state, bytes_written>>
                \/ /\ Complete(p, buf, total)
                   /\ state' = "WRITING" /\ parser' = p /\ bytes_read' = total
                   /\ bytes_written' = ResponseLength(answer)
                   /\ buffer' = Stored(Response(answer), buf)
    /\ UNCHANGED <<requests, answered>>

\* Fault: the parser is left where the last request ended.
KeepParsing == bytes_read' = 0 /\ UNCHANGED parser

\* After the response parse_state and bytes_read start over; parse_method,
\* current_hash and bytes_processed keep their values until they are parsed again.
StartOver == bytes_read' = 0 /\ parser' = [parser EXCEPT !.step = 0]

\* handleWrite: always from offset 0.
HandleWrite ==
    /\ state = "WRITING"
    /\ \E n \in 1 .. bytes_written :
          /\ n = bytes_written \/ PartialWrites
          /\ answered' = answered \o Tokens(buffer, 0, n)
          /\ bytes_written' = bytes_written - n
          /\ \/ n = bytes_written /\ state' = "READING" /\ StartOver
             \/ n < bytes_written /\ UNCHANGED <<state, bytes_read, parser>>
    /\ UNCHANGED <<buffer, requests, wire>>

Next == Send \/ HandleRead \/ HandleWrite

Spec == Init /\ [][Next]_vars

\* The connection is served; the client does not have to send anything.
FairSpec == Spec /\ WF_vars(HandleRead) /\ WF_vars(HandleWrite)

-----------------------------------------------------------------------------
(* Properties.                                                             *)

\* What the client has to get for its n-th request.
Expected(n) == Response(Route(requests[n].method, Target(requests[n].path)))

\* What the client gets is the answers to its own requests, each once, in full and
\* in order, however its bytes were cut ("Parser State Tracking for Fragmented TCP",
\* loop.ohn:35): nothing of an earlier request or response in the buffer leaks in.
AnswersMatch ==
    /\ Len(answered) <= RespLen * Len(requests)
    /\ \A n \in DOMAIN requests, k \in 1 .. RespLen :
          LET at == RespLen * (n - 1) + k
          IN  at \in DOMAIN answered => answered[at] = Expected(n)[k]

\* Every request is answered in full, unless its line is too long and the
\* connection is closed.
EveryRequestAnswered ==
    \A n \in 1 .. MaxRequests :
        Len(requests) >= n ~> Len(answered) >= RespLen * n \/ state = "CLOSED"

=============================================================================
