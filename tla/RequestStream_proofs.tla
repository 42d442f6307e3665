------------------------- MODULE RequestStream_proofs -------------------------
(***************************************************************************)
(* Proofs about the bytes of one keep-alive connection, for any paths, any *)
(* number of requests and any size of the buffer, of the longest request   *)
(* line and of a response.  The argument: a client that waits leaves at    *)
(* most one request on the wire; a read that takes all of it overwrites    *)
(* every byte the parser will look at, and the parser starts at its first  *)
(* step; so the request is parsed as it was sent, whatever was left in the *)
(* buffer, and the answer that replaces it is written from its start.      *)
(***************************************************************************)
EXTENDS RequestStream, TLAPS

\* The requests the handlers serve: by GET, each found by one read, and
\* responses the kernel takes whole.
Undivided == Cuts = {} /\ ~PartialWrites /\ Methods \subseteq {"GET"}

Words == {"GET", "SP", "HDR", "CRLF"} \cup UNION {{p[i] : i \in DOMAIN p} : p \in Paths}
Requests == [method : {"GET"}, path : Paths]
AnswerTokens == {"405", "404", "200 root", "200 users", "body"}

IsParser(p) == p = [step |-> p.step, method |-> p.method, hash |-> p.hash, at |-> p.at]

StreamTypeOK ==
    /\ requests \in Seq(Requests)
    /\ answered \in Seq(AnswerTokens)
    /\ IsParser(parser)

\* What is on its way, in each state of the connection.
Waiting == state = "READING" /\ wire = <<>> /\ Len(answered) = RespLen * Len(requests)

OneOpen == requests # <<>> /\ Len(answered) = RespLen * (Len(requests) - 1)

Asked == state = "READING" /\ wire = Request(requests[Len(requests)]) /\ OneOpen

Replying ==
    /\ state = "WRITING" /\ wire = <<>> /\ OneOpen
    /\ bytes_written = RespLen
    /\ \A k \in 1 .. RespLen : buffer[k - 1] = Expected(Len(requests))[k]

Shut == state = "CLOSED" /\ wire = <<>> /\ OneOpen

StreamInv ==
    /\ StreamTypeOK
    /\ state = "READING" => bytes_read = 0 /\ parser.step = 0
    /\ Waiting \/ Asked \/ Replying \/ Shut
    /\ AnswersMatch

-----------------------------------------------------------------------------
(* Operators *)

LEMMA MinOfThree ==
  ASSUME NEW a \in Nat, NEW b \in Nat, NEW c \in Nat
  PROVE  /\ Min({a, b, c}) \in Nat
         /\ Min({a, b, c}) <= a /\ Min({a, b, c}) <= b /\ Min({a, b, c}) <= c
         /\ Min({a, b, c}) = a \/ Min({a, b, c}) = b \/ Min({a, b, c}) = c
<1>1. \E x \in {a, b, c} : \A y \in {a, b, c} : x <= y
  OBVIOUS
<1>2. /\ Min({a, b, c}) \in {a, b, c}
      /\ \A y \in {a, b, c} : Min({a, b, c}) <= y
  BY <1>1 DEF Min
<1> QED
  BY <1>2

LEMMA MinOfTwo ==
  ASSUME NEW a \in Nat, NEW b \in Nat
  PROVE  Min({a, b}) \in Nat /\ Min({a, b}) <= a /\ Min({a, b}) <= b
<1>1. {a, b} = {a, b, b}
  OBVIOUS
<1> QED
  BY <1>1, MinOfThree

LEMMA MinOfOne ==
  ASSUME NEW a \in Nat
  PROVE  Min({a}) = a
<1>1. {a} = {a, a, a}
  OBVIOUS
<1> QED
  BY <1>1, MinOfThree

LEMMA Concatenation ==
  ASSUME NEW S, NEW s \in Seq(S), NEW t \in Seq(S), NEW u, u = s \o t
  PROVE  /\ u \in Seq(S) /\ Len(u) = Len(s) + Len(t) /\ Len(s) \in Nat /\ Len(t) \in Nat
         /\ \A i \in 1 .. Len(s) : u[i] = s[i]
         /\ \A i \in 1 .. Len(t) : u[Len(s) + i] = t[i]
  OBVIOUS

\* A request by its tokens.
LEMMA RequestTokens ==
  ASSUME NEW r \in Requests
  PROVE  /\ r.path \in Seq(Words) /\ (\A i \in 1 .. Len(r.path) : r.path[i] # "SP")
         /\ Len(r.path) + 5 <= BufSize
         /\ Request(r) \in Seq(Words) /\ Len(Request(r)) = Len(r.path) + 5
         /\ Request(r)[1] = "GET"
         /\ \A i \in 1 .. Len(r.path) : Request(r)[i + 1] = r.path[i]
         /\ Request(r)[Len(r.path) + 2] = "SP" /\ Request(r)[Len(r.path) + 3] = "HDR"
         /\ Request(r)[Len(r.path) + 4] = "CRLF" /\ Request(r)[Len(r.path) + 5] = "CRLF"
<1> DEFINE tail == <<"SP", "HDR", "CRLF", "CRLF">>
           head == <<r.method>>
<1>1. /\ r.method = "GET" /\ r.path \in Paths
      /\ Len(r.path) + 5 <= BufSize
  BY StreamAssumption DEF Requests
<1>2. "GET" \in Words /\ "SP" \in Words /\ "HDR" \in Words /\ "CRLF" \in Words
  BY DEF Words
<1>3. r.path \in Seq(STRING \ {"SP"})
  BY <1>1, StreamAssumption, Zenon
<1>4. r.path \in Seq(Words) /\ \A i \in 1 .. Len(r.path) : r.path[i] # "SP"
  <2>1. /\ \A i \in 1 .. Len(r.path) : r.path[i] \in STRING \ {"SP"}
        /\ r.path = [i \in 1 .. Len(r.path) |-> r.path[i]] /\ Len(r.path) \in Nat
        /\ DOMAIN r.path = 1 .. Len(r.path)
    BY <1>3
  <2>2. \A i \in 1 .. Len(r.path) : r.path[i] \in Words
    <3> TAKE i \in 1 .. Len(r.path)
    <3>1. r.path[i] \in {r.path[j] : j \in DOMAIN r.path}
      BY <2>1
    <3>2. {r.path[j] : j \in DOMAIN r.path} \in {{p[j] : j \in DOMAIN p} : p \in Paths}
      BY <1>1, Zenon
    <3> QED
      BY <3>1, <3>2 DEF Words
  <2> QED
    BY <2>1, <2>2
<1>5. head \in Seq(Words) /\ Len(head) = 1 /\ head[1] = "GET"
  BY <1>1, <1>2
<1>6. /\ tail \in Seq(Words) /\ Len(tail) = 4
      /\ tail[1] = "SP" /\ tail[2] = "HDR" /\ tail[3] = "CRLF" /\ tail[4] = "CRLF"
  BY <1>2
<1>7. PICK front : front = head \o r.path
  OBVIOUS
<1>8. PICK whole : whole = front \o tail /\ whole = Request(r)
  BY <1>7 DEF Request
<1> HIDE DEF head, tail, Request
<1> DEFINE path == r.path
<1>9. path \in Seq(Words)
  BY <1>4
<1> HIDE DEF path
<1>10. front = head \o path
  BY <1>7 DEF path
<1>11. /\ front \in Seq(Words) /\ Len(front) = Len(head) + Len(path) /\ Len(path) \in Nat
       /\ \A i \in 1 .. Len(head) : front[i] = head[i]
       /\ \A i \in 1 .. Len(path) : front[Len(head) + i] = path[i]
  <2>1. head \in Seq(Words)
    BY <1>5
  <2> QED
    BY ONLY <2>1, <1>9, <1>10, Concatenation
<1>12. /\ whole \in Seq(Words) /\ Len(whole) = Len(front) + Len(tail)
       /\ \A i \in 1 .. Len(front) : whole[i] = front[i]
       /\ \A i \in 1 .. Len(tail) : whole[Len(front) + i] = tail[i]
  <2>1. tail \in Seq(Words) /\ front \in Seq(Words) /\ whole = front \o tail
    BY <1>6, <1>8, <1>11
  <2> QED
    BY ONLY <2>1, Concatenation
<1>13. /\ whole \in Seq(Words) /\ Len(whole) = Len(path) + 5
       /\ whole[1] = "GET" /\ \A i \in 1 .. Len(path) : whole[i + 1] = path[i]
       /\ \A i \in 1 .. 4 : whole[Len(path) + 1 + i] = tail[i]
  BY <1>5, <1>6, <1>11, <1>12
<1>14. /\ whole[Len(path) + 2] = "SP" /\ whole[Len(path) + 3] = "HDR"
       /\ whole[Len(path) + 4] = "CRLF" /\ whole[Len(path) + 5] = "CRLF"
  <2>1. /\ whole[Len(path) + 1 + 1] = tail[1] /\ whole[Len(path) + 1 + 2] = tail[2]
        /\ whole[Len(path) + 1 + 3] = tail[3] /\ whole[Len(path) + 1 + 4] = tail[4]
    <3>1. 1 \in 1 .. 4 /\ 2 \in 1 .. 4 /\ 3 \in 1 .. 4 /\ 4 \in 1 .. 4
      OBVIOUS
    <3> QED
      BY <1>13, <3>1, Zenon
  <2>2. /\ Len(path) + 1 + 1 = Len(path) + 2 /\ Len(path) + 1 + 2 = Len(path) + 3
        /\ Len(path) + 1 + 3 = Len(path) + 4 /\ Len(path) + 1 + 4 = Len(path) + 5
    BY <1>11
  <2> QED
    BY <1>6, <2>1, <2>2
<1> QED
  BY <1>1, <1>4, <1>8, <1>13, <1>14 DEF path

\* A response by its tokens.
LEMMA ResponseTokens ==
  ASSUME NEW answer \in AnswerTokens
  PROVE  Response(answer) \in Seq(AnswerTokens) /\ Len(Response(answer)) = RespLen
<1> DEFINE body == [k \in 1 .. RespLen - 1 |-> "body"]
<1>1. RespLen - 1 \in Nat /\ RespLen \in Nat
  BY StreamAssumption
<1>2. body \in Seq(AnswerTokens) /\ Len(body) = RespLen - 1
  <2>1. "body" \in AnswerTokens
    BY DEF AnswerTokens
  <2> QED
    BY <1>1, <2>1
<1> DEFINE first == <<answer>>
<1>3. first \in Seq(AnswerTokens) /\ Len(first) = 1
  OBVIOUS
<1>4. PICK u : u = Response(answer) /\ u = first \o body
  BY DEF Response
<1> HIDE DEF first, body
<1>5. u \in Seq(AnswerTokens) /\ Len(u) = Len(first) + Len(body)
  <2>1. body \in Seq(AnswerTokens) /\ first \in Seq(AnswerTokens) /\ u = first \o body
    BY <1>2, <1>3, <1>4
  <2> QED
    BY ONLY <2>1, Concatenation
<1> QED
  BY <1>1, <1>2, <1>3, <1>4, <1>5

LEMMA RouteOfGet ==
  ASSUME NEW hash
  PROVE  Route("GET", hash) \in AnswerTokens /\ ResponseLength(Route("GET", hash)) = RespLen
  BY DEF Route, ResponseLength, AnswerTokens

-----------------------------------------------------------------------------
(* The parser *)

\* A request that lies whole at the start of the buffer is parsed as it was
\* sent, or found to be too long.
LEMMA ParsesRequest ==
  ASSUME NEW r \in Requests, NEW p, IsParser(p), p.step = 0, NEW buf,
         \A i \in 0 .. Len(Request(r)) - 1 : buf[i] = Request(r)[i + 1],
         NEW q, q = ParseRoute(ParseMethod(p, buf, Len(Request(r))), buf, Len(Request(r)))
  PROVE  /\ IsParser(q)
         /\ TooLong(q, Len(Request(r))) \/ Complete(q, buf, Len(Request(r)))
         /\ Complete(q, buf, Len(Request(r))) => q.method = "GET" /\ q.hash = Target(r.path)
<1> DEFINE L == Len(r.path)
           total == Len(Request(r))
           m == ParseMethod(p, buf, total)
           line == Min({total, UriMax, BufSize})
           spaces == {i \in 1 .. line - 1 : buf[i] = "SP"}
<1>1. L \in Nat /\ total = L + 5 /\ BufSize \in Nat /\ UriMax \in Nat /\ L + 5 <= BufSize
  BY RequestTokens, StreamAssumption
<1>2. /\ buf[0] = "GET" /\ buf[L + 1] = "SP" /\ buf[L + 2] = "HDR" /\ buf[L + 3] = "CRLF" /\ buf[L + 4] = "CRLF"
      /\ \A i \in 1 .. L : buf[i] = r.path[i]
  <2> DEFINE whole == Request(r)
  <2>1. /\ whole[1] = "GET" /\ \A i \in 1 .. L : whole[i + 1] = r.path[i]
        /\ whole[L + 2] = "SP" /\ whole[L + 3] = "HDR" /\ whole[L + 4] = "CRLF" /\ whole[L + 5] = "CRLF"
    BY RequestTokens
  <2>2. \A i \in 0 .. L + 4 : buf[i] = whole[i + 1]
    BY <1>1
  <2> HIDE DEF whole, L
  <2>3. buf[0] = whole[0 + 1] /\ \A i \in 1 .. L : buf[i] = whole[i + 1]
    BY <1>1, <2>2
  <2>4. /\ buf[L + 1] = whole[L + 1 + 1] /\ buf[L + 2] = whole[L + 2 + 1]
        /\ buf[L + 3] = whole[L + 3 + 1] /\ buf[L + 4] = whole[L + 4 + 1]
    BY <1>1, <2>2
  <2>5. 0 + 1 = 1 /\ L + 1 + 1 = L + 2 /\ L + 2 + 1 = L + 3 /\ L + 3 + 1 = L + 4 /\ L + 4 + 1 = L + 5
    BY <1>1
  <2> QED
    BY <2>1, <2>3, <2>4, <2>5
<1>3. \A i \in 1 .. L : r.path[i] # "SP"
  BY <1>1, RequestTokens
<1>4. m = [step |-> 1, method |-> "GET", hash |-> p.hash, at |-> 1]
  <2>1. total >= 2 /\ buf[0] \in {"GET", "POST"}
    BY <1>1, <1>2
  <2>2. m = [p EXCEPT !.step = 1, !.at = 1, !.method = "GET"]
    BY <1>2, <2>1 DEF ParseMethod
  <2> QED
    BY <2>2 DEF IsParser
<1>5. line \in Nat /\ line <= L + 5 /\ (L + 1 < line <=> L + 1 < UriMax)
  <2>1. total \in Nat
    BY <1>1
  <2> HIDE DEF total
  <2>2. /\ line \in Nat /\ line <= total /\ line <= UriMax /\ line <= BufSize
        /\ line = total \/ line = UriMax \/ line = BufSize
    BY ONLY <1>1, <2>1, MinOfThree
  <2> HIDE DEF line, L
  <2> QED
    BY <1>1, <2>2
<1>6. HeadersEnd(buf, total)
  <2>1. Min({total, BufSize}) = L + 5
    <3>1. {total, BufSize} = {total, BufSize, BufSize}
      OBVIOUS
    <3> QED
      BY <1>1, <3>1, MinOfThree
  <2>2. L + 3 \in 0 .. Min({total, BufSize}) - 2 /\ (L + 3) + 1 = L + 4
    BY <1>1, <2>1
  <2> QED
    BY <1>2, <2>2 DEF HeadersEnd
<1> HIDE DEF m, line, total, L
<1>7. spaces = {i \in m.at .. line - 1 : buf[i] = "SP"}
  BY <1>4
<1>8. ASSUME L + 1 < line
      PROVE  spaces = {L + 1}
  <2>1. \A i \in 1 .. line - 1 : buf[i] = "SP" <=> i = L + 1
    <3> TAKE i \in 1 .. line - 1
    <3>1. i \in 1 .. L \/ i = L + 1 \/ i = L + 2 \/ i = L + 3 \/ i = L + 4
      BY <1>1, <1>5
    <3>2. i \in 1 .. L => i # L + 1 /\ buf[i] # "SP"
      BY <1>1, <1>2, <1>3
    <3>3. L + 2 # L + 1 /\ L + 3 # L + 1 /\ L + 4 # L + 1
      BY <1>1
    <3> QED
      BY <1>2, <3>1, <3>2, <3>3
  <2>2. L + 1 \in 1 .. line - 1
    BY <1>1, <1>5, <1>8
  <2> QED
    BY <2>1, <2>2
<1>9. ASSUME ~(L + 1 < line)
      PROVE  spaces = {}
  BY <1>1, <1>2, <1>3, <1>5, <1>9
<1>10. q = IF spaces # {}
           THEN [m EXCEPT !.step = 2, !.at = Min(spaces), !.hash = Target(Tokens(buf, m.at, Min(spaces)))]
           ELSE m
  BY <1>4 DEF ParseRoute, m, line, total
<1> HIDE DEF spaces
<1>11. CASE L + 1 < line
  <2>1. Min(spaces) = L + 1
    BY <1>1, <1>8, <1>11, MinOfOne
  <2>2. Tokens(buf, 1, L + 1) = r.path
    <3>1. r.path = [k \in 1 .. L |-> r.path[k]]
      <4>1. PICK path \in Seq(Words) : path = r.path
        BY RequestTokens
      <4>2. path = [k \in 1 .. Len(path) |-> path[k]]
        BY <4>1
      <4> QED
        BY <4>1, <4>2 DEF L
    <3>2. Tokens(buf, 1, L + 1) = [k \in 1 .. L |-> buf[k]]
      BY <1>1 DEF Tokens
    <3> QED
      BY <1>2, <3>1, <3>2
  <2>3. q = [step |-> 2, method |-> "GET", hash |-> Target(r.path), at |-> L + 1]
    <3>1. q = [m EXCEPT !.step = 2, !.at = L + 1, !.hash = Target(r.path)]
      BY <1>4, <1>8, <1>10, <1>11, <2>1, <2>2
    <3> QED
      BY <1>4, <3>1
  <2> QED
    BY <1>6, <2>3 DEF IsParser, Complete, total
<1>12. CASE ~(L + 1 < line)
  <2>1. q = [step |-> 1, method |-> "GET", hash |-> p.hash, at |-> 1]
    BY <1>4, <1>9, <1>10, <1>12
  <2>2. total > UriMax
    BY <1>1, <1>5, <1>12
  <2> QED
    BY <2>1, <2>2 DEF IsParser, TooLong, Complete, total
<1> QED
  BY <1>11, <1>12

-----------------------------------------------------------------------------
(* The handlers *)

LEMMA SendKeeps ==
  ASSUME StreamInv, Undivided, Send
  PROVE  StreamInv'
<1> DEFINE N == Len(requests)
<1>1. PICK r \in [method : Methods, path : Paths] :
        requests' = Append(requests, r) /\ wire' = wire \o Request(r)
  BY DEF Send
<1>2. /\ Len(answered) >= RespLen * N
      /\ UNCHANGED <<state, parser, bytes_read, bytes_written, buffer, answered>>
  BY DEF Send
<1>3. /\ requests \in Seq(Requests) /\ N \in Nat /\ RespLen \in Nat /\ 1 <= RespLen
      /\ answered \in Seq(AnswerTokens) /\ Len(answered) \in Nat
      /\ DOMAIN answered = 1 .. Len(answered) /\ DOMAIN requests = 1 .. N
  BY StreamAssumption DEF StreamInv, StreamTypeOK
<1>4. Waiting
  <2>1. RespLen * (N - 1) + RespLen = RespLen * N /\ RespLen * (N - 1) \in Int /\ RespLen * N \in Int
    BY <1>3
  <2>2. ASSUME OneOpen PROVE FALSE
    <3>1. Len(answered) = RespLen * (N - 1)
      BY <2>2 DEF OneOpen
    <3> HIDE DEF N
    <3> QED
      BY <1>2, <1>3, <2>1, <3>1
  <2> QED
    BY <2>2 DEF StreamInv, Asked, Replying, Shut
<1>5. r \in Requests
  BY DEF Requests, Undivided
<1>6. /\ requests' \in Seq(Requests) /\ Len(requests') = N + 1 /\ requests'[N + 1] = r
      /\ requests' # <<>> /\ DOMAIN requests' = 1 .. N + 1
      /\ \A n \in 1 .. N : requests'[n] = requests[n]
  BY <1>1, <1>3, <1>5
<1>7. wire' = Request(r)
  <2>1. Request(r) \in Seq(Words)
    BY <1>5, RequestTokens
  <2> QED
    BY <1>1, <1>4, <2>1 DEF Waiting
<1>8. Asked'
  BY <1>2, <1>3, <1>4, <1>6, <1>7 DEF Asked, Waiting, OneOpen
<1>9. AnswersMatch'
  <2>1. Len(answered') = RespLen * N /\ RespLen * N <= RespLen * (N + 1)
    BY <1>2, <1>3, <1>4 DEF Waiting
  <2>2. ASSUME NEW n \in 1 .. N + 1, NEW k \in 1 .. RespLen, RespLen * (n - 1) + k \in DOMAIN answered'
        PROVE  answered'[RespLen * (n - 1) + k] = Expected(n)'[k]
    <3>1. n # N + 1
      <4>1. RespLen * (n - 1) + k <= RespLen * N
        BY <1>2, <1>3, <2>1, <2>2
      <4>2. RespLen * N \in Int /\ k >= 1 /\ k \in Int /\ n \in Int
        BY <1>3
      <4>3. n = N + 1 => RespLen * (n - 1) = RespLen * N
        BY <1>3
      <4> HIDE DEF N
      <4> QED
        BY <4>1, <4>2, <4>3
    <3>2. n \in 1 .. N /\ Expected(n)' = Expected(n)
      BY <1>3, <1>6, <3>1 DEF Expected
    <3>3. answered[RespLen * (n - 1) + k] = Expected(n)[k]
      BY <1>2, <1>3, <2>2, <3>2 DEF StreamInv, AnswersMatch
    <3> QED
      BY <1>2, <3>2, <3>3
  <2> QED
    BY <1>6, <2>1, <2>2 DEF AnswersMatch
<1> QED
  BY <1>2, <1>6, <1>8, <1>9 DEF StreamInv, StreamTypeOK

LEMMA StoredAt ==
  ASSUME NEW S, NEW s \in Seq(S), Len(s) <= BufSize, NEW old
  PROVE  \A i \in 0 .. Len(s) - 1 : Stored(s, old)[i] = s[i + 1]
  BY StreamAssumption DEF Stored, Offsets

\* A read that finds anything finds the whole request.
LEMMA ReadsRequest ==
  ASSUME StreamInv, Undivided, state = "READING", NEW n \in Arrived
  PROVE  /\ Asked /\ requests[Len(requests)] \in Requests
         /\ n = Len(Request(requests[Len(requests)]))
         /\ SubSeq(wire, 1, n) = wire /\ SubSeq(wire, n + 1, Len(wire)) = <<>>
         /\ \A i \in 0 .. n - 1 : Stored(wire, buffer)[i] = wire[i + 1]
<1>1. BufSize \in Nat
  BY StreamAssumption
<1>2. Asked
  <2>1. Waiting \/ Asked
    BY DEF StreamInv, Replying, Shut
  <2>2. ASSUME Waiting PROVE FALSE
    <3>1. Len(wire) = 0
      BY <2>2 DEF Waiting
    <3>2. n \in Nat /\ n >= 1 /\ n <= Min({0, BufSize})
      BY <1>1, <3>1, MinOfTwo DEF Arrived
    <3> QED
      BY <1>1, <3>2, MinOfTwo
  <2> QED
    BY <2>1, <2>2
<1>3. requests \in Seq(Requests) /\ requests # <<>>
  BY <1>2 DEF StreamInv, StreamTypeOK, Asked, OneOpen
<1>4. PICK r \in Requests : r = requests[Len(requests)]
  BY <1>3
<1>5. wire = Request(r) /\ wire \in Seq(Words) /\ Len(wire) <= BufSize /\ Len(wire) \in Nat
  BY <1>2, <1>4, RequestTokens DEF Asked
<1>6. n = Len(wire)
  BY DEF Arrived, Undivided
<1> QED
  BY <1>2, <1>4, <1>5, <1>6, StoredAt

LEMMA HandleReadKeeps ==
  ASSUME StreamInv, Undivided, HandleRead
  PROVE  StreamInv'
<1> DEFINE N == Len(requests)
<1>1. state = "READING" /\ bytes_read = 0 /\ parser.step = 0 /\ IsParser(parser)
  BY DEF HandleRead, StreamInv, StreamTypeOK
<1>2. PICK n \in Arrived :
         LET buf == Stored(SubSeq(wire, 1, n), buffer)
             total == bytes_read + n
             p == ParseRoute(ParseMethod(parser, buf, total), buf, total)
             answer == Route(p.method, p.hash)
         IN  /\ wire' = SubSeq(wire, n + 1, Len(wire))
             /\ \/ /\ TooLong(p, total)
                   /\ state' = "CLOSED" /\ parser' = Fresh
                   /\ bytes_read' = 0 /\ bytes_written' = 0 /\ buffer' = buf
                \/ /\ ~TooLong(p, total) /\ ~Complete(p, buf, total)
                   /\ parser' = p /\ bytes_read' = total /\ buffer' = buf
                   /\ UNCHANGED <<state, bytes_written>>
                \/ /\ Complete(p, buf, total)
                   /\ state' = "WRITING" /\ parser' = p /\ bytes_read' = total
                   /\ bytes_written' = ResponseLength(answer)
                   /\ buffer' = Stored(Response(answer), buf)
  BY DEF HandleRead
<1>3. UNCHANGED <<requests, answered>>
  BY DEF HandleRead
<1>4. PICK r \in Requests : r = requests[N]
  BY <1>1, ReadsRequest
<1>5. /\ OneOpen /\ wire = Request(r) /\ n = Len(Request(r))
      /\ SubSeq(wire, 1, n) = wire /\ SubSeq(wire, n + 1, Len(wire)) = <<>>
      /\ \A i \in 0 .. n - 1 : Stored(wire, buffer)[i] = wire[i + 1]
  BY <1>1, <1>4, ReadsRequest DEF Asked
<1>6. n \in Nat /\ bytes_read + n = n
  BY <1>1, <1>4, <1>5, RequestTokens
<1>7. PICK buf : buf = Stored(wire, buffer)
  OBVIOUS
<1>8. PICK q : q = ParseRoute(ParseMethod(parser, buf, n), buf, n)
  OBVIOUS
<1>9. /\ IsParser(q)
      /\ TooLong(q, n) \/ Complete(q, buf, n)
      /\ Complete(q, buf, n) => q.method = "GET" /\ q.hash = Target(r.path)
  <2>1. \A i \in 0 .. Len(Request(r)) - 1 : buf[i] = Request(r)[i + 1]
    BY <1>5, <1>7
  <2>2. q = ParseRoute(ParseMethod(parser, buf, Len(Request(r))), buf, Len(Request(r)))
    BY <1>5, <1>8
  <2> QED
    BY <1>1, <1>5, <2>1, <2>2, ParsesRequest
<1>10. /\ wire' = <<>>
       /\ \/ state' = "CLOSED" /\ parser' = Fresh
          \/ /\ Complete(q, buf, n)
             /\ state' = "WRITING" /\ parser' = q
             /\ bytes_written' = ResponseLength(Route(q.method, q.hash))
             /\ buffer' = Stored(Response(Route(q.method, q.hash)), buf)
  BY <1>2, <1>5, <1>6, <1>7, <1>8, <1>9
<1>11. OneOpen' /\ AnswersMatch'
  BY <1>3, <1>5 DEF OneOpen, StreamInv, AnswersMatch, Expected
<1>12. IsParser(parser')
  <2>1. CASE parser' = Fresh
    BY <2>1 DEF IsParser, Fresh
  <2>2. CASE parser' = q
    BY <1>9, <2>2
  <2> QED
    BY <1>10, <2>1, <2>2
<1>13. StreamTypeOK'
  BY <1>3, <1>12 DEF StreamInv, StreamTypeOK, IsParser
<1>14. ASSUME state' = "WRITING" PROVE Replying'
  <2>1. PICK answer \in AnswerTokens : answer = Route("GET", Target(r.path))
    BY RouteOfGet
  <2>2. bytes_written' = RespLen /\ buffer' = Stored(Response(answer), buf)
    BY <1>9, <1>10, <1>14, <2>1, RouteOfGet
  <2>3. \A k \in 1 .. RespLen : buffer'[k - 1] = Response(answer)[k]
    <3>1. /\ Response(answer) \in Seq(AnswerTokens) /\ Len(Response(answer)) = RespLen
          /\ RespLen <= BufSize /\ RespLen \in Nat
      BY ResponseTokens, StreamAssumption
    <3>2. PICK s \in Seq(AnswerTokens) : s = Response(answer) /\ Len(s) = RespLen
      BY <3>1
    <3>3. \A i \in 0 .. RespLen - 1 : buffer'[i] = s[i + 1]
      BY <2>2, <3>1, <3>2, StoredAt
    <3>4. ASSUME NEW k \in 1 .. RespLen PROVE buffer'[k - 1] = s[k]
      <4>1. k - 1 \in 0 .. RespLen - 1 /\ (k - 1) + 1 = k
        BY <3>1
      <4> QED
        BY <3>3, <4>1
    <3> QED
      BY <3>2, <3>4
  <2>4. Expected(N)' = Response(answer) /\ Len(requests') = N
    BY <1>3, <1>4, <2>1 DEF Expected, Requests
  <2> QED
    BY <1>10, <1>11, <1>14, <2>2, <2>3, <2>4 DEF Replying
<1>15. ASSUME state' = "CLOSED" PROVE Shut'
  BY <1>10, <1>11, <1>15 DEF Shut
<1> QED
  BY <1>10, <1>11, <1>13, <1>14, <1>15 DEF StreamInv

LEMMA HandleWriteKeeps ==
  ASSUME StreamInv, Undivided, HandleWrite
  PROVE  StreamInv'
<1> DEFINE N == Len(requests)
           sent == Tokens(buffer, 0, RespLen)
<1>1. state = "WRITING" /\ UNCHANGED <<buffer, requests, wire>>
  BY DEF HandleWrite
<1>2. Replying
  BY <1>1 DEF StreamInv, Waiting, Asked, Shut
<1>3. /\ bytes_written = RespLen /\ wire = <<>> /\ OneOpen
      /\ \A k \in 1 .. RespLen : buffer[k - 1] = Expected(N)[k]
  BY <1>2 DEF Replying
<1>4. /\ requests \in Seq(Requests) /\ N \in Nat /\ N >= 1 /\ RespLen \in Nat /\ 1 <= RespLen
      /\ answered \in Seq(AnswerTokens) /\ Len(answered) \in Nat
      /\ DOMAIN answered = 1 .. Len(answered) /\ DOMAIN requests = 1 .. N
      /\ Len(answered) = RespLen * (N - 1)
  BY <1>3, StreamAssumption DEF StreamInv, StreamTypeOK, OneOpen
<1>5. /\ answered' = answered \o sent /\ state' = "READING"
      /\ bytes_read' = 0 /\ parser' = [parser EXCEPT !.step = 0]
  <2>1. PICK n \in 1 .. bytes_written :
          /\ n = bytes_written \/ PartialWrites
          /\ answered' = answered \o Tokens(buffer, 0, n)
          /\ \/ n = bytes_written /\ state' = "READING" /\ StartOver
             \/ n < bytes_written /\ UNCHANGED <<state, bytes_read, parser>>
    BY DEF HandleWrite
  <2>2. n = RespLen /\ ~(n < bytes_written)
    BY <1>3, <1>4, <2>1 DEF Undivided
  <2> QED
    BY <2>1, <2>2 DEF StartOver
<1>6. IsParser(parser') /\ parser'.step = 0
  BY <1>5 DEF StreamInv, StreamTypeOK, IsParser
<1>7. /\ sent \in Seq(AnswerTokens) /\ Len(sent) = RespLen
      /\ \A k \in 1 .. RespLen : sent[k] = Expected(N)[k]
  <2>1. PICK answer \in AnswerTokens : Expected(N) = Response(answer)
    <3>1. requests[N] \in Requests
      BY <1>4
    <3>2. requests[N].method = "GET"
      BY <3>1 DEF Requests
    <3> QED
      BY <3>2, RouteOfGet DEF Expected
  <2>2. \A k \in 1 .. RespLen : Expected(N)[k] \in AnswerTokens
    <3>1. Expected(N) \in Seq(AnswerTokens) /\ Len(Expected(N)) = RespLen
      BY <2>1, ResponseTokens
    <3> HIDE DEF N
    <3> QED
      BY <1>4, <3>1
  <2>3. sent = [k \in 1 .. RespLen |-> buffer[k - 1]]
    BY <1>4 DEF Tokens
  <2>4. \A k \in 1 .. RespLen : buffer[k - 1] \in AnswerTokens
    BY <1>3, <2>2
  <2> HIDE DEF sent
  <2>5. sent \in Seq(AnswerTokens) /\ Len(sent) = RespLen
    BY <1>4, <2>3, <2>4
  <2> QED
    BY <1>3, <2>3, <2>5
<1> HIDE DEF sent
<1>8. /\ answered' \in Seq(AnswerTokens) /\ Len(answered') = Len(answered) + RespLen
      /\ \A i \in 1 .. Len(answered) : answered'[i] = answered[i]
      /\ \A k \in 1 .. RespLen : answered'[Len(answered) + k] = sent[k]
  <2>1. /\ answered' \in Seq(AnswerTokens) /\ Len(answered') = Len(answered) + Len(sent)
        /\ \A i \in 1 .. Len(answered) : answered'[i] = answered[i]
        /\ \A k \in 1 .. Len(sent) : answered'[Len(answered) + k] = sent[k]
    <3>1. PICK u : u = answered'
      OBVIOUS
    <3>2. u = answered \o sent /\ answered \in Seq(AnswerTokens) /\ sent \in Seq(AnswerTokens)
      BY <1>4, <1>5, <1>7, <3>1
    <3>3. /\ u \in Seq(AnswerTokens) /\ Len(u) = Len(answered) + Len(sent)
          /\ \A i \in 1 .. Len(answered) : u[i] = answered[i]
          /\ \A k \in 1 .. Len(sent) : u[Len(answered) + k] = sent[k]
      BY ONLY <3>2, Concatenation
    <3> QED
      BY ONLY <3>1, <3>3
  <2> QED
    BY <1>7, <2>1
<1>9. Len(answered') = RespLen * N
  BY <1>4, <1>8
<1>10. ASSUME NEW n \in 1 .. N, NEW k \in 1 .. RespLen
       PROVE  answered'[RespLen * (n - 1) + k] = Expected(n)[k]
  <2>1. CASE n = N
    BY <1>4, <1>7, <1>8, <2>1
  <2>2. CASE n # N
    <3>1. RespLen * (n - 1) + k \in 1 .. RespLen * (N - 1)
      <4>1. n \in Nat /\ n >= 1 /\ n <= N - 1 /\ k \in Nat /\ k >= 1 /\ k <= RespLen
        <5> HIDE DEF N
        <5> QED
          BY <1>4, <2>2
      <4>2. RespLen * (n - 1) + RespLen = RespLen * n /\ RespLen * n \in Nat /\ RespLen * (n - 1) \in Nat
        BY <1>4, <4>1
      <4>3. RespLen * n <= RespLen * (N - 1) /\ RespLen * (N - 1) \in Nat
        BY <1>4, <4>1
      <4> QED
        BY <1>4, <4>1, <4>2, <4>3
    <3>2. answered[RespLen * (n - 1) + k] = Expected(n)[k]
      BY <1>4, <3>1 DEF StreamInv, AnswersMatch
    <3> QED
      BY <1>4, <1>8, <3>1, <3>2
  <2> QED
    BY <2>1, <2>2
<1>11. AnswersMatch'
  <2>1. requests' = requests /\ \A n \in 1 .. N : Expected(n)' = Expected(n)
    BY <1>1 DEF Expected
  <2> QED
    BY <1>4, <1>9, <1>10, <2>1 DEF AnswersMatch
<1>12. Waiting'
  BY <1>1, <1>3, <1>5, <1>9 DEF Waiting
<1> QED
  BY <1>1, <1>4, <1>5, <1>6, <1>8, <1>11, <1>12 DEF StreamInv, StreamTypeOK, IsParser

\* A client that asks by GET, whose requests the network does not cut and
\* whose socket takes every response whole, gets the answers to its own
\* requests, each in full and in order: for any paths, any number of
\* requests, any buffer, any limit of the request line.
THEOREM AnswersInOrder ==
  ASSUME Undivided
  PROVE  Spec => []AnswersMatch
<1>1. Init => StreamInv
  <2> SUFFICES ASSUME Init PROVE StreamInv
    OBVIOUS
  <2>1. /\ state = "READING" /\ parser = Fresh /\ bytes_read = 0
        /\ requests = <<>> /\ wire = <<>> /\ answered = <<>>
    BY DEF Init
  <2>2. RespLen * 0 = 0
    BY StreamAssumption
  <2> QED
    BY <2>1, <2>2 DEF StreamInv, StreamTypeOK, IsParser, Fresh, Waiting, AnswersMatch
<1>2. StreamInv /\ [Next]_vars => StreamInv'
  <2> SUFFICES ASSUME StreamInv, [Next]_vars PROVE StreamInv'
    OBVIOUS
  <2>1. CASE UNCHANGED vars
    BY <2>1 DEF vars, StreamInv, StreamTypeOK, IsParser, Waiting, Asked, Replying, Shut, OneOpen,
                AnswersMatch, Expected
  <2> QED
    BY <2>1, SendKeeps, HandleReadKeeps, HandleWriteKeeps DEF Next
<1>3. StreamInv => AnswersMatch
  BY DEF StreamInv
<1> QED
  BY <1>1, <1>2, <1>3, PTL DEF Spec

=============================================================================
