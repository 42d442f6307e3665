---------------------------- MODULE CookieScanner ----------------------------
(***************************************************************************)
(* The cookie parser of packages/ohn-cookie/src/ohn-cookie.js.             *)
(* scanCookies walks over the bytes of a Cookie header and returns, for    *)
(* each cookie, four offsets into the buffer; getCookie scans and returns  *)
(* the value of the first cookie of a name.  One pass of the outer loop is *)
(* one step; its inner loops, which only move an index to the next byte of *)
(* some kind, are the operators FirstFrom and TrimEnd.                     *)
(*                                                                         *)
(* Offsets are those of the code, from 0; the byte at offset k is At(k).   *)
(***************************************************************************)
EXTENDS Integers, Sequences, FiniteSets

CONSTANTS
    Letters,    \* bytes that are neither space, '=' nor ';'
    MaxLen      \* bound on the length of a header, of the model only

ASSUME CookieAssumption == MaxLen \in Nat

SPACE == 32        \* 0x20
EQUALS == 61       \* 0x3D
SEMICOLON == 59    \* 0x3B
Bytes == Letters \cup {SPACE, EQUALS, SEMICOLON}
Headers == UNION {[1..n -> Bytes] : n \in 0..MaxLen}
Keys == UNION {[1..n -> Letters \cup {SPACE, EQUALS}] : n \in 0..2}

VARIABLES
    header,     \* the header
    pos,        \* i: how far the scan has come
    results,    \* results: the pointers found so far
    cookiePhase,      \* "scan", "scanned" or "answered"
    wanted,     \* keyString of getCookie
    answer      \* what getCookie returned

cookieVars == <<header, pos, results, cookiePhase, wanted, answer>>

len == Len(header)
At(k) == header[k + 1]
Text(from, to) == SubSeq(header, from + 1, to)

\* No cookie of that name: null in the code; no byte is negative.
NoCookie == <<-1>>

CookieInit ==
    /\ header \in Headers
    /\ pos = 0
    /\ results = <<>>
    /\ cookiePhase = "scan"
    /\ wanted = <<>>
    /\ answer = NoCookie

-----------------------------------------------------------------------------
\* while (i < len && buffer[i] is not in stop) i++
FirstFrom(k, stop) ==
    CHOOSE j \in k..len : /\ j = len \/ At(j) \in stop
                          /\ \A m \in k..(j - 1) : At(m) \notin stop

\* Fault: the test end > start is missing.
TrimEndPastStart(start, end) ==
    CHOOSE j \in 0..end : /\ j = 0 \/ At(j - 1) # SPACE
                          /\ \A m \in j..(end - 1) : At(m) = SPACE

\* while (end > start && buffer[end - 1] is a space) end--
TrimEnd(start, end) ==
    CHOOSE j \in start..end : /\ j = start \/ At(j - 1) # SPACE
                              /\ \A m \in j..(end - 1) : At(m) = SPACE

NoSpace == Bytes \ {SPACE}

\* One cookie, from keyStart: the four offsets and where the scan stops.
ScanCookie(keyStart) ==
    LET keyStop == FirstFrom(keyStart, {EQUALS, SEMICOLON})
        keyEnd == TrimEnd(keyStart, keyStop)
        hasValue == keyStop < len /\ At(keyStop) = EQUALS
        valStart == IF hasValue THEN FirstFrom(keyStop + 1, NoSpace) ELSE keyEnd
        valStop == IF hasValue THEN FirstFrom(valStart, {SEMICOLON}) ELSE keyStop
        valEnd == IF hasValue THEN TrimEnd(valStart, valStop) ELSE keyEnd
    IN  [keyStart |-> keyStart, keyEnd |-> keyEnd, valStart |-> valStart, valEnd |-> valEnd,
         stop |-> valStop]

Pointer(c) == [keyStart |-> c.keyStart, keyEnd |-> c.keyEnd, valStart |-> c.valStart, valEnd |-> c.valEnd]

\* A pass of the outer loop that finds a cookie; the ';' after it is skipped.
FindCookie ==
    /\ cookiePhase = "scan"
    /\ pos < len
    /\ LET keyStart == FirstFrom(pos, NoSpace)
           c == ScanCookie(keyStart)
       IN  /\ keyStart < len
           /\ results' = Append(results, Pointer(c))
           /\ pos' = IF c.stop < len THEN c.stop + 1 ELSE c.stop
    /\ UNCHANGED <<header, cookiePhase, wanted, answer>>

\* The end of the buffer, or nothing but spaces before it.
EndScan ==
    /\ cookiePhase = "scan"
    /\ FirstFrom(pos, NoSpace) = len
    /\ cookiePhase' = "scanned"
    /\ pos' = len
    /\ UNCHANGED <<header, results, wanted, answer>>

\* Fault: the lengths are not compared, a longer key matches.
MatchesPrefix(p, key) ==
    p.keyEnd - p.keyStart >= Len(key) /\ Text(p.keyStart, p.keyStart + Len(key)) = key

\* getCookie over the pointers scanCookies returned.
Matches(p, key) == p.keyEnd - p.keyStart = Len(key) /\ Text(p.keyStart, p.keyEnd) = key

GetCookie(key) ==
    /\ cookiePhase = "scanned"
    /\ cookiePhase' = "answered"
    /\ wanted' = key
    /\ LET hits == {n \in DOMAIN results : Matches(results[n], key)}
           first == CHOOSE n \in hits : \A m \in hits : n <= m
       IN  answer' = IF hits = {} THEN NoCookie
                     ELSE Text(results[first].valStart, results[first].valEnd)
    /\ UNCHANGED <<header, pos, results>>

CookieNext == FindCookie \/ EndScan \/ \E key \in Keys : GetCookie(key)

CookieSpec == CookieInit /\ [][CookieNext]_cookieVars

-----------------------------------------------------------------------------
(***************************************************************************)
(* Properties                                                              *)
(***************************************************************************)
\* The pointers of a cookie are in order and inside the buffer, and cookies
\* do not overlap: a user may cut the buffer at them without looking.
PointersInOrder ==
    /\ pos \in 0..len
    /\ \A n \in DOMAIN results :
          LET p == results[n]
          IN  /\ 0 <= p.keyStart /\ p.keyStart <= p.keyEnd
              /\ p.keyEnd <= p.valStart /\ p.valStart <= p.valEnd
              /\ p.valEnd <= pos
    /\ \A n \in 2..Len(results) : results[n - 1].valEnd < results[n].keyStart

\* What a header means, said without an index that moves: the stretches
\* between semicolons, where the last one counts only if it is not blank.
Segments == {s \in (0..len) \X (0..len) :
                /\ s[1] <= s[2]
                /\ s[1] = 0 \/ At(s[1] - 1) = SEMICOLON
                /\ s[2] = len \/ At(s[2]) = SEMICOLON
                /\ \A m \in s[1]..(s[2] - 1) : At(m) # SEMICOLON
                /\ s[2] = len => \E m \in s[1]..(s[2] - 1) : At(m) # SPACE}

Trimmed(from, to) ==
    LET solid == {m \in from..(to - 1) : At(m) # SPACE}
    IN  IF solid = {} THEN <<>>
        ELSE Text(CHOOSE m \in solid : \A k \in solid : m <= k,
                  1 + CHOOSE m \in solid : \A k \in solid : m >= k)

SplitAt(s) ==
    LET equals == {m \in s[1]..(s[2] - 1) : At(m) = EQUALS}
        first == CHOOSE m \in equals : \A k \in equals : m <= k
    IN  IF equals = {} THEN [key |-> Trimmed(s[1], s[2]), value |-> <<>>]
        ELSE [key |-> Trimmed(s[1], first), value |-> Trimmed(first + 1, s[2])]

Before(s) == {t \in Segments : t[1] < s[1]}

InOrder ==
    /\ Len(results) = Cardinality(Segments)
    /\ \A s \in Segments :
          LET p == results[Cardinality(Before(s)) + 1]
          IN  SplitAt(s) = [key |-> Text(p.keyStart, p.keyEnd), value |-> Text(p.valStart, p.valEnd)]

FirstOf(key) ==
    LET hits == {s \in Segments : SplitAt(s).key = key}
    IN  IF hits = {} THEN NoCookie
        ELSE SplitAt(CHOOSE s \in hits : \A t \in hits : s[1] <= t[1]).value

\* The scan finds the cookies of the header, in order, and no others;
\* getCookie returns the value of the first cookie of that name, the empty
\* value for a cookie without one, and null only if there is none.
AgreesWithSplit ==
    /\ cookiePhase # "scan" => InOrder
    /\ cookiePhase = "answered" => answer = FirstOf(wanted)

=============================================================================
