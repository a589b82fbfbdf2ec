-------------------------------- MODULE Http --------------------------------
(****************************************************************************)
(* http.c as server.c calls it: requests, several on one connection, are     *)
(* read from input that arrives in any segments; a chunked body is joined in *)
(* the input buffer itself; and the response of each is written.  The loops  *)
(* of http_dechunk and of utility_u32_sprint take one step per iteration.    *)
(*                                                                           *)
(* A cell of the input is what the code tells apart: a part of a head, the   *)
(* digits of a chunk size, a line end, or a byte of a body, which may be a   *)
(* line feed.  A size that is declared need not be the one that is sent, and  *)
(* sums of sizes are as wide as in the code.  The parser of heads,           *)
(* phr_parse_request, is external.  Server has the sessions, the flushing    *)
(* and the responses that come later.                                        *)
(****************************************************************************)
EXTENDS Integers, Sequences, FiniteSets

CONSTANTS
  Scripts,  \* what a client may send: sequences of requests
  SizeMod,  \* the numbers of a size_t; 2^64 in the code
  IntMod    \* the numbers of an int; 2^32 in the code

HeadSize == 2

CR == <<"cr", 0>>
LF == <<"lf", 0>>

ASSUME WidthsAssumption ==
  {SizeMod, IntMod} \subseteq Nat /\ 4 < IntMod /\ IntMod % 2 = 0 /\ SizeMod % IntMod = 0

\* A request of a client: whether its head is well-formed, its method, its header
\* fields, its body in the pieces it is sent in, what it says the sizes of these are,
\* if they are chunks, and the size of the body that the application will respond
\* with.  A value of a field is a sequence.
ASSUME ScriptsAssumption ==
  \A s \in Scripts : \A k \in DOMAIN s :
    /\ DOMAIN s[k].says = DOMAIN s[k].pieces
    /\ s[k].formed \in BOOLEAN /\ s[k].method \in {"GET", "POST"}
    /\ s[k].asks \in Nat /\ s[k].asks \div 2 < 2 ^ 30
    /\ \A f \in DOMAIN s[k].fields : DOMAIN s[k].fields[f] = {"name", "value"}

VARIABLES
  script,    \* the requests of the client
  sending,   \* cells that have not arrived
  input,     \* stream->input
  offset,    \* request->stream_offset
  pc,        \* where the session is
  at,        \* offset of the loops of http_dechunk, in the input
  body,      \* request->body, which a request without one leaves as it is
  served,    \* history: number and body of each request the application was given
  rest,      \* n in utility_u32_sprint
  string,    \* string in utility_u32_sprint
  storage    \* storage in http_write_response

vars == <<script, sending, input, offset, pc, at, body, served, rest, string, storage>>

NoData == [at |-> 0, size |-> 0]
Data(from, size) == [at |-> from, size |-> size]
Bytes(d) == SubSeq(input, d.at + 1, d.at + d.size)

-----------------------------------------------------------------------------
(* What a client sends *)

Chunked(pieces, says) ==
  LET cells[k \in 0 .. Len(pieces)] ==
        IF k = 0 THEN <<>>
        ELSE cells[k - 1] \o <<<<"size", says[k]>>, CR, LF>> \o pieces[k] \o <<CR, LF>>
  IN  cells[Len(pieces)] \o <<<<"size", 0>>, CR, LF, CR, LF>>

Joined(pieces) ==
  LET cells[k \in 0 .. Len(pieces)] == IF k = 0 THEN <<>> ELSE cells[k - 1] \o pieces[k]
  IN  cells[Len(pieces)]

\* http_field_lookup: the first field of that name; an empty value if there is none.
FieldLookup(fields, name) ==
  IF \A f \in DOMAIN fields : fields[f].name # name THEN <<>>
  ELSE LET first == CHOOSE f \in DOMAIN fields :
                      /\ fields[f].name = name
                      /\ \A g \in 1 .. f - 1 : fields[g].name # name
       IN  fields[first].value

Encoding(r) == FieldLookup(r.fields, "Transfer-Encoding")
Length(r)   == FieldLookup(r.fields, "Content-Length")

HeadOf(r, k) == <<IF r.formed THEN <<"head", k>> ELSE <<"bad", 0>>, <<"fields", k>>>>

Wire(r, k) ==
  HeadOf(r, k)
    \o (IF Encoding(r) = <<>> THEN Joined(r.pieces) ELSE Chunked(r.pieces, r.says))

\* The cells of the requests after the first so many.
WireAfter(s, served_) ==
  LET cells[k \in served_ .. Len(s)] ==
        IF k = served_ THEN <<>> ELSE cells[k - 1] \o Wire(s[k], k)
  IN  cells[Len(s)]

-----------------------------------------------------------------------------

Init ==
  /\ script \in Scripts /\ sending = WireAfter(script, 0)
  /\ input = <<>> /\ offset = 0 /\ pc = "recv" /\ at = 0
  /\ body = NoData /\ served = <<>>
  /\ rest = 0 /\ string = 0 /\ storage = [p \in 0 .. 15 |-> 0]

Response == <<rest, string, storage>>

\* STREAM_READ with any part of what the client sends.
Recv(n) ==
  /\ pc = "recv" /\ n \in 1 .. Len(sending)
  /\ input' = input \o SubSeq(sending, 1, n)
  /\ sending' = SubSeq(sending, n + 1, Len(sending))
  /\ pc' = "parse"
  /\ UNCHANGED <<script, offset, at, body, served, Response>>

-----------------------------------------------------------------------------
(* http_read_request *)

\* phr_parse_request at the offset: the size of the head, or -1, or -2 as long as
\* the head is not complete.
ParsedHead ==
  LET left == Len(input) - offset
  IN  IF left > 0 /\ input[offset + 1][1] # "head" THEN -1
      ELSE IF left < HeadSize THEN -2
      ELSE HeadSize

\* -1: server_parse disconnects.
Refuse(d) ==
  /\ pc' = "gone" /\ input' = <<>> /\ body' = d
  /\ UNCHANGED <<script, sending, offset, at, served, Response>>

\* -2: server_parse reads on; what was served leaves the buffer.
ReadOn(d) ==
  /\ pc' = "recv" /\ offset' = 0 /\ body' = d
  /\ input' = SubSeq(input, offset + 1, Len(input))
  /\ UNCHANGED <<script, sending, at, served, Response>>

\* The request is the application's, with the body b, and n cells are behind the offset.
Give(k, n, d, b) ==
  /\ pc' = "call" /\ offset' = offset + n /\ body' = d
  /\ served' = Append(served, <<k, b>>)
  /\ UNCHANGED <<script, sending, input, at, Response>>

\* The end: an assertion has failed, or memory is used that is not the buffer's.
Stop(end) ==
  /\ pc' = end
  /\ UNCHANGED <<script, sending, input, offset, at, body, served, Response>>

\* A size_t as an int.
Narrow(n) == LET m == n % IntMod IN IF m < IntMod \div 2 THEN m ELSE m - IntMod

\* http_read_request returns the size of the head and the body d as an int; server_parse
\* asserts that it is none but -1 and -2 if it is not positive.
Return(k, total, d) ==
  LET n == Narrow(total) IN
    \/ n = -1 /\ Refuse(d)
    \/ n = -2 /\ ReadOn(d)
    \/ n <= 0 /\ n \notin {-1, -2} /\ Stop("failed")
    \/ n > 0 /\ Len(input) < d.at + d.size /\ Stop("wild")
    \/ n > 0 /\ d.at + d.size <= Len(input) /\ Give(k, n, d, Bytes(d))

\* strtoull: what is too large is the largest number, and what is negative the number
\* it is as a size_t.
Strtoull(v) == IF v \in 1 - SizeMod .. SizeMod - 1 THEN v % SizeMod ELSE SizeMod - 1

\* strtoull of what follows the offset; it skips line ends, and is 0 without a digit.
HexSize(o) ==
  LET cells == {p \in o + 1 .. Len(input) : input[p] \notin {CR, LF}}
      first == CHOOSE p \in cells : \A q \in cells : p <= q
  IN  IF cells # {} /\ input[first][1] = "size" THEN Strtoull(input[first][2]) ELSE 0

NoChunk == [n |-> 0, at |-> 0, size |-> 0]

\* The size of a chunk with its line and the end of its data, which is a size_t.
ChunkSize(line, size) == (line + size + 2) % SizeMod

\* http_chunk: the line with the size, the data and the end of its line.
Chunk(o) ==
  LET ends == {p \in o + 1 .. Len(input) : input[p] = LF}
      end  == CHOOSE p \in ends : \A q \in ends : p <= q
      size == HexSize(o)
      n    == ChunkSize(end - o, size)
  IN  IF ends = {} \/ Len(input) - o < n THEN NoChunk
      ELSE [n |-> n, at |-> end, size |-> size]

Parse ==
  /\ pc = "parse"
  /\ \/ ParsedHead = -1 /\ Refuse(body)
     \/ ParsedHead = -2 /\ ReadOn(body)
     \/ /\ ParsedHead > 0
        /\ LET k     == input[offset + 1][2]
               r     == script[k]
               size  == Strtoull(Length(r)[1])
               total == (HeadSize + size) % SizeMod
               from  == offset + HeadSize
           IN
           \/ r.method = "GET" /\ Give(k, HeadSize, body, <<>>)
           \/ r.method # "GET" /\ Length(r) # <<>> /\ Encoding(r) # <<>> /\ Refuse(body)
           \/ /\ r.method # "GET" /\ Length(r) # <<>> /\ Encoding(r) = <<>>
              /\ IF Len(input) - offset < total THEN ReadOn(body)
                 ELSE Return(k, total, Data(from, size))
           \/ /\ r.method # "GET" /\ Length(r) = <<>>
              /\ IF Encoding(r) # <<"chunked">> THEN Refuse(body)
                 ELSE /\ pc' = "measure" /\ at' = from
                      /\ UNCHANGED <<script, sending, input, offset, body, served, Response>>

MeasureNothing ==                                                   \* mutant
  /\ pc = "measure"
  /\ IF Chunk(at).n = 0 THEN ReadOn(body)
     ELSE /\ pc' = "move" /\ at' = at /\ body' = Data(at, 0)
          /\ UNCHANGED <<script, sending, input, offset, served, Response>>

\* http_dechunk, the first loop: the input stays as it is until the last chunk has
\* come.
Measure ==
  /\ pc = "measure"
  /\ LET c == Chunk(at) IN
     IF c.n = 0 THEN ReadOn(body)
     ELSE /\ IF c.size = 0
             THEN /\ pc' = "move" /\ at' = offset + HeadSize
                  /\ body' = Data(offset + HeadSize, 0)
             ELSE at' = at + c.n /\ UNCHANGED <<pc, body>>
          /\ UNCHANGED <<script, sending, input, offset, served, Response>>

\* memmove of a chunk to the end of those before it
Moved(c, d) ==
  [p \in DOMAIN input |->
     IF p \in d.at + d.size + 1 .. d.at + d.size + c.size
     THEN input[p - d.at - d.size + c.at] ELSE input[p]]

\* http_dechunk, the second loop: memmove is within the buffer, or wild.
Move ==
  /\ pc = "move"
  /\ LET c == Chunk(at)
         d == Data(body.at, body.size + c.size)
         n == at + c.n - offset
     IN  \/ c.at + c.size > Len(input) /\ Stop("wild")
         \/ /\ c.at + c.size <= Len(input) /\ c.size # 0
            /\ input' = Moved(c, body) /\ at' = at + c.n /\ body' = d
            /\ UNCHANGED <<script, sending, offset, pc, served, Response>>
         \/ /\ c.at + c.size <= Len(input) /\ c.size = 0
            /\ Return(input[offset + 1][2], n, d)

-----------------------------------------------------------------------------
(* http_write_response, for a request that is responded to *)

Served == script[served[Len(served)][1]]

\* 32 - __builtin_clz(n | 1)
Bits(n) == 1 + Cardinality({b \in 1 .. 30 : 2 ^ b <= n})

Power10(t) == IF t = 0 THEN 0 ELSE 10 ^ t

DigitsByBits(n) == (Bits(n) * 1233) \div 4096 + 1                   \* mutant

\* utility_u32_len
Digits(n) ==
  LET t == (Bits(n) * 1233) \div 4096
  IN  t - (IF n < Power10(t) THEN 1 ELSE 0) + 1

\* The application responds with a body of the size asked for.
Respond ==
  /\ pc = "call"
  /\ pc' = "print"
  /\ rest' = Served.asks /\ string' = Digits(Served.asks)
  /\ UNCHANGED <<script, sending, input, offset, at, body, served, storage>>

\* digits[i + 1] and digits[i] of a number below 100, from the end
Pair(i, p) == [storage EXCEPT ![p - 1] = i % 10, ![p - 2] = i \div 10]

\* utility_u32_sprint: two digits at a time.
PrintPair ==
  /\ pc = "print" /\ rest >= 100
  /\ storage' = Pair(rest % 100, string) /\ string' = string - 2
  /\ rest' = rest \div 100
  /\ UNCHANGED <<script, sending, input, offset, pc, at, body, served>>

\* ... and the first one or two.
PrintLast ==
  /\ pc = "print" /\ rest < 100
  /\ IF rest < 10
     THEN storage' = [storage EXCEPT ![string - 1] = rest] /\ string' = string - 1
     ELSE storage' = Pair(rest, string) /\ string' = string - 2
  /\ pc' = "write"
  /\ UNCHANGED <<script, sending, input, offset, at, body, served, rest>>

\* The room http_write_response allocates, and the bytes it pushes, for a status and
\* a type of these sizes: the fields Server, Date, Content-Type, Content-Length.
Room(status, type, size) ==
  9 + status + 2 + 17 + 37 + (IF type = 0 THEN 0 ELSE 16 + type)
    + (18 + Digits(size)) + 2 + size

Field(name, value) == name + 2 + value + 2

Pushed(status, type, size, length) ==
  9 + status + 2 + Field(6, 7) + Field(4, 29)
    + (IF type = 0 THEN 0 ELSE Field(12, type)) + Field(14, length) + 2 + size

WriteThenRecv ==                                                    \* mutant
  /\ pc = "write" /\ pc' = "recv"
  /\ rest' = 0 /\ string' = 0 /\ storage' = [p \in 0 .. 15 |-> 0]
  /\ UNCHANGED <<script, sending, input, offset, at, body, served>>

\* The response is written, and server_parse goes on.
Write ==
  /\ pc = "write" /\ pc' = "parse"
  /\ rest' = 0 /\ string' = 0 /\ storage' = [p \in 0 .. 15 |-> 0]
  /\ UNCHANGED <<script, sending, input, offset, at, body, served>>

-----------------------------------------------------------------------------

Step ==
  \/ Parse \/ Measure \/ Move
  \/ Respond \/ PrintPair \/ PrintLast \/ Write

Next == Step \/ \E n \in DOMAIN sending : Recv(n)

Spec == Init /\ [][Next]_vars

\* The loop's thread runs on, and the application responds.
FairSpec == Spec /\ WF_vars(Step)

-----------------------------------------------------------------------------
(* Properties *)

\* Types; the offset is in the input as long as there is one.
TypeOK ==
  /\ script \in Scripts
  /\ pc \in {"recv", "parse", "measure", "move", "call", "print", "write", "gone", "failed",
             "wild"}
  /\ offset \in 0 .. Len(input) \/ pc = "gone"
  /\ at \in Nat /\ body.at \in Nat /\ body.size \in Nat
  /\ Len(served) <= Len(script)
  /\ rest \in Nat /\ string \in 0 .. 16 /\ storage \in [0 .. 15 -> 0 .. 9]

\* A request with a body, as the code tells.
HasBody(r) == r.method # "GET"

\* The sizes that a request says it has, and whether they are those that it is sent with.
Sizes(r) ==
  {r.says[k] : k \in DOMAIN r.says} \cup {Length(r)[k] : k \in DOMAIN Length(r)}
Honest(r) ==
  /\ \A k \in DOMAIN r.says : r.says[k] = Len(r.pieces[k])
  /\ \A k \in DOMAIN Length(r) : Length(r)[k] = Len(Joined(r.pieces))

\* Scripts of which a size_t tells the sum of any size that a request says it has and what
\* is in the buffer, and an int the size of any request, which may be all that follows if
\* it is not honest.
FitScripts ==
  {s \in Scripts :
     LET all == Len(WireAfter(s, 0)) IN
       \A k \in DOMAIN s :
         /\ \A v \in Sizes(s[k]) : Strtoull(v) + all + 2 < SizeMod
         /\ \/ all < IntMod \div 2
            \/ Honest(s[k]) /\ Len(Wire(s[k], k)) < IntMod \div 2}

\* ... and of which what is read should be what was sent, since the sizes are true.
TrueScripts == {s \in FitScripts : \A k \in DOMAIN s : Honest(s[k])}

\* Whatever segments it came in, what is in the buffer behind the offset and has
\* not arrived is exactly the requests that were not served: nothing of a chunked
\* body that is not complete was moved, and a request ends where the next begins.
InputSound ==
  pc \notin {"move", "gone"} /\ script \in TrueScripts =>
    SubSeq(input, offset + 1, Len(input)) \o sending = WireAfter(script, Len(served))

\* The application is given the client's requests in their order, each with the body
\* that was sent, of as many pieces as it was; while it has one, request->body is
\* that body in the buffer.
BodiesSound ==
  served # <<>> /\ script \in TrueScripts =>
    /\ \A k \in DOMAIN served :
         served[k] = <<k, IF HasBody(script[k]) THEN Joined(script[k].pieces) ELSE <<>>>>
    /\ pc \in {"call", "print", "write"} /\ HasBody(Served) =>
         Bytes(body) = Joined(Served.pieces)

\* Whatever sizes a client says, as long as they fit the types, the loops of http_dechunk
\* stay in the buffer, what the second one reads was not yet written over, the size that
\* is returned is positive, and the body that is given away is in the buffer.
LoopsSound ==
  pc \in {"measure", "move", "failed", "wild"} /\ script \in FitScripts =>
    /\ pc \in {"measure", "move"} /\ at \in offset + HeadSize .. Len(input)
    /\ pc = "move" => Chunk(at).n > 0 /\ body.at + body.size <= at

\* The same without a condition on the sizes, which does not hold.
SizesHold == pc \notin {"failed", "wild"}

\* http.c reads what was sent, from input cut into segments anywhere.
HttpSound == TypeOK /\ InputSound /\ BodiesSound /\ LoopsSound

DecimalDigits(n) == 1 + Cardinality({k \in 1 .. 9 : 10 ^ k <= n})

\* The response fills the memory allocated for it to the byte, and its
\* Content-Length is the decimal number of the size of the body: utility_u32_sprint,
\* which writes from the end, ends at the first byte of the storage.
ResponseExact ==
  pc = "write" =>
    LET size == Served.asks
        d    == DecimalDigits(size)
    IN  /\ string = 0
        /\ \A p \in 0 .. d - 1 : storage[p] = (size \div 10 ^ (d - 1 - p)) % 10
        /\ \A status, type \in {0, 1} : Room(status, type, size) = Pushed(status, type, size, d)

\* http_read_request takes the request, and does not refuse it.
Accepted(r) ==
  /\ r.formed
  /\ r.method # "GET" =>
       (Length(r) # <<>> /\ Encoding(r) = <<>>) \/ (Length(r) = <<>> /\ Encoding(r) = <<"chunked">>)

\* The client has sent the first k requests, and all of them are acceptable.
Sent(k) ==
  /\ Len(sending) <= Len(WireAfter(script, k))
  /\ \A j \in 1 .. k : Accepted(script[j])

\* A request that has arrived was not read, or one that is not acceptable is there with
\* its head and the session has not ended.
Waiting ==
  /\ script \in TrueScripts
  /\ \E k \in Len(served) + 1 .. Len(script) :
       \/ Sent(k)
       \/ /\ pc # "gone" /\ ~Accepted(script[k]) /\ Sent(k - 1)
          /\ Len(sending) + HeadSize <= Len(WireAfter(script, k - 1))

\* A request that has arrived is read, without a byte after it, if its sizes are true and
\* fit; one that is not acceptable ends the session as soon as its head is there.  What
\* has arrived stays so; that again and again nothing waits says that each is read at last.
RequestsAreRead == []<>~Waiting
==============================================================================
