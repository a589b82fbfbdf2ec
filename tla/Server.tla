-------------------------------- MODULE Server --------------------------------
(****************************************************************************)
(* server.c: HTTP requests over streams.  A session reads, parses and calls *)
(* the application for one request at a time; the application responds at   *)
(* once or later, and the session goes on with requests already received.   *)
(* It reads only when all responses are out.                                *)
(*                                                                          *)
(* A request is two bytes: byte b of a client belongs to its request        *)
(* (b + 1) \div 2, and a response is known by the number of its request.    *)
(* Streams appear as stream.c keeps them, except that a write is done as a  *)
(* whole (Stream has the partial ones) and that a cancelled one is not      *)
(* carried out.  The timer that only renews the date is left out.           *)
(****************************************************************************)
EXTENDS Integers, Sequences

CONSTANTS
  Clients,
  MaxRequests   \* bound: requests of a client

ASSUME BoundsAssumption == MaxRequests \in Nat

VARIABLES
  open,     \* server->fd is not -1
  accept,   \* server->accept: None, Waits, or its result
  session,  \* the sessions, server->requests those that are open
  at,       \* the session in whose request the application runs, or None
  abort,    \* the flag request->abort of that session points to
  held      \* history: requests the application has to respond to

vars == <<open, accept, session, at, abort, held>>

None   == "none"
Waits  == "waits"
Done   == "done"
Failed == "failed"

\* What a word says of an operation is no client.
ASSUME ClientsAssumption == {None, Waits, Done, Failed} \cap Clients = {}

Bytes   == 1 .. 2 * MaxRequests
Numbers == 1 .. MaxRequests

\* A session: fd, its input buffer and stream_offset; the read, and the bytes it
\* returned; output.data, output.data_next, the write; in_progress.  Then what
\* only the world knows: the bytes sent, the first request that is not HTTP, the
\* requests the application was called for, and the responses received.
Sessions ==
  [state : {"new", "accepted", "open", "gone", "leaked"},
   input : Seq(Bytes), offset : Nat, read : {None, Waits, Done, Failed},
   batch : Seq(Bytes), data : Seq(Numbers), dataNext : Seq(Numbers),
   write : {None, Waits, Done, Failed}, busy : BOOLEAN,
   sent : 0 .. 2 * MaxRequests, bad : 0 .. MaxRequests,
   called : 0 .. MaxRequests, got : Seq(Numbers)]

Live(c) == session[c].state = "open"

\* Types; a session that is gone has no operation left that would call it back,
\* and a server that is closed has no session.
TypeOK ==
  /\ open \in BOOLEAN /\ accept \in {None, Waits, Failed} \cup Clients
  /\ session \in [Clients -> Sessions]
  /\ at \in Clients \cup {None} /\ abort \in BOOLEAN /\ held \subseteq Clients
  /\ \A c \in Clients : LET r == session[c] IN
       /\ ~Live(c) => r.read = None /\ r.write = None /\ ~r.busy
       /\ Live(c) => open
  /\ at # None => (abort <=> ~Live(at))
  /\ (accept # None) <=> open

\* server_construct, server_open
Init ==
  /\ open = TRUE /\ accept = Waits
  /\ \E bad \in [Clients -> 0 .. MaxRequests] :
       session = [c \in Clients |->
         [state |-> "new", input |-> <<>>, offset |-> 0, read |-> None,
          batch |-> <<>>, data |-> <<>>, dataNext |-> <<>>, write |-> None,
          busy |-> FALSE, sent |-> 0, bad |-> bad[c], called |-> 0,
          got |-> <<>>]]
  /\ at = None /\ abort = FALSE /\ held = {}

-----------------------------------------------------------------------------
(* What the handlers do with a session *)

\* stream_flushed
Flushed(r) == r.data = <<>> /\ r.dataNext = <<>>

\* server_flush
Flush(r) ==
  IF Flushed(r) \/ r.write # None THEN r
  ELSE [r EXCEPT !.data = r.dataNext, !.dataNext = r.data, !.write = Waits]

Rest(r) == SubSeq(r.input, r.offset + 1, Len(r.input))

\* server_read: the requests that were served leave the buffer.
Read(r) == [r EXCEPT !.input = Rest(r), !.offset = 0, !.read = Waits]

IOReads(r) == IF ~Flushed(r) THEN Read(Flush(r)) ELSE Read(r)       \* mutant

\* server_io
IO(r) == IF ~Flushed(r) THEN Flush(r) ELSE Read(r)

\* stream_destruct, and the request is freed.
Gone(r) ==
  [r EXCEPT !.state = "gone", !.input = <<>>, !.offset = 0, !.read = None,
            !.batch = <<>>, !.data = <<>>, !.dataNext = <<>>, !.write = None,
            !.busy = FALSE]

Set(c, r) == session' = [session EXCEPT ![c] = r]

\* http_read_request finds no request, an invalid one, or one.
Incomplete(r) == Len(Rest(r)) < 2
Invalid(r)    == Rest(r) # <<>> /\ (Rest(r)[1] + 1) \div 2 = r.bad

\* server_parse, up to the callback of the application if it comes to that.
Parse(c, r) ==
  \/ /\ Invalid(r)
     /\ Set(c, Gone(r)) /\ at' = None /\ UNCHANGED held
  \/ /\ ~Invalid(r) /\ Incomplete(r)
     /\ Set(c, IO(r)) /\ at' = None /\ UNCHANGED held
  \/ /\ ~Invalid(r) /\ ~Incomplete(r)
     /\ Set(c, [r EXCEPT !.offset = @ + 2, !.busy = TRUE, !.called = @ + 1])
     /\ at' = c /\ held' = held \cup {c}

\* server_accept, of a connection.
Accepted(c) == Set(c, Read([session[c] EXCEPT !.state = "open"]))

-----------------------------------------------------------------------------
(* Handlers *)

\* server_accept_callback, with server_accept_next.
AcceptCallback ==
  /\ at = None /\ accept \notin {None, Waits}
  /\ accept' = Waits
  /\ IF accept = Failed THEN UNCHANGED session
     ELSE Accepted(accept)
  /\ UNCHANGED <<open, at, abort, held>>

\* stream_recv_callback and server_stream_callback: STREAM_READ, or the end.
RecvCallback(c) ==
  /\ at = None /\ session[c].read \in {Done, Failed}
  /\ LET r == [session[c] EXCEPT !.read = None] IN
       IF session[c].read = Failed
       THEN Set(c, Gone(r)) /\ UNCHANGED <<at, held>>
       ELSE Parse(c, [r EXCEPT !.input = @ \o r.batch, !.batch = <<>>])
  /\ UNCHANGED <<open, accept, abort>>

SendCallbackWhileBusy(c) ==                                         \* mutant
  /\ at = None /\ session[c].write = Done
  /\ LET r == Flush([session[c] EXCEPT !.write = None, !.data = <<>>]) IN
       IF ~Flushed(r) THEN Set(c, r) /\ UNCHANGED <<at, held>>
       ELSE IF Rest(r) = <<>> THEN Set(c, Read(r)) /\ UNCHANGED <<at, held>>
       ELSE Parse(c, r)
  /\ UNCHANGED <<open, accept, abort>>

\* stream_send_callback and server_stream_callback: an error, more to flush, or
\* STREAM_FLUSHED.
SendCallback(c) ==
  /\ at = None /\ session[c].write \in {Done, Failed}
  /\ LET r == Flush([session[c] EXCEPT !.write = None, !.data = <<>>]) IN
       \/ /\ session[c].write = Failed
          /\ Set(c, Gone(r)) /\ UNCHANGED <<at, held>>
       \/ /\ session[c].write = Done /\ (~Flushed(r) \/ r.busy)
          /\ Set(c, r) /\ UNCHANGED <<at, held>>
       \/ /\ session[c].write = Done /\ Flushed(r) /\ ~r.busy
          /\ IF Rest(r) = <<>>
             THEN Set(c, Read(r)) /\ UNCHANGED <<at, held>>
             ELSE Parse(c, r)
  /\ UNCHANGED <<open, accept, abort>>

\* The application returns to server_parse, which goes on to the next request if
\* this one has its response.
Return ==
  /\ at # None
  /\ abort' = FALSE
  /\ LET r == session[at] IN
       IF abort THEN at' = None /\ UNCHANGED <<session, held>>
       ELSE IF r.busy
            THEN Set(at, Flush(r)) /\ at' = None /\ UNCHANGED held
            ELSE Parse(at, r)
  /\ UNCHANGED <<open, accept>>

-----------------------------------------------------------------------------
(* The application, in a request or from other callbacks *)

\* server_accept of a connection the application has made itself, while the server
\* is open.
Accept(c) ==
  /\ open /\ session[c].state = "new" /\ Accepted(c)
  /\ UNCHANGED <<open, accept, at, abort, held>>

RespondUnflushed(c) ==                                              \* mutant
  /\ Live(c) /\ session[c].busy
  /\ Set(c, [session[c] EXCEPT !.busy = FALSE,
               !.dataNext = Append(@, session[c].called)])
  /\ held' = held \ {c}
  /\ UNCHANGED <<open, accept, at, abort>>

\* server_respond: flushed at once when it comes later.
Respond(c) ==
  /\ Live(c) /\ session[c].busy
  /\ LET r == [session[c] EXCEPT !.busy = FALSE,
                 !.dataNext = Append(@, session[c].called)]
     IN  Set(c, IF at = c THEN r ELSE Flush(r))
  /\ held' = held \ {c}
  /\ UNCHANGED <<open, accept, at, abort>>

\* server_disconnect, of a request the application has.
Disconnect(c) ==
  /\ Live(c) /\ (c \in held \/ at = c)
  /\ Set(c, Gone(session[c]))
  /\ abort' = (abort \/ at = c)
  /\ held' = held \ {c}
  /\ UNCHANGED <<open, accept, at>>

CloseUnflagged ==                                                   \* mutant
  /\ open /\ open' = FALSE
  /\ accept' = None
  /\ session' = [c \in Clients |->
       IF Live(c) THEN Gone(session[c]) ELSE session[c]]
  /\ held' = {}
  /\ UNCHANGED <<at, abort>>

\* server_close; a connection that was accepted and not yet handled is nobody's.
Close ==
  /\ open /\ open' = FALSE
  /\ accept' = None
  /\ session' = [c \in Clients |->
       IF Live(c) THEN Gone(session[c])
       ELSE IF accept = c THEN [session[c] EXCEPT !.state = "leaked"]
       ELSE session[c]]
  /\ abort' = (at # None)
  /\ held' = {}
  /\ UNCHANGED at

-----------------------------------------------------------------------------
(* The kernel and the clients *)

KernelAccept(c) ==
  /\ accept = Waits /\ session[c].state = "new"
  /\ accept' = c /\ Set(c, [session[c] EXCEPT !.state = "accepted"])
  /\ UNCHANGED <<open, at, abort, held>>

KernelAcceptFails ==
  /\ accept = Waits /\ accept' = Failed
  /\ UNCHANGED <<open, session, at, abort, held>>

\* A client sends at any time, any part of its requests.
KernelRead(c, n) ==
  /\ session[c].read = Waits /\ n > 0 /\ session[c].sent + n <= 2 * MaxRequests
  /\ Set(c, [session[c] EXCEPT !.read = Done, !.sent = @ + n,
               !.batch = [k \in 1 .. n |-> session[c].sent + k]])
  /\ UNCHANGED <<open, accept, at, abort, held>>

\* The client closes, or the connection breaks.
KernelReadFails(c) ==
  /\ session[c].read = Waits /\ Set(c, [session[c] EXCEPT !.read = Failed])
  /\ UNCHANGED <<open, accept, at, abort, held>>

KernelWrite(c) ==
  /\ session[c].write = Waits
  /\ Set(c, [session[c] EXCEPT !.write = Done, !.got = @ \o session[c].data])
  /\ UNCHANGED <<open, accept, at, abort, held>>

KernelWriteFails(c) ==
  /\ session[c].write = Waits /\ Set(c, [session[c] EXCEPT !.write = Failed])
  /\ UNCHANGED <<open, accept, at, abort, held>>

Handler(c) == RecvCallback(c) \/ SendCallback(c)
Writes(c)  == KernelWrite(c) \/ KernelWriteFails(c)

Next ==
  \/ AcceptCallback \/ Return \/ Close \/ KernelAcceptFails
  \/ \E c \in Clients :
       \/ Handler(c) \/ Accept(c) \/ Respond(c) \/ Disconnect(c)
       \/ KernelAccept(c) \/ KernelReadFails(c) \/ Writes(c)
       \/ \E n \in Bytes : KernelRead(c, n)

Spec == Init /\ [][Next]_vars

FairSpec ==
  /\ Spec /\ WF_vars(Return)
  /\ \A c \in Clients :
       WF_vars(Handler(c)) /\ WF_vars(Writes(c)) /\ WF_vars(Respond(c))

-----------------------------------------------------------------------------
(* Properties *)

\* A session reads or writes or has a request in progress, so that it is never
\* stuck; and it reads only when there is nothing else.
HalfDuplex ==
  \A c \in Clients : LET r == session[c] IN
    Live(c) =>
      /\ r.read # None => ~r.busy /\ r.write = None /\ Flushed(r) /\ at # c
      /\ at = c \/ r.read # None \/ r.write # None \/ r.busy

\* Requests are taken from the input one after the other, none twice and none
\* left out, however they are cut; and responses leave in their order.
ServedInOrder ==
  \A c \in Clients : LET r == session[c] IN
    Live(c) =>
      /\ Rest(r) \o r.batch = [k \in 1 .. r.sent - 2 * r.called |-> 2 * r.called + k]
      /\ r.got \o (IF r.write = Done THEN <<>> ELSE r.data) \o r.dataNext
           = [k \in 1 .. IF r.busy THEN r.called - 1 ELSE r.called |-> k]

\* Sessions serve one request after the other, each once, and answer in order,
\* whenever the application responds, and are never without something to wait for.
ServerSound == TypeOK /\ HalfDuplex /\ ServedInOrder

\* While the application has a request nothing happens to the input buffer, into
\* which its method, target, fields and body point.
InputIntact ==
  [][\A c \in Clients :
       (session[c].busy \/ at = c) /\ (session'[c].busy \/ at' = c)
         /\ session'[c].called = session[c].called =>
           /\ session'[c].read = None
           /\ session'[c].state = "open" => session'[c].input = session[c].input]_vars

\* A request the application holds is taken from it only by the failure to send an
\* earlier response.
HeldUntilSendFails ==
  [][\A c \in held \cap held' : Live(c) /\ ~Live(c)' => session[c].write = Failed]_vars

\* The application may use the request it was called for until it responds to it or
\* ends it, or the connection is found broken.
RequestIntact == InputIntact /\ HeldUntilSendFails

\* If the application responds to every request, every request a client has sent
\* is answered, unless the session ends.
RequestsAreServed ==
  \A c \in Clients : \A k \in Numbers :
    (session[c].sent >= 2 * k)
      ~> (~Live(c) \/ k \in {session[c].got[j] : j \in DOMAIN session[c].got})

\* A request in progress is there until the application responds to it or ends
\* it.
HeldIsAlive == \A c \in held : Live(c)

\* The requests the application has to respond to are in progress, or their session
\* is gone.
HeldIsBusy ==
  \A c \in held : IF Live(c) THEN session[c].busy ELSE session[c].state = "gone"

\* The application runs in a session, and a connection is accepted, once.
StatesAgree ==
  /\ IF at = None THEN ~abort ELSE session[at].state \in {"open", "gone"}
  /\ accept \in Clients => session[accept].state = "accepted"

\* A session that was not opened has nothing; bytes that were read wait for their
\* callback; data is what is being written.
SessionsFit ==
  \A c \in Clients : LET r == session[c] IN
    /\ r.state \in {"new", "accepted"} =>
         /\ r.input = <<>> /\ r.offset = 0 /\ r.data = <<>> /\ r.dataNext = <<>>
         /\ r.sent = 0 /\ r.called = 0 /\ r.got = <<>>
    /\ r.offset <= Len(r.input) /\ 2 * r.called <= r.sent
    /\ r.busy => r.called > 0
    /\ r.read # Done => r.batch = <<>>
    /\ r.write = None <=> r.data = <<>>

\* The inductive invariant of the sessions.
ServerInv == ServerSound /\ HeldIsBusy /\ StatesAgree /\ SessionsFit
==============================================================================
