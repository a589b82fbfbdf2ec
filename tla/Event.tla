-------------------------------- MODULE Event --------------------------------
(****************************************************************************)
(* event.c: an eventfd that is read again after every callback.             *)
(*                                                                          *)
(* The ring appears as what Reactor.tla says of it: submissions are taken   *)
(* in order, at any time (the queue is flushed whenever any component fills *)
(* it), and the callback of a cancelled read is not called.  Descriptors    *)
(* are numbered by the eventfd() call that made them; Closed is fd == -1.   *)
(****************************************************************************)
EXTENDS Integers, Sequences, FiniteSets

CONSTANTS
  MaxOpens,    \* bound: calls of event_open
  MaxSignals   \* bound: signals per descriptor

ASSUME OpensAssumption   == MaxOpens \in Nat \ {0}
\* The counter stays below the flags of eventfd() other than EFD_SEMAPHORE.
ASSUME SignalsAssumption == MaxSignals \in 0 .. 2047

Closed == 0
Fds    == 1 .. MaxOpens

VARIABLES
  fd,         \* event->fd
  read,       \* event->read: the descriptor whose read it names, or none
  counter,    \* event->counter, the buffer of every read
  abort,      \* event->abort: NULL, the flag of the running handler, or the
              \* flag of a handler that has returned
  aborted,    \* that flag
  pc,         \* "loop": no handler runs; "callback"; "dead": assertion failed
  opens,      \* calls of event_open so far
  sq,         \* submissions, in order
  reading,    \* descriptors with a read in the kernel
  cq,         \* completed reads
  muted,      \* descriptors whose read was cancelled
  count,      \* the kernel's counter of each descriptor
  semaphore,  \* its EFD_SEMAPHORE flag
  sent,       \* history: signals given to each descriptor
  handed,     \* history: signals the callback was told of
  wild        \* history: a flag of a returned handler was written

vars == <<fd, read, counter, abort, aborted, pc, opens, sq, reading, cq, muted,
          count, semaphore, sent, handed, wild>>

Jobs == [what : {"read", "write", "cancel", "close"}, fd : Fds \cup {Closed}]
Done == [fd : Fds \cup {Closed}, ok : BOOLEAN]

\* Types; the read id is 0 while the handler's callback runs, and a handler that
\* was aborted is still on the stack.
TypeOK ==
  /\ fd \in Fds \cup {Closed} /\ read \in Fds \cup {Closed}
  /\ counter \in Nat
  /\ abort \in {"null", "live", "dangling"} /\ aborted \in BOOLEAN
  /\ pc \in {"loop", "callback", "dead"}
  /\ opens \in 0 .. MaxOpens
  /\ sq \in Seq(Jobs) /\ cq \in Seq(Done)
  /\ reading \subseteq Fds \cup {Closed} /\ muted \subseteq Fds
  /\ count \in [Fds -> Nat] /\ semaphore \in [Fds -> BOOLEAN]
  /\ sent \in [Fds -> Nat] /\ handed \in [Fds -> Nat]
  /\ wild \in BOOLEAN
  /\ (abort = "live") = (pc = "callback")
  /\ aborted => pc = "callback"

\* event_construct
Init ==
  /\ fd = Closed /\ read = Closed /\ counter = 0
  /\ abort = "null" /\ aborted = FALSE /\ pc = "loop" /\ opens = 0
  /\ sq = <<>> /\ reading = {} /\ cq = <<>> /\ muted = {}
  /\ count = [f \in Fds |-> 0] /\ semaphore = [f \in Fds |-> FALSE]
  /\ sent = [f \in Fds |-> 0] /\ handed = [f \in Fds |-> 0]
  /\ wild = FALSE

Job(what, f) == [what |-> what, fd |-> f]

-----------------------------------------------------------------------------
(* Calls of the application, between callbacks or inside one *)

Running == pc \in {"loop", "callback"}

\* event_open: the last counter is passed as the flags of eventfd(), which takes
\* 0, EFD_SEMAPHORE (1) and no other small number.  An event is opened once
\* until it is closed.
Open ==
  /\ Running
  /\ fd = Closed /\ opens < MaxOpens
  /\ opens' = opens + 1
  /\ fd' = IF counter \in {0, 1} THEN opens + 1 ELSE Closed
  /\ read' = fd'
  /\ semaphore' = [semaphore EXCEPT ![opens + 1] = counter = 1]
  /\ sq' = Append(sq, Job("read", fd'))
  /\ UNCHANGED <<counter, abort, aborted, pc, reading, cq, muted, count, sent,
                 handed, wild>>

\* event_signal
Signal ==
  /\ Running
  /\ fd # Closed /\ sent[fd] < MaxSignals
  /\ sq' = Append(sq, Job("write", fd))
  /\ sent' = [sent EXCEPT ![fd] = @ + 1]
  /\ UNCHANGED <<fd, read, counter, abort, aborted, pc, opens, reading, cq,
                 muted, count, semaphore, handed, wild>>

\* event_signal_sync
SignalSync ==
  /\ Running
  /\ fd # Closed /\ sent[fd] < MaxSignals
  /\ count' = [count EXCEPT ![fd] = @ + 1]
  /\ sent' = [sent EXCEPT ![fd] = @ + 1]
  /\ UNCHANGED <<fd, read, counter, abort, aborted, pc, opens, sq, reading, cq,
                 muted, semaphore, handed, wild>>

CloseUncancelled ==                                                 \* mutant
  /\ Running /\ fd # Closed
  /\ aborted' = (aborted \/ abort = "live")
  /\ wild' = (wild \/ abort = "dangling")
  /\ sq' = Append(sq, Job("close", fd))
  /\ fd' = Closed
  /\ UNCHANGED <<read, counter, abort, pc, opens, reading, cq, muted, count,
                 semaphore, sent, handed>>

CloseUnflagged ==                                                   \* mutant
  /\ Running /\ fd # Closed
  /\ sq' = (IF read # Closed THEN Append(sq, Job("cancel", read)) ELSE sq)
             \o <<Job("close", fd)>>
  /\ muted' = (IF read # Closed THEN muted \cup {read} ELSE muted)
  /\ fd' = Closed
  /\ UNCHANGED <<read, counter, abort, aborted, pc, opens, reading, cq, count,
                 semaphore, sent, handed, wild>>

\* event_close and event_destruct: the flag is set, the read is cancelled, the
\* descriptor is closed; event->read keeps its value.
Close ==
  /\ Running
  /\ fd # Closed
  /\ aborted' = (aborted \/ abort = "live")
  /\ wild' = (wild \/ abort = "dangling")
  /\ sq' = (IF read # Closed THEN Append(sq, Job("cancel", read)) ELSE sq)
             \o <<Job("close", fd)>>
  /\ muted' = (IF read # Closed THEN muted \cup {read} ELSE muted)
  /\ fd' = Closed
  /\ UNCHANGED <<read, counter, abort, pc, opens, reading, cq, count, semaphore,
                 sent, handed>>

-----------------------------------------------------------------------------
(* event_read *)

\* The callback of a read that completed with the counter.
Handle ==
  /\ pc = "loop"
  /\ cq # <<>> /\ Head(cq).fd \notin muted
  /\ cq' = Tail(cq)
  /\ read' = Closed
  /\ IF Head(cq).ok
     THEN /\ abort' = "live" /\ pc' = "callback"
          /\ handed' = [handed EXCEPT ![Head(cq).fd] = @ + counter]
     ELSE /\ pc' = "dead"
          /\ UNCHANGED <<abort, handed>>
  /\ UNCHANGED <<fd, counter, aborted, opens, sq, reading, muted, count,
                 semaphore, sent, wild>>

\* The completion of a cancelled read calls nothing.
HandleMuted ==
  /\ pc = "loop"
  /\ cq # <<>> /\ Head(cq).fd \in muted
  /\ cq' = Tail(cq)
  /\ UNCHANGED <<fd, read, counter, abort, aborted, pc, opens, sq, reading,
                 muted, count, semaphore, sent, handed, wild>>

ReturnIdle ==                                                       \* mutant
  /\ pc = "callback"
  /\ pc' = "loop" /\ aborted' = FALSE /\ abort' = "null" /\ read' = Closed
  /\ UNCHANGED <<fd, counter, opens, sq, reading, cq, muted, count, semaphore,
                 sent, handed, wild>>

\* The callback returns; event->abort is reset unless the event was closed.
Return ==
  /\ pc = "callback"
  /\ pc' = "loop" /\ aborted' = FALSE
  /\ IF aborted
     THEN /\ abort' = "dangling"
          /\ UNCHANGED <<read, sq>>
     ELSE /\ abort' = "null"
          /\ read' = fd
          /\ sq' = Append(sq, Job("read", fd))
  /\ UNCHANGED <<fd, counter, opens, reading, cq, muted, count, semaphore, sent,
                 handed, wild>>

-----------------------------------------------------------------------------
(* The kernel *)

\* Submissions are taken in order.  A read waits for a signal, and is one that
\* a cancellation ends.
Take ==
  /\ pc # "dead"
  /\ sq # <<>>
  /\ LET e == Head(sq) IN
       /\ reading' = CASE e.what = "read"   -> reading \cup {e.fd}
                       [] e.what = "cancel" -> reading \ {e.fd}
                       [] OTHER             -> reading
       /\ cq' = IF e.what = "cancel" /\ e.fd \in reading
                THEN Append(cq, [fd |-> e.fd, ok |-> FALSE]) ELSE cq
       /\ count' = IF e.what = "write" THEN [count EXCEPT ![e.fd] = @ + 1]
                                       ELSE count
  /\ sq' = Tail(sq)
  /\ UNCHANGED <<fd, read, counter, abort, aborted, pc, opens, muted, semaphore,
                 sent, handed, wild>>

\* A read returns the kernel's counter, or one of it, and writes event->counter.
ReadDone(f) ==
  /\ pc # "dead"
  /\ f \in reading
  /\ reading' = reading \ {f}
  /\ IF f = Closed
     THEN /\ cq' = Append(cq, [fd |-> f, ok |-> FALSE])
          /\ UNCHANGED <<counter, count>>
     ELSE /\ count[f] > 0
          /\ counter' = IF semaphore[f] THEN 1 ELSE count[f]
          /\ count' = [count EXCEPT ![f] = @ - counter']
          /\ cq' = Append(cq, [fd |-> f, ok |-> TRUE])
  /\ UNCHANGED <<fd, read, abort, aborted, pc, opens, sq, muted, semaphore,
                 sent, handed, wild>>

Loop   == Handle \/ HandleMuted \/ Return
Kernel == Take \/ \E f \in Fds \cup {Closed} : ReadDone(f)
Next   == Open \/ Signal \/ SignalSync \/ Close \/ Loop \/ Kernel

Spec     == Init /\ [][Next]_vars
FairSpec == Spec /\ WF_vars(Loop) /\ WF_vars(Kernel)

-----------------------------------------------------------------------------
(* Properties *)

Queued(what, f) == Cardinality({k \in DOMAIN sq : sq[k] = Job(what, f)})
Ready(f)        == {k \in DOMAIN cq : cq[k] = [fd |-> f, ok |-> TRUE]}

\* Every signal to an open descriptor is on its way exactly once: in the ring, in
\* the eventfd, in event->counter, or told to the callback.
SignalsConserved ==
  fd # Closed /\ pc # "dead" =>
    sent[fd] = handed[fd] + Queued("write", fd) + count[fd]
                 + (IF Ready(fd) # {} THEN counter ELSE 0)

\* An open event is always listening, and once only: between callbacks exactly
\* one read of its descriptor is somewhere in the ring, and event->read names it.
OneReader ==
  fd # Closed /\ pc = "loop" =>
    /\ read = fd /\ fd \notin muted
    /\ Queued("read", fd) + Cardinality(reading \cap {fd})
         + Cardinality({k \in DOMAIN cq : cq[k].fd = fd}) = 1

\* An event that has never counted two signals at once can be closed and opened
\* again: a read fails only on a descriptor that eventfd() refused to make, for
\* the flags that were the last count.
FailsByCountOnly == pc = "dead" => opens > 1 /\ \E f \in Fds : sent[f] > 1

\* event_close writes to the flag of the handler that is calling it; the one way to
\* write to that of a handler that has returned is to open the event once more.
WildByReopenOnly == wild => opens > 1

\* No signal is lost or counted twice, however the event is closed and opened,
\* and one read listens as long as it is open.
EventSound ==
  TypeOK /\ SignalsConserved /\ OneReader /\ FailsByCountOnly /\ WildByReopenOnly

\* What the invariants above rest on.  The reads of a descriptor, wherever they
\* are:
Reads(f) == Queued("read", f) + Cardinality(reading \cap {f})
              + Cardinality({k \in DOMAIN cq : cq[k].fd = f})

\* The open descriptor is the last one made, and has one read in the ring but while
\* its callback runs; no descriptor has two, and those of closed ones are muted.
Listening ==
  /\ fd \in {Closed, opens}
  /\ pc = "callback" /\ ~aborted => fd # Closed
  /\ fd # Closed /\ pc # "dead" =>
       /\ fd \notin muted
       /\ IF pc = "callback" /\ ~aborted THEN read = Closed /\ Reads(fd) = 0
                                        ELSE read = fd /\ Reads(fd) = 1
  /\ \A f \in Fds : Reads(f) <= 1 /\ (f \notin muted /\ Reads(f) # 0 => f = fd)

\* A descriptor that has not been made is nowhere.
Unmade ==
  \A f \in Fds : f > opens =>
    f \notin muted /\ Reads(f) = 0 /\ sent[f] = 0 /\ handed[f] = 0

\* What is cancelled is muted, and reads fail for a cancellation or for the
\* descriptor of a failed eventfd().
FailsForCause ==
  /\ \A k \in DOMAIN sq : sq[k].what = "cancel" => sq[k].fd \in muted
  /\ \A k \in DOMAIN cq : IF cq[k].ok THEN cq[k].fd # Closed
                                      ELSE cq[k].fd \in muted \cup {Closed}

\* The read of f, if it has not completed, is cancelled by a submission after it and
\* before place k.
CancelledBefore(f, k) ==
  /\ f \in reading => \E j \in DOMAIN sq : j < k /\ sq[j] = Job("cancel", f)
  /\ \A i \in DOMAIN sq : sq[i] = Job("read", f) =>
       \E j \in DOMAIN sq : i < j /\ j < k /\ sq[j] = Job("cancel", f)

\* A read that is not of the open descriptor is being cancelled, and is so before the
\* read of a later descriptor is taken.
CancelledFirst ==
  /\ \A f \in Fds \ {fd} : CancelledBefore(f, Len(sq) + 1)
  /\ \A g \in Fds, f \in Fds : f < g =>
       /\ \A k \in DOMAIN sq : sq[k] = Job("read", g) => CancelledBefore(f, k)
       /\ g \in reading \/ (\E k \in DOMAIN cq : cq[k].fd = g) => CancelledBefore(f, 1)

\* A count above one took two signals, and a failed eventfd() such a count.
TwoSignals == opens > 0 /\ \E f \in Fds : sent[f] > 1
CountsSent ==
  /\ \A f \in Fds : Queued("write", f) + count[f] <= sent[f]
  /\ counter > 1 => TwoSignals
  /\ (\/ Closed \in reading
      \/ \E k \in DOMAIN sq : sq[k] = Job("read", Closed)
      \/ \E k \in DOMAIN cq : cq[k].fd = Closed) => opens > 1 /\ TwoSignals

\* A handler that was aborted has returned, or runs on a closed descriptor.
FlagsLeft ==
  aborted \/ abort = "dangling" => opens > 0 /\ (fd # Closed => opens > 1)

EventInv == /\ EventSound
            /\ Listening /\ Unmade /\ FailsForCause /\ CancelledFirst
            /\ CountsSent /\ FlagsLeft

\* After event_close no callback runs for the signals of the old descriptor,
\* however the event is reopened meanwhile.
ClosedIsSilent ==
  [][pc = "loop" /\ pc' = "callback" => Head(cq).fd = fd]_vars

\* A signal to an event that stays open reaches the callback, unless an earlier
\* descriptor that eventfd() refused to make ends the program.
SignalArrives ==
  \A f \in Fds :
    (sent[f] > handed[f] /\ fd = f)
      ~> (sent[f] = handed[f] \/ fd # f \/ pc = "dead")

\* An event that was closed can be opened again: its read does not fail.
ReopenWorks == pc # "dead"

\* event_close writes to the flag of the handler that is calling it, and to no
\* other place.
FlagIsAlive == ~wild
==============================================================================
