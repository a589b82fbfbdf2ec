-------------------------------- MODULE Notify --------------------------------
(****************************************************************************)
(* notify.c: watches of files on one inotify descriptor.  While there are   *)
(* entries a read is in flight; whether one is needed after a removal is    *)
(* decided in a next callback, since several changes may come together.     *)
(*                                                                          *)
(* A notify is opened once.  An inotify event is the watch it is for; its   *)
(* mask does not matter.  Several paths may name one file, which has one    *)
(* watch only; a file is no directory, and so its events have no name and   *)
(* all the same size.  A read that is started in a callback may be done     *)
(* before the callback returns, since a submission queue that is full is    *)
(* flushed there: it then writes into the buffer that is gone through.      *)
(****************************************************************************)
EXTENDS Integers, Sequences, FiniteSets, SequencesExt

CONSTANTS
  Paths,
  File,        \* the file a path names
  MaxAdds,     \* bound: watches that are made
  MaxEvents,   \* bound: events of files that are used
  BufferSize   \* events that fit into notify->buffer

ASSUME BoundsAssumption ==
  MaxAdds \in Nat /\ MaxEvents \in Nat /\ BufferSize \in Nat \ {0}
ASSUME FileAssumption == DOMAIN File = Paths /\ "none" \notin Range(File)

VARIABLES
  entries,  \* notify->entries; notify->paths maps the path of each to it
  ids,      \* notify->ids: a set of entries, found by their id
  fd,       \* "open", "closed", or "destructed" (perhaps freed as well)
  read,     \* notify->read: None, Waits or Done
  next,     \* notify->next is set
  buffer,   \* notify->buffer
  size,     \* the events of the read that is done and was not handled
  result,   \* the events the handler goes through, 0 outside of it
  at,       \* the event whose callback runs, 0 outside of the handler
  abort,    \* the handler's flag
  watches,  \* the kernel's watches: the file by the id
  queue,    \* the kernel's events
  gone,     \* files that are deleted
  stale,    \* reads that were cancelled and may still take events
  events,   \* events so far
  failed,   \* an assertion has failed, and ended the program
  shared,   \* history: ids that were given to two paths
  wild      \* history: a handler ran on a notify that was destructed

api    == <<entries, ids, fd, read, next>>
kernel == <<watches, queue, gone, stale, events>>
walk   == <<buffer, size, result, at, abort>>
vars   == <<api, walk, kernel, failed, shared, wild>>

None  == "none"
Waits == "waits"
Done  == "done"

Ids     == 1 .. MaxAdds
Entries == [id : Ids, path : Paths]
IdsOf(list) == {list[k].id : k \in DOMAIN list}

Files == Range(File)

\* Types; no path has two entries, and ids finds at most one by each id.
TypeOK ==
  /\ entries \in Seq(Entries) /\ ids \subseteq Range(entries)
  /\ Cardinality({e.path : e \in Range(entries)}) = Len(entries)
  /\ Cardinality({e.id : e \in ids}) = Cardinality(ids)
  /\ fd \in {"open", "closed", "destructed"}
  /\ read \in {None, Waits, Done} /\ next \in BOOLEAN
  /\ buffer \in Seq(Ids) /\ {size, result} \subseteq 0 .. Len(buffer)
  /\ at \in 0 .. result /\ abort \in BOOLEAN
  /\ watches \in Seq(Files \cup {"none"}) /\ queue \in Seq(Ids)
  /\ shared \subseteq Ids
  /\ gone \subseteq Files /\ stale \in Nat /\ events \in 0 .. MaxEvents
  /\ failed \in BOOLEAN /\ wild \in BOOLEAN

\* notify_construct, notify_open
Init ==
  /\ entries = <<>> /\ ids = {} /\ fd = "open" /\ read = None /\ next = FALSE
  /\ buffer = <<>> /\ size = 0 /\ result = 0 /\ at = 0 /\ abort = FALSE
  /\ watches = <<>> /\ queue = <<>> /\ gone = {} /\ stale = 0 /\ events = 0
  /\ failed = FALSE /\ shared = {} /\ wild = FALSE

-----------------------------------------------------------------------------

UpdateAlwaysReads(list, reading) ==                                 \* mutant
  read' = (IF reading = None THEN Waits ELSE reading) /\ UNCHANGED stale

\* notify_update, for the entries there are: a read is started when there are
\* some, and cancelled when there are none.
Update(list, reading) ==
  /\ read' = IF list = <<>> THEN None
             ELSE IF reading = None THEN Waits ELSE reading
  /\ stale' = IF list = <<>> /\ reading = Waits THEN stale + 1 ELSE stale

\* The watch of the file of p, a new one if it has none.
WatchOf(p) ==
  {i \in DOMAIN watches : watches[i] = File[p]} \cup
  {i \in {Len(watches) + 1} : File[p] \notin Range(watches)}

AddEntry(e) ==
  /\ entries' = Append(entries, e)
  /\ ids' = IF e.id \in {d.id : d \in ids} THEN ids ELSE ids \cup {e}
  /\ shared' = IF e.id \in IdsOf(entries) THEN shared \cup {e.id} ELSE shared

\* notify_add, of a file that is there; a path is not added twice.
Add(p) ==
  /\ ~failed
  /\ fd = "open" /\ File[p] \notin gone
  /\ \A e \in Range(entries) : e.path # p
  /\ \E i \in WatchOf(p) \cap Ids :
       /\ AddEntry([id |-> i, path |-> p])
       /\ watches' = IF i \in DOMAIN watches THEN watches
                     ELSE Append(watches, File[p])
  /\ Update(entries', read)
  /\ UNCHANGED <<fd, next, walk, queue, gone, events, failed,
                 wild>>

\* inotify_rm_watch: it fails when the kernel has no such watch any more, and
\* says good-bye with an event (IN_IGNORED) when it has.
RemoveWatches(list) ==
  /\ failed' = \/ Cardinality(IdsOf(list)) < Len(list)
               \/ \E k \in DOMAIN list : watches[list[k].id] = "none"
  /\ watches' = [i \in DOMAIN watches |->
                   IF i \in IdsOf(list) THEN "none" ELSE watches[i]]
  /\ queue' = queue \o [k \in DOMAIN list |-> list[k].id]

RemoveNoNext(e) ==                                                  \* mutant
  /\ ~failed /\ fd = "open"
  /\ RemoveWatches(<<e>>)
  /\ entries' = Remove(entries, e) /\ ids' = {d \in ids : d.id # e.id}
  /\ UNCHANGED <<fd, read, next, walk, gone, stale, events,
                 shared, wild>>

\* notify_remove_path, notify_remove_id
RemoveEntry(e) ==
  /\ ~failed /\ fd = "open"
  /\ RemoveWatches(<<e>>)
  /\ entries' = Remove(entries, e) /\ next' = TRUE
  /\ ids' = {d \in ids : d.id # e.id}
  /\ UNCHANGED <<fd, read, walk, gone, stale, events, shared,
                 wild>>

\* notify_next
NotifyNext ==
  /\ ~failed /\ at = 0 /\ next
  /\ next' = FALSE
  /\ Update(entries, read)
  /\ wild' = (wild \/ fd = "destructed")
  /\ UNCHANGED <<entries, ids, fd, walk, watches, queue, gone,
                 events, failed, shared>>

CloseUnflagged ==                                                   \* mutant
  /\ ~failed /\ fd = "open" /\ fd' = "closed"
  /\ RemoveWatches(entries)
  /\ next' = (entries # <<>>) /\ entries' = <<>> /\ UNCHANGED ids
  /\ UNCHANGED <<read, walk, gone, stale, events, shared, wild>>

\* notify_close: a next callback that is pending is cancelled, and removing the
\* entries registers a new one.
Close ==
  /\ ~failed /\ fd = "open" /\ fd' = "closed"
  /\ abort' = (at > 0)
  /\ RemoveWatches(entries)
  /\ next' = (entries # <<>>) /\ entries' = <<>> /\ ids' = {}
  /\ UNCHANGED <<read, buffer, size, result, at, gone, stale, events, shared, wild>>

\* notify_destruct, of a notify that was closed.
Destruct ==
  /\ ~failed /\ fd = "closed" /\ fd' = "destructed"
  /\ UNCHANGED <<entries, ids, read, next, walk, kernel, failed, shared, wild>>

-----------------------------------------------------------------------------
(* The handler *)

\* Of the first n events, those from k on that are for an entry.
Calls(k, n) == {j \in k .. n : \E e \in ids : e.id = buffer[j]}

\* notify_read from event k of n on: the next callback, or the end of the buffer.
Continue(k, n, reading) ==
  IF Calls(k, n) # {}
  THEN /\ at' = CHOOSE j \in Calls(k, n) : \A i \in Calls(k, n) : j <= i
       /\ result' = n /\ read' = reading /\ UNCHANGED stale
  ELSE at' = 0 /\ result' = 0 /\ Update(entries, reading)

NotifyRead ==
  /\ ~failed /\ at = 0 /\ read = Done
  /\ Continue(1, size, None)
  /\ size' = 0
  /\ wild' = (wild \/ fd = "destructed")
  /\ UNCHANGED <<entries, ids, fd, next, buffer, abort, watches, queue, gone,
                 events, failed, shared>>

\* The callback returns to notify_read.
Return ==
  /\ ~failed /\ at > 0
  /\ IF abort
     THEN at' = 0 /\ result' = 0 /\ abort' = FALSE /\ UNCHANGED <<read, stale>>
     ELSE Continue(at + 1, result, read) /\ UNCHANGED abort
  /\ UNCHANGED <<entries, ids, fd, next, buffer, size, watches, queue, gone, events,
                 failed, shared, wild>>

-----------------------------------------------------------------------------
(* The kernel *)

Watched == {i \in DOMAIN watches : watches[i] # "none"}

\* Something happens to a watched file.
Event(i) ==
  /\ ~failed /\ events < MaxEvents /\ i \in Watched
  /\ queue' = Append(queue, i) /\ events' = events + 1
  /\ UNCHANGED <<api, walk, watches, gone, stale, failed, shared, wild>>

\* A file is deleted: an event, and the end of the watch with another.
Delete(i) ==
  /\ ~failed /\ events < MaxEvents /\ i \in Watched
  /\ queue' = queue \o <<i, i>> /\ events' = events + 1
  /\ watches' = [watches EXCEPT ![i] = "none"]
  /\ gone' = gone \cup {watches[i]}
  /\ UNCHANGED <<api, walk, stale, failed, shared, wild>>

Taken == IF Len(queue) <= BufferSize THEN Len(queue) ELSE BufferSize

\* The read is done.  During a callback it is one that was started there, and the events
\* the handler has still to look at may be those of this read, which is handled later.
KernelRead ==
  /\ ~failed /\ read = Waits /\ queue # <<>>
  /\ read' = Done /\ size' = Taken
  /\ buffer' = SubSeq(queue, 1, Taken) \o SubSeq(buffer, Taken + 1, result)
  /\ queue' = SubSeq(queue, Taken + 1, Len(queue))
  /\ UNCHANGED <<entries, ids, fd, next, result, at, abort, watches, gone, stale,
                 events, failed, shared, wild>>

\* A cancelled read ends, perhaps with events that nobody sees.  It does so before a
\* read that was submitted after the cancellation is done, and so not in a callback.
KernelStale ==
  /\ ~failed /\ stale > 0 /\ stale' = stale - 1
  /\ \/ UNCHANGED queue
     \/ read # Done /\ at = 0 /\ queue' = SubSeq(queue, Taken + 1, Len(queue))
  /\ UNCHANGED <<api, walk, watches, gone, events, failed, shared, wild>>

Loop == NotifyNext \/ NotifyRead \/ Return \/ KernelRead

Next ==
  \/ \E p \in Paths : Add(p)
  \/ \E e \in Range(entries) : RemoveEntry(e)
  \/ Close \/ Destruct \/ Loop
  \/ \E i \in Ids : Event(i) \/ Delete(i)
  \/ KernelStale

Spec     == Init /\ [][Next]_vars
FairSpec == Spec /\ WF_vars(Loop)

-----------------------------------------------------------------------------
(* Properties *)

\* Between callbacks, when no next callback is pending, there is a read exactly
\* if there is an entry: no entry is deaf, and no read keeps the loop alive.
ReadIfNeeded ==
  fd = "open" /\ at = 0 /\ ~next /\ ~failed =>
    ((read # None) <=> (entries # <<>>))

\* Every entry is found by its id and has its watch, unless its file is gone or
\* another path of the file shares the watch, which the removal of either ends;
\* and there is no watch that no id finds.
EntriesAreWatched ==
  ~failed =>
    /\ ids \subseteq Range(entries)
    /\ \A e \in Range(entries) : e.id \notin shared =>
         e \in ids /\ (File[e.path] \in gone \/ watches[e.id] = File[e.path])
    /\ Watched \subseteq {e.id : e \in ids}

\* Removing an entry fails only if its watch is gone already: with its file, or
\* with the entry of another path of the file.
FailsByLossOnly == failed => gone # {} \/ shared # {}

\* What is watched, what is found and what is read agree after any changes.
NotifySound == TypeOK /\ ReadIfNeeded /\ EntriesAreWatched /\ FailsByLossOnly

\* After notify_close the application is not called, not even for the rest of the
\* events of the read in whose callback it was closed.
ClosedIsSilent == [][fd # "open" => at' \in {at, 0}]_vars

\* Events are read and handed over as long as something is watched.
EventsAreRead ==
  (queue # <<>> /\ entries # <<>>) ~> (queue = <<>> \/ entries = <<>> \/ failed)

\* A notify that is closed while it has entries ends: its read is cancelled by the
\* next callback, and does not keep reactor_loop running.
ClosedEnds == (fd # "open" /\ next) ~> ((read = None /\ ~next) \/ failed)

\* The notifier neither stops while it has something to watch nor keeps the loop
\* running when it is closed.
NotifyProgress == EventsAreRead /\ ClosedEnds

\* The same for every notify that is closed.
EveryCloseEnds == (fd # "open") ~> ((read = None /\ ~next) \/ failed)

\* The assertion of notify_remove_entry: the watch of an entry can be removed.
RemoveSucceeds == ~failed

\* No handler runs on a notify that was destructed, and may be freed.
NothingAfterDestruct == ~wild

\* The events that the handler has still to look at stay in the buffer: no read is done
\* during a callback.
BufferKept == at > 0 => read # Done
==============================================================================
