------------------------------- MODULE WriteBehind -------------------------------
(***************************************************************************)
(* The write-behind storage of a bot's LINE session: db/sqlite-storage.ts  *)
(* mirrors the kv table in memory and posts every change to the worker of  *)
(* db/sqlite-writer.worker.ts, which batches them into transactions.       *)
(*                                                                         *)
(* Three things run at their own pace: the main thread, the message        *)
(* channel to the worker, and the worker's flush timer.  The main thread   *)
(* has a connection of its own to the same file and deletes a bot through  *)
(* it at once, past everything that is still queued.                       *)
(***************************************************************************)
EXTENDS Naturals, Sequences

CONSTANTS
    Bots,
    Keys,
    Values,
    Absent,         \* what a read of a missing key gives
    Closed,         \* the cache of a bot no storage object was made for yet
    Events,         \* what may go wrong, of AllEvents
    MaxWrites       \* bound on the operations issued

AllEvents == {"crash", "refused", "throws", "broken", "late"}

ASSUME StorageAssumption ==
    /\ Absent \notin Values
    /\ Closed \notin [Keys -> Values \cup {Absent}]
    /\ Events \subseteq AllEvents
    /\ MaxWrites \in Nat

VARIABLES
    cache,          \* caches of sqlite-storage.ts
    deleted,        \* bots whose row is gone
    channel,        \* operations posted and not received by the worker
    pending,        \* operations received and not written
    timer,          \* flushTimer is set
    writer,         \* the worker: starting, ready, or deaf for good
    disk,           \* the kv table
    issued,         \* history: what was posted by this process, after what it found on disk
    durable,        \* history: what was committed
    disturbed,      \* history: deleted bots that were written to after all, or had
                    \* what was on its way to the table dropped
    threw           \* history: this process dropped a batch

vars == <<cache, deleted, channel, pending, timer, writer, disk, issued, durable, disturbed, threw>>

Rows == [Keys -> Values \cup {Absent}]

NoRows == [k \in Keys |-> Absent]

\* kv_set, kv_delete and kv_clear: an operation gives all of its keys one value.
Operations == [bot : Bots, keys : SUBSET Keys, value : Values \cup {Absent}]

Init ==
    /\ cache = [b \in Bots |-> Closed]
    /\ deleted = {}
    /\ channel = <<>> /\ pending = <<>>
    /\ timer = FALSE
    /\ writer = "starting"
    /\ disk = [b \in Bots |-> NoRows]
    /\ issued = <<>> /\ durable = <<>>
    /\ disturbed = {} /\ threw = FALSE

-----------------------------------------------------------------------------
Touching(ops, b, k) == {i \in DOMAIN ops : ops[i].bot = b /\ k \in ops[i].keys}

\* What a sequence of operations makes of a row: the last that touches it wins.
After(ops, b, k, old) ==
    LET I == Touching(ops, b, k) IN
    IF I = {} THEN old ELSE ops[CHOOSE i \in I : \A j \in I : j <= i].value

AllAfter(ops, rows) == [b \in Bots |-> [k \in Keys |-> After(ops, b, k, rows[b][k])]]

\* enqueueWrite.
Post(op) ==
    /\ Len(issued) < MaxWrites
    /\ channel' = Append(channel, op)
    /\ issued' = Append(issued, op)

-----------------------------------------------------------------------------
\* The main thread.  Once a bot is deleted only what was already under way for
\* it still reaches its storage.
InUse(b) == b \notin deleted \/ "late" \in Events

\* Mutant: a new mirror starts out empty.
OpenEmpty(b) ==
    /\ InUse(b)
    /\ cache[b] = Closed
    /\ cache' = [cache EXCEPT ![b] = NoRows]
    /\ UNCHANGED <<deleted, channel, pending, timer, writer, disk, issued, durable, disturbed, threw>>

\* new SqliteStorage: the first one of a bot reads its rows.
Open(b) ==
    /\ InUse(b)
    /\ cache[b] = Closed
    /\ cache' = [cache EXCEPT ![b] = disk[b]]
    /\ UNCHANGED <<deleted, channel, pending, timer, writer, disk, issued, durable, disturbed, threw>>

\* set, delete and clear.
Write(b, keys, value) ==
    /\ InUse(b)
    /\ cache[b] # Closed
    /\ cache' = [cache EXCEPT ![b] = [k \in Keys |-> IF k \in keys THEN value ELSE cache[b][k]]]
    /\ Post([bot |-> b, keys |-> keys, value |-> value])
    /\ disturbed' = disturbed \cup ({b} \cap deleted)
    /\ UNCHANGED <<deleted, pending, timer, writer, disk, durable, threw>>

Set(b) == \E k \in Keys, v \in Values : Write(b, {k}, v)

Delete(b) == \E k \in Keys : Write(b, {k}, Absent)

\* Mutant: the rows are deleted, and no clear is queued behind the older writes.
DeleteBotUncleared(b) ==
    /\ b \notin deleted
    /\ deleted' = deleted \cup {b}
    /\ cache' = [cache EXCEPT ![b] = Closed]
    /\ disk' = [disk EXCEPT ![b] = NoRows]
    /\ UNCHANGED <<channel, pending, timer, writer, issued, durable, disturbed, threw>>

\* deleteBotSession: clear, clearSqliteStorageCache, deleteBotCascade.
DeleteBot(b) ==
    /\ b \notin deleted
    /\ deleted' = deleted \cup {b}
    /\ Post([bot |-> b, keys |-> Keys, value |-> Absent])
    /\ cache' = [cache EXCEPT ![b] = Closed]
    /\ disk' = [disk EXCEPT ![b] = NoRows]
    /\ UNCHANGED <<pending, timer, writer, durable, disturbed, threw>>

-----------------------------------------------------------------------------
\* The worker.  The init message is the first it receives; deaf is a worker that
\* never opened the database, or that the runtime ended after an error.
StartWriter ==
    /\ writer = "starting"
    /\ \/ writer' = "ready"
       \/ "broken" \in Events /\ writer' = "deaf"
    /\ UNCHANGED <<cache, deleted, channel, pending, timer, disk, issued, durable, disturbed, threw>>

\* Mutant: what arrives is put before what waits.
DeliverFirst ==
    /\ writer # "starting"
    /\ channel # <<>>
    /\ pending' = <<Head(channel)>> \o pending
    /\ channel' = Tail(channel)
    /\ timer' = TRUE
    /\ UNCHANGED <<cache, deleted, writer, disk, issued, durable, disturbed, threw>>

\* enqueue.
Deliver ==
    /\ writer # "starting"
    /\ channel # <<>>
    /\ pending' = Append(pending, Head(channel))
    /\ channel' = Tail(channel)
    /\ timer' = TRUE
    /\ UNCHANGED <<cache, deleted, writer, disk, issued, durable, disturbed, threw>>

Flushing ==
    /\ timer
    /\ UNCHANGED <<cache, deleted, channel, issued>>

FlushDeaf ==
    /\ Flushing
    /\ writer = "deaf"
    /\ timer' = FALSE
    /\ UNCHANGED <<pending, writer, disk, durable, disturbed, threw>>

Commit ==
    /\ Flushing
    /\ writer = "ready"
    /\ disk' = AllAfter(pending, disk)
    /\ durable' = durable \o pending
    /\ pending' = <<>>
    /\ timer' = FALSE
    /\ UNCHANGED <<writer, disturbed, threw>>

\* Mutant: the batch is kept, and nothing will try it again.
FlushRefusedUnarmed ==
    /\ Flushing
    /\ writer = "ready"
    /\ "refused" \in Events
    /\ timer' = FALSE
    /\ UNCHANGED <<pending, writer, disk, durable, disturbed, threw>>

\* Mutant: the batch is given up.
FlushRefusedDropped ==
    /\ Flushing
    /\ writer = "ready"
    /\ "refused" \in Events
    /\ pending' = <<>>
    /\ timer' = FALSE
    /\ UNCHANGED <<writer, disk, durable, disturbed, threw>>

\* The transaction fails: the batch goes back and the timer is set again.
FlushRefused ==
    /\ Flushing
    /\ writer = "ready"
    /\ "refused" \in Events
    /\ UNCHANGED <<pending, timer, writer, disk, durable, disturbed, threw>>

\* What was on its way is gone, the clears of deleted bots with it.
Drop ==
    disturbed' = IF pending = <<>> /\ channel = <<>> THEN disturbed ELSE disturbed \cup deleted

\* A statement cannot be prepared, which is outside the try block.
FlushThrows ==
    /\ Flushing
    /\ writer = "ready"
    /\ "throws" \in Events
    /\ pending' = <<>>
    /\ timer' = FALSE
    /\ writer' \in {"ready", "deaf"}
    /\ threw' = (threw \/ pending # <<>>)
    /\ Drop
    /\ UNCHANGED <<disk, durable>>

-----------------------------------------------------------------------------
\* The process ends, however it ends, and is started again.
CrashAndBoot ==
    /\ "crash" \in Events
    /\ cache' = [b \in Bots |-> Closed]
    /\ channel' = <<>> /\ pending' = <<>>
    /\ timer' = FALSE
    /\ writer' = "starting"
    /\ issued' = durable
    /\ threw' = FALSE
    /\ Drop
    /\ UNCHANGED <<deleted, disk, durable>>

Next ==
    \/ \E b \in Bots : Open(b) \/ Set(b) \/ Delete(b) \/ DeleteBot(b)
    \/ StartWriter \/ Deliver
    \/ Commit \/ FlushDeaf \/ FlushRefused \/ FlushThrows
    \/ CrashAndBoot

Spec == Init /\ [][Next]_vars

\* The worker's event loop runs, and the database does not refuse for ever.
Fairness == WF_vars(StartWriter) /\ WF_vars(Deliver) /\ SF_vars(Commit)

FairSpec == Spec /\ Fairness

-----------------------------------------------------------------------------
\* The types, and that a batch never waits for a flush nobody has scheduled.
TypeOK ==
    /\ cache \in [Bots -> Rows \cup {Closed}]
    /\ deleted \subseteq Bots
    /\ channel \in Seq(Operations) /\ pending \in Seq(Operations)
    /\ timer \in BOOLEAN
    /\ writer \in {"starting", "ready", "deaf"}
    /\ disk \in [Bots -> Rows]
    /\ issued \in Seq(Operations) /\ durable \in Seq(Operations)
    /\ disturbed \subseteq deleted /\ threw \in BOOLEAN
    /\ pending # <<>> => timer \/ writer = "deaf"

\* sqlite-writer.worker.ts: a failed flush never gives up and never drops what is
\* pending.  Every operation issued is on disk or still on its way there, in the
\* order it was issued, unless a statement outside the try block threw.
NothingLost == threw \/ issued = durable \o pending \o channel

\* The mirror never lies: a bot reads back what was last written to it, by this
\* process or by the ones before, whatever the worker has made of it so far.
CachesAreCurrent ==
    \A b \in Bots \ deleted :
        cache[b] # Closed => cache[b] = [k \in Keys |-> After(issued, b, k, Absent)]

\* Batches are all or nothing: at any moment the table is what the committed
\* operations make of it in their order, none of a refused batch among them.
DiskIsReplay ==
    \A b \in Bots \ deleted : disk[b] = [k \in Keys |-> After(durable, b, k, Absent)]

\* session-manager.ts: the clear queued by a deletion comes after every older
\* write, so that the worker cannot resurrect session rows after it, unless the
\* clear is dropped or something still under way writes behind it.
DeletedStaysDeleted ==
    channel = <<>> /\ pending = <<>> => \A b \in deleted \ disturbed : disk[b] = NoRows

\* What is on disk or on its way there.
kept == (durable \o pending) \o channel

\* How many operations the statements that threw have dropped.
lost == Len(issued) - Len(kept)

\* A write is not put off for ever: each refused flush is tried again until the
\* table takes it, unless a restart drops it or the worker has gone deaf.  A
\* statement that throws drops its own batch and holds up nothing behind it.
EveryWriteLands ==
    \A n \in 1..MaxWrites :
        Len(issued) >= n ~> Len(durable) + lost >= n \/ Len(issued) < n \/ writer = "deaf"

\* The storage implements the log it promises.
Log == INSTANCE DurableLog WITH log <- kept, saved <- Len(durable)

LogSpec == Log!Spec

=============================================================================
