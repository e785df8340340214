----------------------------- MODULE AgentQueue -----------------------------
(***************************************************************************)
(* The disk queue of the agent (internal/agent): the sampling loop writes  *)
(* and prunes it, the upload goroutine reads it and removes what the hub   *)
(* has confirmed, both without a lock, and the process may be killed or    *)
(* fail to write at any step.  The hub is seen from outside: a request may *)
(* be late, lost, refused, or recorded although its answer never arrives.  *)
(*                                                                         *)
(* A sample is the instant it was taken at; file names start with that     *)
(* instant, so their order is the order of the instants.  A file counts    *)
(* one unit of the capacity.                                               *)
(***************************************************************************)
EXTENDS Integers, FiniteSets

CONSTANTS
    MaxTime,    \* bound: the last instant
    MaxFaults,  \* bound: how often the process is killed or a write fails
    Batch,      \* the directory entries one upload round looks at (20)
    Capacity,   \* the files the queue may hold (100 MB)
    MaxAge,     \* how old a queued file may get (24 hours)
    Accept      \* how old a sample the hub still accepts (25 hours)

ASSUME QueueAssumption ==
    /\ {MaxTime, MaxFaults, Batch, Capacity, MaxAge, Accept} \subseteq Nat
    /\ Batch > 0

VARIABLES
    now,        \* the clock
    queue,      \* the .json files: samples written and not yet removed
    tmp,        \* the .json.tmp files: the one being written, leftovers
    dropped,    \* the sampling loop's count of evicted samples
    persisted,  \* the file "dropped"
    samplerPc,  \* "wait", "write", "list", "prune" or "persist"
    files,      \* pruneQueue's directory listing, not yet visited
    size,       \* pruneQueue's running size
    uploaderPc, \* "idle", "ready", "sent" or "acked"
    entries,    \* uploadBatch's listing, not yet visited
    lead,       \* the newest entry, which goes first, is still to be visited
    wire,       \* requests on their way to the hub
    recorded,   \* the samples the hub has stored
    stored,     \* history: every sample ever queued
    evicted,    \* history: every sample pruneQueue removed
    faults      \* kills and failed writes so far

sampler  == <<dropped, samplerPc, files, size>>
uploader == <<uploaderPc, entries, lead>>
ghosts   == <<stored, evicted, faults>>
vars == <<now, queue, tmp, persisted, sampler, uploader, wire, recorded, ghosts>>

-----------------------------------------------------------------------------
Time == 0 .. MaxTime

Newest(S) == CHOOSE s \in S : \A t \in S : t <= s
Oldest(S) == CHOOSE s \in S : \A t \in S : s <= t

\* The n oldest of S.
FirstOf(S, n) == {s \in S : Cardinality({t \in S : t < s}) < n}

\* ReadDir lists temporary files too.
Listing == queue \cup tmp

TypeOK ==
    /\ now \in Time
    /\ queue \subseteq Time /\ tmp \subseteq Time
    /\ dropped \in Nat /\ persisted \in Nat
    /\ samplerPc \in {"wait", "write", "list", "prune", "persist"}
    /\ files \subseteq Time
    /\ size \in Int
    /\ uploaderPc \in {"idle", "ready", "sent", "acked"}
    /\ entries \subseteq Time
    /\ uploaderPc # "idle" => entries # {}
    /\ lead \in BOOLEAN
    /\ wire \subseteq Time /\ recorded \subseteq Time
    /\ stored \subseteq Time /\ evicted \subseteq Time
    /\ faults \in 0 .. MaxFaults

Init ==
    /\ now = 0
    /\ queue = {} /\ tmp = {}
    /\ dropped = 0 /\ persisted = 0
    /\ samplerPc = "wait" /\ files = {} /\ size = 0
    /\ uploaderPc = "idle" /\ entries = {} /\ lead = FALSE
    /\ wire = {} /\ recorded = {}
    /\ stored = {} /\ evicted = {} /\ faults = 0

Tick ==
    /\ now < MaxTime
    /\ now' = now + 1
    /\ UNCHANGED <<queue, tmp, persisted, sampler, uploader, wire, recorded, ghosts>>

-----------------------------------------------------------------------------
(* The sampling loop. *)

\* A sample is taken and its temporary file written; no two are of one instant.
Sample ==
    /\ samplerPc = "wait"
    /\ now \notin stored \cup tmp
    /\ samplerPc' = "write"
    /\ tmp' = tmp \cup {now}
    /\ UNCHANGED <<now, queue, dropped, persisted, files, size, uploader, wire,
                   recorded, ghosts>>

\* atomic renames it: now it is in the queue.
Rename ==
    /\ samplerPc = "write"
    /\ samplerPc' = "list"
    /\ queue' = queue \cup {Newest(tmp)}
    /\ tmp' = tmp \ {Newest(tmp)}
    /\ stored' = stored \cup {Newest(tmp)}
    /\ UNCHANGED <<now, dropped, persisted, files, size, uploader, wire, recorded,
                   evicted, faults>>

\* pruneQueue lists the directory and sums the sizes of all files.
List ==
    /\ samplerPc = "list"
    /\ samplerPc' = "prune"
    /\ files' = queue
    /\ size' = Cardinality(Listing)
    /\ UNCHANGED <<now, queue, tmp, dropped, persisted, uploader, wire, recorded,
                   ghosts>>

\* Fault: off by one.
TooMany_off_by_one == size > Capacity + 1

TooMany == size > Capacity
TooOld(f) == now - f > MaxAge

\* The oldest listed file is within bounds, or the uploader has removed it.
Pass ==
    /\ samplerPc = "prune"
    /\ files # {}
    /\ LET f == Oldest(files)
       IN f \notin queue \/ ~ (TooMany \/ TooOld(f))
    /\ files' = files \ {Oldest(files)}
    /\ UNCHANGED <<now, queue, tmp, dropped, persisted, samplerPc, size, uploader,
                   wire, recorded, ghosts>>

Evict ==
    /\ samplerPc = "prune"
    /\ files # {}
    /\ LET f == Oldest(files)
       IN /\ f \in queue
          /\ TooMany \/ TooOld(f)
          /\ queue' = queue \ {f}
          /\ evicted' = evicted \cup {f}
          /\ files' = files \ {f}
    /\ size' = size - 1
    /\ dropped' = dropped + 1
    /\ samplerPc' = "persist"
    /\ UNCHANGED <<now, tmp, persisted, uploader, wire, recorded, stored, faults>>

\* Fault: the count is written for the last listed file only.
Persist_last ==
    /\ samplerPc = "persist"
    /\ samplerPc' = "prune"
    /\ persisted' = IF files = {} THEN dropped ELSE persisted
    /\ UNCHANGED <<now, queue, tmp, dropped, files, size, uploader, wire, recorded,
                   ghosts>>

\* The count is written after every single eviction.
Persist ==
    /\ samplerPc = "persist"
    /\ samplerPc' = "prune"
    /\ persisted' = dropped
    /\ UNCHANGED <<now, queue, tmp, dropped, files, size, uploader, wire, recorded,
                   ghosts>>

\* Writing it fails, which the loop ignores.
PersistFails ==
    /\ samplerPc = "persist"
    /\ faults < MaxFaults
    /\ faults' = faults + 1
    /\ samplerPc' = "prune"
    /\ UNCHANGED <<now, queue, tmp, dropped, persisted, files, size, uploader, wire,
                   recorded, stored, evicted>>

Pruned ==
    /\ samplerPc = "prune"
    /\ files = {}
    /\ samplerPc' = "wait"
    /\ UNCHANGED <<now, queue, tmp, dropped, persisted, files, size, uploader, wire,
                   recorded, ghosts>>

\* The process is killed, or ends because a sample could not be written, and is
\* started again: the disk stays as it was, a temporary file included.
Restart ==
    /\ faults < MaxFaults
    /\ faults' = faults + 1
    /\ dropped' = persisted
    /\ samplerPc' = "wait" /\ files' = {} /\ size' = 0
    /\ uploaderPc' = "idle" /\ entries' = {} /\ lead' = FALSE
    /\ UNCHANGED <<now, queue, tmp, persisted, wire, recorded, stored, evicted>>

-----------------------------------------------------------------------------
(* The upload goroutine. *)

\* Of the directory: the newest entry and the oldest ones, Batch in all; only
\* the .json files among them are looked at.
Picked ==
    ({Newest(Listing)} \cup FirstOf(Listing \ {Newest(Listing)}, Batch - 1)) \cap queue

\* The newest first, then from the oldest on.
Head == IF lead THEN Newest(entries) ELSE Oldest(entries)

Advance ==
    /\ entries' = entries \ {Head}
    /\ lead' = FALSE
    /\ uploaderPc' = IF entries = {Head} THEN "idle" ELSE "ready"

StopBatch == uploaderPc' = "idle" /\ entries' = {} /\ lead' = FALSE

ReadDir ==
    /\ uploaderPc = "idle"
    /\ Listing # {}
    /\ Picked # {}
    /\ uploaderPc' = "ready"
    /\ entries' = Picked
    /\ lead' = (Newest(Listing) \in queue)
    /\ UNCHANGED <<now, queue, tmp, persisted, sampler, wire, recorded, ghosts>>

\* The listed file has been evicted meanwhile.
Skip ==
    /\ uploaderPc = "ready"
    /\ Head \notin queue
    /\ Advance
    /\ UNCHANGED <<now, queue, tmp, persisted, sampler, wire, recorded, ghosts>>

\* Fault: the round's files are read ahead, and sent although removed meanwhile.
Send_ahead ==
    /\ uploaderPc = "ready"
    /\ uploaderPc' = "sent"
    /\ wire' = wire \cup {Head}
    /\ UNCHANGED <<now, queue, tmp, persisted, sampler, entries, lead, recorded, ghosts>>

Send ==
    /\ uploaderPc = "ready"
    /\ Head \in queue
    /\ uploaderPc' = "sent"
    /\ wire' = wire \cup {Head}
    /\ UNCHANGED <<now, queue, tmp, persisted, sampler, entries, lead, recorded, ghosts>>

\* Fault: a failed sample is removed like a sent one.
Fail_removes ==
    /\ uploaderPc = "sent"
    /\ queue' = queue \ {Head}
    /\ StopBatch
    /\ UNCHANGED <<now, tmp, persisted, sampler, wire, recorded, ghosts>>

\* Fault: the client has no time limit.
Fail_never == FALSE /\ UNCHANGED vars

\* No answer in time, no connection, or an error status: the round ends and the
\* sample stays.
Fail ==
    /\ uploaderPc = "sent"
    /\ StopBatch
    /\ UNCHANGED <<now, queue, tmp, persisted, sampler, wire, recorded, ghosts>>

\* os.Remove, in vain when the file has been evicted meanwhile.
Remove ==
    /\ uploaderPc = "acked"
    /\ queue' = queue \ {Head}
    /\ Advance
    /\ UNCHANGED <<now, tmp, persisted, sampler, wire, recorded, ghosts>>

-----------------------------------------------------------------------------
(* The network and the hub. *)

Lose(f) ==
    /\ f \in wire
    /\ wire' = wire \ {f}
    /\ UNCHANGED <<now, queue, tmp, persisted, sampler, uploader, recorded, ghosts>>

AwaitsAnswer(f) == uploaderPc = "sent" /\ Head = f

\* The hub records the sample, or has it already, and its answer is received.
Answer(f) ==
    /\ f \in wire
    /\ now - f <= Accept
    /\ AwaitsAnswer(f)
    /\ wire' = wire \ {f}
    /\ recorded' = recorded \cup {f}
    /\ uploaderPc' = "acked"
    /\ UNCHANGED <<now, queue, tmp, persisted, sampler, entries, lead, ghosts>>

\* The hub records it, and the answer is lost or comes after the time limit.
RecordUnheard(f) ==
    /\ f \in wire
    /\ now - f <= Accept
    /\ wire' = wire \ {f}
    /\ recorded' = recorded \cup {f}
    /\ UNCHANGED <<now, queue, tmp, persisted, sampler, uploader, ghosts>>

Reply   == \E f \in Time : Answer(f)
Network == \E f \in Time : Lose(f) \/ RecordUnheard(f)

Sampler  == Sample \/ Rename \/ List \/ Pass \/ Evict \/ Persist \/ PersistFails \/ Pruned
Uploader == ReadDir \/ Skip \/ Send \/ Fail \/ Remove

Next == Tick \/ Sampler \/ Restart \/ Uploader \/ Reply \/ Network

\* Both goroutines run on, and requests that are sent again and again are
\* answered again and again.
Fairness == WF_vars(Sampler) /\ WF_vars(Uploader) /\ SF_vars(Reply)

Spec == Init /\ [][Next]_vars
FairSpec == Spec /\ Fairness

-----------------------------------------------------------------------------
(* What the queue promises. *)

\* No queued sample disappears unnoticed: it is in the queue until the hub has it
\* or pruneQueue has evicted it.
NothingVanishes == stored \subseteq queue \cup recorded \cup evicted

\* The count carried by the snapshots never exceeds the evicted samples, and
\* misses at most one for each kill or failed write.
DroppedIsClose ==
    /\ dropped <= Cardinality(evicted)
    /\ Cardinality(evicted) <= dropped + faults

\* Between two rounds of pruning the queue exceeds its capacity by at most the
\* sample just written, and by one more for each round a kill cut short.
QueueBounded ==
    Cardinality(queue) <= Capacity + faults + (IF samplerPc = "wait" THEN 0 ELSE 1)

Held == ((queue \cup wire) \cap stored) \ recorded

D == INSTANCE Delivery WITH
        Sample <- Time, held <- Held, lost <- stored \ (Held \cup recorded)

\* Queue, uploader, network and restarts together do to a sample only what
\* Delivery allows: it is recorded at most once and stays recorded, and one that
\* is given up is never recorded later.
IsDelivery == D!Spec

\* While requests are answered now and then, every queued sample is in the end
\* recorded or evicted: neither newer samples, which go first, nor temporary files
\* left over in the listing, nor lost requests starve it.
Drained == \A f \in Time : f \in queue ~> f \in recorded \cup evicted
=============================================================================
