--------------------------- MODULE ExecutionStore ---------------------------
(***************************************************************************)
(* FileBackedExecutionStateStore of core/execution/durable_state.py: one   *)
(* JSON file that holds the records of every task.  A write takes the lock *)
(* of ONE task, reloads the whole file into the store object, changes its  *)
(* record there, and writes the whole map back through one temporary name. *)
(* A read reloads the same map under another lock.                         *)
(*                                                                         *)
(* The Dispatcher and Completion modules take each store call as atomic,   *)
(* as the port documents it; this module is the store itself, one step for *)
(* each point at which another thread or process may run.                  *)
(*                                                                         *)
(* Data: a record is its record_revision, 0 when the task has none, so a   *)
(* map is a function from tasks to revisions, and the empty text that a    *)
(* freshly opened file has loads as the map without records.               *)
(***************************************************************************)
EXTENDS Naturals, FiniteSets

CONSTANTS
    Task,        \* canonical task ids
    Key,         \* idempotency keys
    Thread,      \* threads that call the store
    Process,     \* store objects; each thread uses the one of its process
    KeyOf,       \* the idempotency key of each task's record
    ProcessOf,   \* the process of each thread
    MaxRevision, \* bound on record_revision
    MaxFaults    \* bound on write errors and crashes together

ASSUME StoreAssumption ==
    /\ KeyOf \in [Task -> Key]
    /\ ProcessOf \in [Thread -> Process]
    /\ MaxRevision \in Nat \ {0}
    /\ MaxFaults \in Nat

VARIABLES
    file,    \* the live file: Task -> revision
    tmp,     \* the shared temporary name: whether it exists, and its text
    cache,   \* self._store of each process: Task -> revision
    closed,  \* processes whose store object was closed
    call,    \* what each thread is doing
    held,    \* the revision each thread last got from the store, per task
    acked,   \* the highest revision a successful write returned, per task
    refused, \* <<task, revision>> of the writes that raised a persist failure
    faults,  \* write errors and crashes so far
    overlap  \* history: a call began while another one was running

vars == <<file, tmp, cache, closed, call, held, acked, refused, faults, overlap>>

Revision == 0..MaxRevision
Records == [Task -> Revision]
NoRecords == [t \in Task |-> 0]

Idle == [op |-> "none", pc |-> "idle", task |-> "none", text |-> NoRecords,
         old |-> 0, at |-> "none"]

PCs == {"idle", "bind", "decide", "install", "encode", "open", "write", "replace"}

CallState == [op : {"none", "create", "cas", "read", "close"}, pc : PCs,
              task : Task \cup {"none"}, text : Records, old : Revision,
              at : {"none", "tmp", "file"}]

TypeOK ==
    /\ file \in Records
    /\ tmp \in [there : BOOLEAN, text : Records]
    /\ cache \in [Process -> Records]
    /\ closed \in SUBSET Process
    /\ call \in [Thread -> CallState]
    /\ held \in [Thread -> Records]
    /\ acked \in Records
    /\ refused \in SUBSET (Task \X Revision)
    /\ faults \in 0..MaxFaults
    /\ overlap \in BOOLEAN

Init ==
    /\ file = NoRecords
    /\ tmp = [there |-> FALSE, text |-> NoRecords]
    /\ cache = [p \in Process |-> NoRecords]
    /\ closed = {}
    /\ call = [h \in Thread |-> Idle]
    /\ held = [h \in Thread |-> NoRecords]
    /\ acked = NoRecords
    /\ refused = {}
    /\ faults = 0
    /\ overlap = FALSE

-----------------------------------------------------------------------------
(* Locks.  A write holds the RLock of its task in its store object; a read *)
(* and close hold the object's global lock.  _lock_for takes the global    *)
(* lock only to find the task's lock, so a read never waits for a write.   *)

Writing(h, t) == call[h].op \in {"create", "cas"} /\ call[h].task = t
Global(h) == call[h].op \in {"read", "close"}

TaskLockFree(p, t) == \A h \in Thread : ProcessOf[h] = p => ~Writing(h, t)
GlobalLockFree(p) == \A h \in Thread : ProcessOf[h] = p => ~Global(h)

Goto(h, pc) == call' = [call EXCEPT ![h].pc = pc]
Return(h) == call' = [call EXCEPT ![h] = Idle]

NoteOverlap == overlap' = (overlap \/ \E g \in Thread : call[g] # Idle)

(* A call opens with _load, which reads the whole file ...                 *)
Begin(h, op, t) ==
    /\ call' = [call EXCEPT ![h] = [Idle EXCEPT !.op = op, !.task = t,
                                                !.pc = "bind", !.text = file]]
    /\ NoteOverlap

BeginCreate(h, t) ==
    /\ call[h] = Idle
    /\ ProcessOf[h] \notin closed
    /\ TaskLockFree(ProcessOf[h], t)
    /\ Begin(h, "create", t)
    /\ UNCHANGED <<file, tmp, cache, closed, held, acked, refused, faults>>

BeginCas(h, t) ==
    /\ call[h] = Idle
    /\ held[h][t] > 0
    /\ held[h][t] < MaxRevision
    /\ ProcessOf[h] \notin closed
    /\ TaskLockFree(ProcessOf[h], t)
    /\ Begin(h, "cas", t)
    /\ UNCHANGED <<file, tmp, cache, closed, held, acked, refused, faults>>

BeginRead(h, t) ==
    /\ call[h] = Idle
    /\ GlobalLockFree(ProcessOf[h])
    /\ Begin(h, "read", t)
    /\ UNCHANGED <<file, tmp, cache, closed, held, acked, refused, faults>>

(* ... and ends by binding what it read to self._store, which every other  *)
(* thread of the process uses too.                                         *)
Load(h) ==
    /\ call[h].pc = "bind"
    /\ cache' = [cache EXCEPT ![ProcessOf[h]] = call[h].text]
    /\ Goto(h, "decide")
    /\ UNCHANGED <<file, tmp, closed, held, acked, refused, faults, overlap>>

(* get, get_by_idempotency, scan and list_all then read self._store.       *)
Get(h) ==
    /\ call[h].pc = "decide"
    /\ call[h].op = "read"
    /\ held' = [held EXCEPT ![h][call[h].task] = cache[ProcessOf[h]][call[h].task]]
    /\ Return(h)
    /\ UNCHANGED <<file, tmp, cache, closed, acked, refused, faults, overlap>>

-----------------------------------------------------------------------------
(* What create and compare_and_swap require of self._store.                *)

\* Mutant: the scan looks for the task's own record only.
KeyIsFree_OwnTask(c, t) == c[t] = 0

KeyIsFree(c, t) == \A u \in Task : c[u] > 0 => KeyOf[u] # KeyOf[t]

CreateAllowed(h) ==
    LET c == cache[ProcessOf[h]]
        t == call[h].task
    IN  c[t] = 0 /\ KeyIsFree(c, t)

CasAllowed(h) ==
    LET c == cache[ProcessOf[h]]
        t == call[h].task
    IN  c[t] > 0 /\ c[t] = held[h][t]

WriteAllowed(h) ==
    \/ call[h].op = "create" /\ CreateAllowed(h)
    \/ call[h].op = "cas" /\ CasAllowed(h)

Decide(h) ==
    /\ call[h].pc = "decide"
    /\ WriteAllowed(h)
    /\ call' = [call EXCEPT ![h].pc = "install",
                            ![h].old = cache[ProcessOf[h]][call[h].task]]
    /\ UNCHANGED <<file, tmp, cache, closed, held, acked, refused, faults, overlap>>

(* Already durable, key owned, record not found or stale revision: the call *)
(* raises and changes nothing.                                              *)
Refuse(h) ==
    /\ call[h].pc = "decide"
    /\ call[h].op \in {"create", "cas"}
    /\ ~WriteAllowed(h)
    /\ Return(h)
    /\ UNCHANGED <<file, tmp, cache, closed, held, acked, refused, faults, overlap>>

(* self._store[task] = candidate, in whatever map is bound at that moment. *)
Install(h) ==
    /\ call[h].pc = "install"
    /\ cache' = [cache EXCEPT ![ProcessOf[h]][call[h].task] = call[h].old + 1]
    /\ refused' = refused \ {<<call[h].task, call[h].old + 1>>}
    /\ Goto(h, "encode")
    /\ UNCHANGED <<file, tmp, closed, held, acked, faults, overlap>>

-----------------------------------------------------------------------------
(* _persist: encode self._store, write the temporary file, replace.        *)

BeginClose(h) ==
    /\ call[h] = Idle
    /\ ProcessOf[h] \notin closed
    /\ GlobalLockFree(ProcessOf[h])
    /\ call' = [call EXCEPT ![h] = [Idle EXCEPT !.op = "close", !.pc = "encode"]]
    /\ NoteOverlap
    /\ UNCHANGED <<file, tmp, cache, closed, held, acked, refused, faults>>

Encode(h) ==
    /\ call[h].pc = "encode"
    /\ call' = [call EXCEPT ![h].pc = "open", ![h].text = cache[ProcessOf[h]]]
    /\ UNCHANGED <<file, tmp, cache, closed, held, acked, refused, faults, overlap>>

(* Opening for writing creates or truncates the one temporary file.        *)
Open(h) ==
    /\ call[h].pc = "open"
    /\ tmp' = [there |-> TRUE, text |-> NoRecords]
    /\ call' = [call EXCEPT ![h].pc = "write", ![h].at = "tmp"]
    /\ UNCHANGED <<file, cache, closed, held, acked, refused, faults, overlap>>

(* The text goes to the file that was opened, which a replace by another   *)
(* writer may since have made the live one.                                *)
Write(h) ==
    /\ call[h].pc = "write"
    /\ tmp' = IF call[h].at = "tmp" THEN [tmp EXCEPT !.text = call[h].text] ELSE tmp
    /\ file' = IF call[h].at = "file" THEN call[h].text ELSE file
    /\ Goto(h, "replace")
    /\ UNCHANGED <<cache, closed, held, acked, refused, faults, overlap>>

Acknowledge(h) ==
    LET t == call[h].task
        r == call[h].old + 1
    IN  IF call[h].op = "close"
        THEN UNCHANGED <<held, acked>>
        ELSE /\ held' = [held EXCEPT ![h][t] = r]
             /\ acked' = [acked EXCEPT ![t] = IF r > @ THEN r ELSE @]

CloseIf(h) == closed' = IF call[h].op = "close" THEN closed \cup {ProcessOf[h]} ELSE closed

(* tmp.replace(path), and the call returns its record.                     *)
Replace(h) ==
    /\ call[h].pc = "replace"
    /\ tmp.there
    /\ file' = tmp.text
    /\ tmp' = [tmp EXCEPT !.there = FALSE]
    /\ call' = [g \in Thread |->
                  IF g = h THEN Idle
                  ELSE IF call[g].at = "tmp" THEN [call[g] EXCEPT !.at = "file"]
                  ELSE call[g]]
    /\ Acknowledge(h)
    /\ CloseIf(h)
    /\ UNCHANGED <<cache, refused, faults, overlap>>

\* Mutant: a failed swap pops the record, as a failed create does.
Rollback_AlwaysPop(h) ==
    IF call[h].op = "close"
    THEN UNCHANGED <<cache, refused>>
    ELSE /\ cache' = [cache EXCEPT ![ProcessOf[h]][call[h].task] = 0]
         /\ refused' = refused \cup {<<call[h].task, call[h].old + 1>>}

\* Mutant: a failed persist leaves the candidate in self._store.
Rollback_Missing(h) ==
    IF call[h].op = "close"
    THEN UNCHANGED <<cache, refused>>
    ELSE /\ UNCHANGED cache
         /\ refused' = refused \cup {<<call[h].task, call[h].old + 1>>}

(* The rollback of a failed persist: pop the created record, or put the    *)
(* old entry back, and raise.  close swallows the error.                   *)
Rollback(h) ==
    IF call[h].op = "close"
    THEN UNCHANGED <<cache, refused>>
    ELSE /\ cache' = [cache EXCEPT ![ProcessOf[h]][call[h].task] = call[h].old]
         /\ refused' = refused \cup {<<call[h].task, call[h].old + 1>>}

(* Another writer moved the temporary file away: replace finds nothing.    *)
ReplaceFails(h) ==
    /\ call[h].pc = "replace"
    /\ ~tmp.there
    /\ Rollback(h)
    /\ CloseIf(h)
    /\ Return(h)
    /\ UNCHANGED <<file, tmp, held, acked, faults, overlap>>

(* The disk refuses the write (or the injected persist failure).           *)
PersistFails(h) ==
    /\ call[h].pc = "open"
    /\ faults < MaxFaults
    /\ faults' = faults + 1
    /\ Rollback(h)
    /\ CloseIf(h)
    /\ Return(h)
    /\ UNCHANGED <<file, tmp, held, acked, overlap>>

(* The process dies; a new one constructs its store, which loads the file. *)
Restart(p) ==
    /\ faults < MaxFaults
    /\ faults' = faults + 1
    /\ cache' = [cache EXCEPT ![p] = file]
    /\ closed' = closed \ {p}
    /\ call' = [h \in Thread |-> IF ProcessOf[h] = p THEN Idle ELSE call[h]]
    /\ held' = [h \in Thread |-> IF ProcessOf[h] = p THEN NoRecords ELSE held[h]]
    /\ UNCHANGED <<file, tmp, acked, refused, overlap>>

-----------------------------------------------------------------------------
Next ==
    \/ \E h \in Thread :
          \/ \E t \in Task : BeginCreate(h, t) \/ BeginCas(h, t) \/ BeginRead(h, t)
          \/ BeginClose(h)
          \/ Load(h) \/ Get(h) \/ Decide(h) \/ Refuse(h) \/ Install(h)
          \/ Encode(h) \/ Open(h) \/ Write(h) \/ Replace(h)
          \/ ReplaceFails(h) \/ PersistFails(h)
    \/ \E p \in Process : Restart(p)

Spec == Init /\ [][Next]_vars

-----------------------------------------------------------------------------
(* Properties.                                                             *)

(* A record whose create or compare_and_swap returned is never missing     *)
(* from the file, nor at an older revision there, whatever fails later.    *)
NoAcknowledgedWriteLost == \A t \in Task : file[t] >= acked[t]

(* No idempotency key owns two durable records.                            *)
OneOwnerPerKey ==
    \A t, u \in Task : file[t] > 0 /\ file[u] > 0 /\ KeyOf[t] = KeyOf[u] => t = u

(* A write that raised a persist failure is not on the file, and a later   *)
(* close, which writes the whole map, does not put it there.               *)
FailedWriteStaysOut == \A t \in Task : <<t, file[t]>> \notin refused

(* As long as no two calls overlap, a store object keeps what it           *)
(* acknowledged: whatever it loses, it loses to calls that run at the same *)
(* time.                                                                   *)
ApartKeepsAcked == ~overlap => NoAcknowledgedWriteLost

(* As long as no two calls overlap, a key has one owner.                   *)
ApartOneOwner == ~overlap => OneOwnerPerKey

(* As long as no two calls overlap, a write that raised stays out of the   *)
(* file, through every later write and close.                              *)
ApartFailedStaysOut == ~overlap => FailedWriteStaysOut

-----------------------------------------------------------------------------
(* The inductive invariant.                                                *)

(* Where a call stands, overlapping or not: a read never writes, close does *)
(* not decide, and what a write puts on record is within the bound.        *)
CallOk(h) ==
    LET c == call[h]
    IN  /\ (c.pc = "idle" \/ c.op = "none") => c = Idle
        /\ c.op = "read" => c.pc \in {"bind", "decide"}
        /\ c.op = "close" => c.pc \in {"encode", "open", "write", "replace"}
        /\ c.op \in {"create", "cas", "read"} => c.task \in Task
        /\ c.op = "cas" => held[h][c.task] < MaxRevision
        /\ c.old < MaxRevision

CallsInv == TypeOK /\ \A h \in Thread : CallOk(h)

(* Every thread uses one store object.  With several, a close writes the   *)
(* map its object last loaded over what the others have written since.     *)
OneStore == \A g, h \in Thread : ProcessOf[g] = ProcessOf[h]

(* What the call of h will have made of the file.                          *)
Result(h) ==
    IF call[h].op = "close" THEN file
    ELSE [file EXCEPT ![call[h].task] = call[h].old + 1]

Alone == \A g, h \in Thread : call[g] # Idle /\ call[h] # Idle => g = h

(* Between calls the map in memory is the file.                            *)
Quiet == (\A h \in Thread : call[h] = Idle) => \A h \in Thread : cache[ProcessOf[h]] = file

(* A call that writes one new revision replaces the one on the file, for a *)
(* key that no other record has.                                           *)
OneChange(h) ==
    LET c == call[h]
    IN  /\ c.old = file[c.task]
        /\ c.op = "create" => c.old = 0 /\ KeyIsFree(file, c.task)
        /\ c.op = "cas" => c.old > 0

(* A call that runs alone holds the map of the file, or that map with its  *)
(* one change.                                                             *)
AloneOk(h) ==
    LET c == call[h]
        m == cache[ProcessOf[h]]
    IN  /\ c.pc = "bind" => c.text = file
        /\ c.pc \in {"decide", "install"} => m = file
        /\ c.pc \in {"install", "encode", "open", "write", "replace"} /\ c.op # "close" =>
              OneChange(h)
        /\ c.pc \in {"encode", "open", "write", "replace"} => m = Result(h)
        /\ c.pc \in {"encode", "open", "write", "replace"} /\ c.op # "close" =>
              <<c.task, c.old + 1>> \notin refused
        /\ c.pc \in {"open", "write", "replace"} => c.text = Result(h)
        /\ c.pc \in {"write", "replace"} => c.at = "tmp" /\ tmp.there
        /\ c.pc = "replace" => tmp.text = Result(h)

ApartInv ==
    ~overlap =>
        /\ Alone /\ Quiet
        /\ \A h \in Thread : call[h] # Idle => AloneOk(h)
        /\ NoAcknowledgedWriteLost /\ OneOwnerPerKey /\ FailedWriteStaysOut
=============================================================================
