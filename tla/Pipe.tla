-------------------------------- MODULE Pipe --------------------------------
(***************************************************************************)
(* The kernel's byte pipe (src/crates/kernel/src/ipc/pipe.rs): a deque of  *)
(* bytes under a mutex, a closed flag under a mutex of its own, and two    *)
(* condition variables. Both ends can be cloned. A thread that has looked  *)
(* at the closed flag still holds the buffer's mutex until it waits, and   *)
(* close_pipe takes only the flag's mutex: the flag may change in between. *)
(***************************************************************************)
EXTENDS Naturals, Sequences, FiniteSets, FiniteSetsExt, SequencesExt

CONSTANTS
    PipeReaders,    \* threads that hold a clone of the PipeReader
    PipeWriters,    \* threads that hold a clone of the PipeWriter
    PipeCapacity,   \* the capacity given to pipe()
    WriteSizes,     \* lengths of the slices given to write and try_write
    ReadSizes,      \* lengths of the buffers given to read and try_read
    MaxBytes        \* bound: bytes all the calls to write offer together

NoThread == "none"

ASSUME PipeAssumption ==
    /\ PipeCapacity \in Nat \ {0}
    /\ MaxBytes \in Nat
    /\ WriteSizes \subseteq Nat \ {0}
    /\ ReadSizes \subseteq Nat \ {0}
    /\ PipeReaders \cap PipeWriters = {}
    /\ IsFiniteSet(PipeReaders) /\ IsFiniteSet(PipeWriters)
    /\ NoThread \notin PipeReaders \cup PipeWriters

VARIABLES
    pBuffer,    \* PipeInner::buffer
    pClosed,    \* PipeInner::closed
    pHolder,    \* who keeps the buffer's mutex from one step to the next
    pThread,    \* where each thread is in its call
    pSize,      \* write: data.len(); read: buf.len()
    pWritten,   \* write: bytes already pushed
    pClosing,   \* close_pipe: not called, flag set, readers notified, done
    pOffered,   \* bytes offered so far (bounds the model)
    pIn,        \* history: every byte pushed
    pOut,       \* history: every byte handed to a reader
    pOver       \* history: some read returned 0

pipeVars == <<pBuffer, pClosed, pHolder, pThread, pSize, pWritten, pClosing,
              pOffered, pIn, pOut, pOver>>

PipeThreads == PipeReaders \cup PipeWriters

\* A byte is the number of the push that carried it.
PipeBytes == 1 .. MaxBytes

\* filling: a writer in its loop, holding the mutex; checked: a reader that
\* saw an empty open pipe, holding the mutex; the rest as in IpcChannel.
PipePlaces == {"idle", "filling", "checked", "asleep", "woken", "notify"}

PipeTypeOK ==
    /\ pBuffer \in Seq(PipeBytes) /\ Len(pBuffer) <= PipeCapacity
    /\ pClosed \in BOOLEAN
    /\ pHolder \in PipeThreads \cup {NoThread}
    /\ pThread \in [PipeThreads -> PipePlaces]
    /\ pSize \in [PipeThreads -> Nat]
    /\ pWritten \in [PipeWriters -> Nat]
    /\ pClosing \in {"no", "set", "half", "done"}
    /\ pOffered \in 0 .. MaxBytes
    /\ pIn \in Seq(PipeBytes)
    /\ pOut \in Seq(PipeBytes)
    /\ pOver \in BOOLEAN

PipeInit ==
    /\ pBuffer = <<>>
    /\ pClosed = FALSE
    /\ pHolder = NoThread
    /\ pThread = [t \in PipeThreads |-> "idle"]
    /\ pSize = [t \in PipeThreads |-> 0]
    /\ pWritten = [w \in PipeWriters |-> 0]
    /\ pClosing = "no"
    /\ pOffered = 0
    /\ pIn = <<>>
    /\ pOut = <<>>
    /\ pOver = FALSE

PipeAsleep(ts) == {t \in ts : pThread[t] = "asleep"}
PipeGoes(t, place) == pThread' = [pThread EXCEPT ![t] = place]
PipeRoom == PipeCapacity - Len(pBuffer)

(***************************************************************************)
(* Writers                                                                 *)
(***************************************************************************)
\* The next n bytes enter the buffer.
PushBytes(n) ==
    LET bytes == [i \in 1 .. n |-> Len(pIn) + i]
    IN  /\ pBuffer' = pBuffer \o bytes
        /\ pIn' = pIn \o bytes

\* write: the mutex is taken and the flag looked at; a closed pipe is an
\* error, which changes nothing.
WriteBegins(w) ==
    /\ pThread[w] = "idle"
    /\ pHolder = NoThread
    /\ ~pClosed
    /\ \E n \in WriteSizes :
          /\ pOffered + n <= MaxBytes
          /\ pOffered' = pOffered + n
          /\ pSize' = [pSize EXCEPT ![w] = n]
    /\ pWritten' = [pWritten EXCEPT ![w] = 0]
    /\ pHolder' = w
    /\ PipeGoes(w, "filling")
    /\ UNCHANGED <<pBuffer, pClosed, pClosing, pIn, pOut, pOver>>

\* write: push as much as fits. All of it: unlock, then notify. Some of it:
\* wait on not_full, which releases the mutex; nobody is notified.
WriteFills(w) ==
    /\ pThread[w] = "filling"
    /\ LET left == pSize[w] - pWritten[w]
           n == Min({left, PipeRoom})
       IN  /\ PushBytes(n)
           /\ pWritten' = [pWritten EXCEPT ![w] = @ + n]
           /\ PipeGoes(w, IF n = left THEN "notify" ELSE "asleep")
    /\ pHolder' = NoThread
    /\ UNCHANGED <<pClosed, pSize, pClosing, pOffered, pOut, pOver>>

\* A mutant of WriteResumes: the flag is not looked at after a wait.
WriteResumesBlindly(w) ==
    /\ pThread[w] = "woken"
    /\ pHolder = NoThread
    /\ PipeGoes(w, "filling") /\ pHolder' = w
    /\ UNCHANGED <<pBuffer, pClosed, pSize, pWritten, pClosing, pOffered, pIn, pOut, pOver>>

\* write: after a wait a closed pipe ends the call, without a notification.
WriteResumes(w) ==
    /\ pThread[w] = "woken"
    /\ pHolder = NoThread
    /\ IF pClosed
       THEN PipeGoes(w, "idle") /\ UNCHANGED pHolder
       ELSE PipeGoes(w, "filling") /\ pHolder' = w
    /\ UNCHANGED <<pBuffer, pClosed, pSize, pWritten, pClosing, pOffered, pIn, pOut, pOver>>

\* try_write: what fits, at once; a notification if anything did. The flag
\* is read and the bytes are pushed under the mutex; closing may fall
\* between the two, which no other thread can tell from closing afterwards.
TryWrite(w) ==
    /\ pThread[w] = "idle"
    /\ pHolder = NoThread
    /\ ~pClosed
    /\ \E size \in WriteSizes :
          /\ pOffered + size <= MaxBytes
          /\ pOffered' = pOffered + size
          /\ PushBytes(Min({size, PipeRoom}))
    /\ PipeGoes(w, IF PipeRoom > 0 THEN "notify" ELSE "idle")
    /\ UNCHANGED <<pClosed, pHolder, pSize, pWritten, pClosing, pOut, pOver>>

(***************************************************************************)
(* Readers                                                                 *)
(***************************************************************************)
\* The oldest n bytes leave the buffer.
PopBytes(n) ==
    /\ pOut' = pOut \o SubSeq(pBuffer, 1, n)
    /\ pBuffer' = SubSeq(pBuffer, n + 1, Len(pBuffer))

\* read: the call begins, or goes on after a wait; with data, or on a closed
\* pipe, it takes what there is (nothing at the end) and notifies not_full.
ReadTakes(r) ==
    /\ pHolder = NoThread
    /\ pBuffer # <<>> \/ pClosed
    /\ \E size \in IF pThread[r] = "idle" THEN ReadSizes ELSE {pSize[r]} :
          /\ PopBytes(Min({size, Len(pBuffer)}))
          /\ pSize' = [pSize EXCEPT ![r] = size]
    /\ pThread[r] \in {"idle", "woken"}
    /\ pOver' = (pOver \/ pBuffer = <<>>)
    /\ PipeGoes(r, "notify")
    /\ UNCHANGED <<pClosed, pHolder, pWritten, pClosing, pOffered, pIn>>

\* read: an empty open pipe; the mutex is kept until the wait.
ReadChecks(r) ==
    /\ pHolder = NoThread
    /\ pBuffer = <<>> /\ ~pClosed
    /\ pThread[r] \in {"idle", "woken"}
    /\ \E size \in IF pThread[r] = "idle" THEN ReadSizes ELSE {pSize[r]} :
          pSize' = [pSize EXCEPT ![r] = size]
    /\ pHolder' = r
    /\ PipeGoes(r, "checked")
    /\ UNCHANGED <<pBuffer, pClosed, pWritten, pClosing, pOffered, pIn, pOut, pOver>>

ReadWaits(r) ==
    /\ pThread[r] = "checked"
    /\ pHolder' = NoThread
    /\ PipeGoes(r, "asleep")
    /\ UNCHANGED <<pBuffer, pClosed, pSize, pWritten, pClosing, pOffered, pIn, pOut, pOver>>

\* try_read: what there is, at once; a notification if there was anything.
TryRead(r) ==
    /\ pHolder = NoThread
    /\ pThread[r] = "idle"
    /\ pBuffer # <<>>
    /\ \E size \in ReadSizes : PopBytes(Min({size, Len(pBuffer)}))
    /\ PipeGoes(r, "notify")
    /\ UNCHANGED <<pClosed, pHolder, pSize, pWritten, pClosing, pOffered, pIn, pOver>>

(***************************************************************************)
(* Condition variables and closing                                         *)
(***************************************************************************)
\* notify_one: a writer on not_empty, a reader on not_full.
PipeNotify(t) ==
    /\ pThread[t] = "notify"
    /\ LET sleepers == PipeAsleep(IF t \in PipeWriters THEN PipeReaders ELSE PipeWriters)
       IN  IF sleepers = {}
           THEN PipeGoes(t, "idle")
           ELSE \E u \in sleepers :
                   pThread' = [pThread EXCEPT ![t] = "idle", ![u] = "woken"]
    /\ UNCHANGED <<pBuffer, pClosed, pHolder, pSize, pWritten, pClosing, pOffered, pIn, pOut, pOver>>

PipeSpuriousWake(t) ==
    /\ pThread[t] = "asleep"
    /\ PipeGoes(t, "woken")
    /\ UNCHANGED <<pBuffer, pClosed, pHolder, pSize, pWritten, pClosing, pOffered, pIn, pOut, pOver>>

\* close_pipe: the flag is set without the buffer's mutex ...
ClosePipe ==
    /\ pClosing = "no"
    /\ pClosed' = TRUE
    /\ pClosing' = "set"
    /\ UNCHANGED <<pBuffer, pHolder, pThread, pSize, pWritten, pOffered, pIn, pOut, pOver>>

PipeWakesAll(ts) ==
    pThread' = [t \in PipeThreads |-> IF t \in PipeAsleep(ts) THEN "woken" ELSE pThread[t]]

\* A mutant of CloseNotifies: only the readers are woken.
CloseNotifiesReaders ==
    /\ \/ pClosing = "set" /\ pClosing' = "half" /\ PipeWakesAll(PipeReaders)
       \/ pClosing = "half" /\ pClosing' = "done" /\ UNCHANGED pThread
    /\ UNCHANGED <<pBuffer, pClosed, pHolder, pSize, pWritten, pOffered, pIn, pOut, pOver>>

\* ... then all readers that wait are woken, then all writers that wait.
CloseNotifies ==
    /\ \/ pClosing = "set" /\ pClosing' = "half" /\ PipeWakesAll(PipeReaders)
       \/ pClosing = "half" /\ pClosing' = "done" /\ PipeWakesAll(PipeWriters)
    /\ UNCHANGED <<pBuffer, pClosed, pHolder, pSize, pWritten, pOffered, pIn, pOut, pOver>>

PipeNext ==
    \/ \E w \in PipeWriters :
          WriteBegins(w) \/ WriteFills(w) \/ WriteResumes(w) \/ TryWrite(w)
    \/ \E r \in PipeReaders :
          ReadTakes(r) \/ ReadChecks(r) \/ ReadWaits(r) \/ TryRead(r)
    \/ \E t \in PipeThreads : PipeNotify(t) \/ PipeSpuriousWake(t)
    \/ ClosePipe
    \/ CloseNotifies

PipeSpec == PipeInit /\ [][PipeNext]_pipeVars

(***************************************************************************)
(* Properties                                                              *)
(***************************************************************************)
PipeFifo == INSTANCE BoundedFifo WITH
    Item <- PipeBytes, Capacity <- PipeCapacity,
    accepted <- pIn, delivered <- pOut, over <- pOver

\* To an observer of the calls the pipe is a bounded FIFO of bytes, and a
\* read that returned 0 is final: a writer that was waiting when the pipe
\* was closed adds nothing after it (pipe.rs:126-134, 212-215).
PipeImplementsFifo == PipeFifo!FifoSpec

\* Nobody is in motion: whoever is in a call sleeps.
PipeQuiet == \A t \in PipeThreads : pThread[t] \in {"idle", "asleep"}

\* Who may sleep with nobody left to wake them. With one reader and an open
\* pipe, a reader sleeps while data or a blocked writer is there only when a
\* writer sleeps in the middle of a write longer than the capacity: write
\* notifies not_empty only after its last byte (pipe.rs:117-143), so a write
\* that fits never deadlocks with the reader. Once close_pipe has notified,
\* at most one reader and one writer sleep on, each the thread that held the
\* mutex between its look at the flag and its wait (pipe.rs:216-230).
PipeStallsExplained ==
    /\ /\ Cardinality(PipeReaders) = 1
       /\ ~pClosed /\ PipeQuiet
       /\ PipeAsleep(PipeReaders) # {}
       /\ pBuffer # <<>> \/ PipeAsleep(PipeWriters) # {}
       => \E w \in PipeAsleep(PipeWriters) : pSize[w] > PipeCapacity
    /\ pClosing = "done" =>
          /\ Cardinality(PipeAsleep(PipeReaders)) <= 1
          /\ Cardinality(PipeAsleep(PipeWriters)) <= 1
=============================================================================
