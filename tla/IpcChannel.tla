----------------------------- MODULE IpcChannel -----------------------------
(***************************************************************************)
(* The kernel's bounded channel (src/crates/kernel/src/ipc/channel.rs): a  *)
(* deque under a mutex and two condition variables. Threads hold clones of *)
(* the Sender; other threads share the one Receiver. What a call does      *)
(* while it holds the mutex is one step; notify_one happens after the      *)
(* mutex is released and is a step of its own. A condition variable may    *)
(* wake a thread without a notification.                                   *)
(***************************************************************************)
EXTENDS Naturals, Sequences, FiniteSets, SequencesExt

CONSTANTS
    Senders,            \* threads that hold a clone of the Sender
    Receivers,          \* threads that share the Receiver
    ChannelCapacity,    \* the capacity given to channel()
    MaxSends            \* bound: messages ever sent

ASSUME ChannelAssumption ==
    /\ ChannelCapacity \in Nat \ {0}
    /\ MaxSends \in Nat
    /\ IsFiniteSet(Senders) /\ IsFiniteSet(Receivers)
    /\ Senders \cap Receivers = {}

VARIABLES
    chBuffer,       \* ChannelInner::buffer
    chThread,       \* where each thread is in its call
    chAccepted,     \* history: every message pushed
    chDelivered,    \* history: every message popped
    chOver          \* history: some recv returned "Channel closed"

channelVars == <<chBuffer, chThread, chAccepted, chDelivered, chOver>>

\* idle: in no call; asleep: in Condvar::wait; woken: wait has returned, the
\* mutex is not held yet; notify: mutex released, notify_one not called yet;
\* dropped: the Sender of this thread is gone.
ChannelPlaces == {"idle", "asleep", "woken", "notify", "dropped"}

\* A message is the number of the push that carried it.
ChannelMessages == 1 .. MaxSends

ChannelTypeOK ==
    /\ chBuffer \in Seq(ChannelMessages) /\ Len(chBuffer) <= ChannelCapacity
    /\ chThread \in [Senders \cup Receivers -> ChannelPlaces]
    /\ chAccepted \in Seq(ChannelMessages)
    /\ chDelivered \in Seq(ChannelMessages)
    /\ chOver \in BOOLEAN

ChannelInit ==
    /\ chBuffer = <<>>
    /\ chThread = [t \in Senders \cup Receivers |-> "idle"]
    /\ chAccepted = <<>>
    /\ chDelivered = <<>>
    /\ chOver = FALSE

ChannelAsleep(ts) == {t \in ts : chThread[t] = "asleep"}

\* A mutant of ChannelFull: off by one.
ChannelFullLate == Len(chBuffer) > ChannelCapacity

ChannelFull == Len(chBuffer) >= ChannelCapacity
ChannelGoes(t, place) == chThread' = [chThread EXCEPT ![t] = place]

(***************************************************************************)
(* Senders                                                                 *)
(***************************************************************************)
ChannelPush(s) ==
    /\ ~ChannelFull
    /\ Len(chAccepted) < MaxSends
    /\ LET message == Len(chAccepted) + 1
       IN  /\ chBuffer' = Append(chBuffer, message)
           /\ chAccepted' = Append(chAccepted, message)
    /\ ChannelGoes(s, "notify")
    /\ UNCHANGED <<chDelivered, chOver>>

\* send: push when there is room, whether the call begins or wakes up. The
\* same step is try_send when it succeeds; when it does not, nothing changes.
Send(s) == chThread[s] \in {"idle", "woken"} /\ ChannelPush(s)

\* send: wait on not_full as long as the buffer is full.
SendWaits(s) ==
    /\ chThread[s] \in {"idle", "woken"}
    /\ ChannelFull
    /\ ChannelGoes(s, "asleep")
    /\ UNCHANGED <<chBuffer, chAccepted, chDelivered, chOver>>

\* Dropping the last Sender wakes nobody.
DropSender(s) ==
    /\ chThread[s] = "idle"
    /\ ChannelGoes(s, "dropped")
    /\ UNCHANGED <<chBuffer, chAccepted, chDelivered, chOver>>

(***************************************************************************)
(* Receivers                                                               *)
(***************************************************************************)
\* recv and try_recv: pop the oldest message.
Recv(r) ==
    /\ chThread[r] \in {"idle", "woken"}
    /\ chBuffer # <<>>
    /\ chBuffer' = Tail(chBuffer)
    /\ chDelivered' = Append(chDelivered, Head(chBuffer))
    /\ ChannelGoes(r, "notify")
    /\ UNCHANGED <<chAccepted, chOver>>

\* A mutant of AllSendersDropped: strong_count <= 2.
OneSenderLeft == Cardinality({s \in Senders : chThread[s] # "dropped"}) <= 1

\* Arc::strong_count(&self.inner) == 1
AllSendersDropped == \A s \in Senders : chThread[s] = "dropped"

\* recv: an empty buffer and no Sender is the end of the channel.
RecvClosed(r) ==
    /\ chThread[r] \in {"idle", "woken"}
    /\ chBuffer = <<>>
    /\ AllSendersDropped
    /\ chOver' = TRUE
    /\ ChannelGoes(r, "idle")
    /\ UNCHANGED <<chBuffer, chAccepted, chDelivered>>

\* recv: an empty buffer and a live Sender: wait on not_empty.
RecvWaits(r) ==
    /\ chThread[r] \in {"idle", "woken"}
    /\ chBuffer = <<>>
    /\ ~AllSendersDropped
    /\ ChannelGoes(r, "asleep")
    /\ UNCHANGED <<chBuffer, chAccepted, chDelivered, chOver>>

(***************************************************************************)
(* The condition variables                                                 *)
(***************************************************************************)
\* notify_one wakes one of the waiters, or nobody when there is none.
ChannelNotifyOne(t, waiters) ==
    IF ChannelAsleep(waiters) = {}
    THEN ChannelGoes(t, "idle")
    ELSE \E u \in ChannelAsleep(waiters) :
            chThread' = [chThread EXCEPT ![t] = "idle", ![u] = "woken"]

\* A mutant of ChannelNotify: a sender notifies only when the message it
\* pushed is alone in the buffer.
ChannelNotifyWhenFirst(t) ==
    /\ chThread[t] = "notify"
    /\ CASE t \in Senders /\ Len(chBuffer) <= 1 -> ChannelNotifyOne(t, Receivers)
         [] t \in Senders /\ Len(chBuffer) > 1 -> ChannelGoes(t, "idle")
         [] t \in Receivers -> ChannelNotifyOne(t, Senders)
    /\ UNCHANGED <<chBuffer, chAccepted, chDelivered, chOver>>

\* A sender notifies not_empty, a receiver not_full.
ChannelNotify(t) ==
    /\ chThread[t] = "notify"
    /\ ChannelNotifyOne(t, IF t \in Senders THEN Receivers ELSE Senders)
    /\ UNCHANGED <<chBuffer, chAccepted, chDelivered, chOver>>

\* Condvar::wait may return without a notification.
ChannelSpuriousWake(t) ==
    /\ chThread[t] = "asleep"
    /\ ChannelGoes(t, "woken")
    /\ UNCHANGED <<chBuffer, chAccepted, chDelivered, chOver>>

ChannelNext ==
    \/ \E s \in Senders : Send(s) \/ SendWaits(s) \/ DropSender(s)
    \/ \E r \in Receivers : Recv(r) \/ RecvClosed(r) \/ RecvWaits(r)
    \/ \E t \in Senders \cup Receivers : ChannelNotify(t) \/ ChannelSpuriousWake(t)

ChannelSpec == ChannelInit /\ [][ChannelNext]_channelVars

(***************************************************************************)
(* Properties                                                              *)
(***************************************************************************)
ChannelFifo == INSTANCE BoundedFifo WITH
    Item <- ChannelMessages, Capacity <- ChannelCapacity,
    accepted <- chAccepted, delivered <- chDelivered, over <- chOver

\* Whatever senders and receivers do to the deque, to an observer of the
\* calls the channel is a bounded FIFO whose end is final (channel.rs:21-109).
ChannelImplementsFifo == ChannelFifo!FifoSpec

\* No thread sleeps over something it could do: as long as a receiver sleeps
\* although there is a message, or a sender although there is room, some
\* notification is still to be given or a woken thread of that side has not
\* run yet (the unlock-then-notify_one order of channel.rs:38-41, 89-91).
ChannelNoLostWakeup ==
    /\ chBuffer # <<>> /\ ChannelAsleep(Receivers) # {} =>
          \/ \E s \in Senders : chThread[s] = "notify"
          \/ \E r \in Receivers : chThread[r] = "woken"
    /\ ~ChannelFull /\ ChannelAsleep(Senders) # {} =>
          \/ \E r \in Receivers : chThread[r] = "notify"
          \/ \E s \in Senders : chThread[s] = "woken"
=============================================================================
