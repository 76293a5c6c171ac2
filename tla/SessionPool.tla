---------------------------- MODULE SessionPool ----------------------------
(***************************************************************************)
(* The session pool (src/crates/agents/src/runtime/session_pool.rs): a map *)
(* of sessions under a lock, a queue of available ones under another, a    *)
(* queue of requests served by a background task, and maintenance. Whoever *)
(* looks for a session does it under the read lock and assigns it later    *)
(* under the write lock. The queue's order and duplicates are left out:    *)
(* every removal removes all occurrences, and the scores decide which of   *)
(* the available sessions a request gets.                                  *)
(***************************************************************************)
EXTENDS Naturals, FiniteSets, Sequences, SequencesExt

CONSTANTS
    Sessions,       \* the sessions ever created
    PoolTasks,      \* the tasks that ask for one, once each
    MinPoolSize,    \* sessions warmed up by start
    MaxPoolSize,    \* sessions at any time
    MaxPoolEvents   \* creations, hibernations, terminations and checks in a run

ASSUME PoolAssumption ==
    /\ IsFiniteSet(Sessions) /\ IsFiniteSet(PoolTasks)
    /\ "none" \notin Sessions \cup PoolTasks
    /\ MinPoolSize \in Nat /\ MaxPoolSize \in Nat /\ MaxPoolEvents \in Nat
    /\ MinPoolSize <= MaxPoolSize

Nobody == "none"

VARIABLES
    sState,     \* PooledSession::state; None and Gone are no entries
    sAvailable, \* ids in available_queue
    sTask,      \* current_task_id
    sPushing,   \* sessions somebody is about to put into available_queue
    sRemoving,  \* sessions a hibernate_session is about to take out of it
    tPlace,     \* where the call of each task is
    tSession,   \* the session found for, or held by, each task
    requests,   \* assignment_queue
    served,     \* the request the assignment processor works on
    match,      \* the session it found for it
    doomed,     \* what maintenance found under the read lock: to hibernate, to terminate
    tainted,    \* history: sessions assigned or hibernated when they were in use
    hidden,     \* history: idle sessions a late hibernation took out of the queue
    poolEvents  \* how many of the MaxPoolEvents there have been

poolVars == <<sState, sAvailable, sTask, sPushing, sRemoving, tPlace, tSession,
              requests, served, match, doomed, tainted, hidden, poolEvents>>

SessionStates == {"None", "Idle", "Busy", "Hibernating", "Unhealthy", "Gone"}

\* new, matched, waiting (for the processor's answer), holding, released;
\* gaveUp: the 30 seconds are over, or the answer was no session.
TaskPlaces == {"new", "matched", "waiting", "holding", "released", "gaveUp"}

Live == {s \in Sessions : sState[s] \notin {"None", "Gone"}}

PoolTypeOK ==
    /\ sState \in [Sessions -> SessionStates]
    /\ Cardinality(Live) <= MaxPoolSize
    /\ sAvailable \subseteq Sessions
    /\ sTask \in [Sessions -> PoolTasks \cup {Nobody}]
    /\ sPushing \subseteq Sessions /\ sRemoving \subseteq Sessions
    /\ tPlace \in [PoolTasks -> TaskPlaces]
    /\ tSession \in [PoolTasks -> Sessions \cup {Nobody}]
    /\ requests \in Seq(PoolTasks)
    /\ served \in PoolTasks \cup {Nobody}
    /\ match \in Sessions \cup {Nobody}
    /\ doomed \in [hibernate : SUBSET Sessions, terminate : SUBSET Sessions]
    /\ tainted \subseteq Sessions /\ hidden \subseteq Sessions
    /\ poolEvents \in 0..MaxPoolEvents

\* start: MinPoolSize idle sessions.
PoolInit ==
    /\ \E warm \in SUBSET Sessions :
          /\ Cardinality(warm) = MinPoolSize
          /\ sState = [s \in Sessions |-> IF s \in warm THEN "Idle" ELSE "None"]
          /\ sAvailable = warm
    /\ sTask = [s \in Sessions |-> Nobody]
    /\ sPushing = {} /\ sRemoving = {}
    /\ tPlace = [t \in PoolTasks |-> "new"]
    /\ tSession = [t \in PoolTasks |-> Nobody]
    /\ requests = <<>>
    /\ served = Nobody /\ match = Nobody
    /\ doomed = [hibernate |-> {}, terminate |-> {}]
    /\ tainted = {} /\ hidden = {}
    /\ poolEvents = 0

Findable == {s \in sAvailable : sState[s] = "Idle"}

sessionVars == <<sState, sAvailable, sTask, sPushing, sRemoving>>
poolClientVars == <<tPlace, tSession, requests>>
poolProcessorVars == <<served, match>>
poolHistoryVars == <<tainted, hidden>>

\* Another of the events the instance is bounded by.
PoolEvent == poolEvents < MaxPoolEvents /\ poolEvents' = poolEvents + 1

(***************************************************************************)
(* Sessions come and go                                                    *)
(***************************************************************************)
\* A mutant of CreateSession: nothing is evicted.
CreateUncounted(s) ==
    /\ PoolEvent
    /\ sState[s] = "None"
    /\ sState' = [sState EXCEPT ![s] = "Idle"]
    /\ sPushing' = sPushing \cup {s}
    /\ UNCHANGED <<sAvailable, sTask, sRemoving, doomed, poolClientVars,
                   poolProcessorVars, poolHistoryVars>>

\* create_session: at capacity the least recently used idle session has to
\* go, or the call fails. The new one enters the queue after the unlock.
CreateSession(s) ==
    /\ PoolEvent
    /\ sState[s] = "None"
    /\ \E evicted \in SUBSET Live :
          /\ IF Cardinality(Live) >= MaxPoolSize
             THEN Cardinality(evicted) = 1 /\ \A e \in evicted : sState[e] = "Idle"
             ELSE evicted = {}
          /\ sState' = [e \in Sessions |->
                CASE e = s -> "Idle" [] e \in evicted -> "Gone" [] OTHER -> sState[e]]
          /\ sAvailable' = sAvailable \ evicted
    /\ sPushing' = sPushing \cup {s}
    /\ UNCHANGED <<sTask, sRemoving, doomed, poolClientVars, poolProcessorVars,
                   poolHistoryVars>>

\* create_session, wake_session: the push after the unlock.
PushAvailable(s) ==
    /\ s \in sPushing
    /\ sPushing' = sPushing \ {s}
    /\ sAvailable' = sAvailable \cup {s}
    /\ UNCHANGED <<sState, sTask, sRemoving, doomed, poolClientVars, poolProcessorVars,
                   poolHistoryVars, poolEvents>>

\* hibernate_session: an idle session; the queue follows after the unlock.
HibernateSession(s) ==
    /\ PoolEvent
    /\ sState[s] = "Idle" /\ s \notin sRemoving
    /\ sState' = [sState EXCEPT ![s] = "Hibernating"]
    /\ sRemoving' = sRemoving \cup {s}
    /\ UNCHANGED <<sAvailable, sTask, sPushing, doomed, poolClientVars,
                   poolProcessorVars, poolHistoryVars>>

RemoveAvailable(s) ==
    /\ s \in sRemoving
    /\ sRemoving' = sRemoving \ {s}
    /\ sAvailable' = sAvailable \ {s}
    /\ hidden' = IF sState[s] = "Idle" THEN hidden \cup {s} ELSE hidden
    /\ UNCHANGED <<sState, sTask, sPushing, doomed, tainted, poolClientVars,
                   poolProcessorVars, poolEvents>>

\* A mutant of WakeSession: no look at the state.
WakeAny(s) ==
    /\ s \in Live /\ s \notin sPushing
    /\ sState' = [sState EXCEPT ![s] = "Idle"]
    /\ sPushing' = sPushing \cup {s}
    /\ UNCHANGED <<sAvailable, sTask, sRemoving, doomed, poolClientVars,
                   poolProcessorVars, poolHistoryVars, poolEvents>>

WakeSession(s) ==
    /\ sState[s] = "Hibernating"
    /\ sState' = [sState EXCEPT ![s] = "Idle"]
    /\ sPushing' = sPushing \cup {s}
    /\ UNCHANGED <<sAvailable, sTask, sRemoving, doomed, poolClientVars,
                   poolProcessorVars, poolHistoryVars, poolEvents>>

\* terminate_session: whatever its state.
TerminateSession(s) ==
    /\ PoolEvent
    /\ s \in Live
    /\ sState' = [sState EXCEPT ![s] = "Gone"]
    /\ sAvailable' = sAvailable \ {s}
    /\ UNCHANGED <<sTask, sPushing, sRemoving, doomed, poolClientVars, poolProcessorVars,
                   poolHistoryVars>>

\* Health monitor: busy for more than 30 minutes.
MarkUnhealthy(s) ==
    /\ PoolEvent
    /\ sState[s] = "Busy"
    /\ sState' = [sState EXCEPT ![s] = "Unhealthy"]
    /\ UNCHANGED <<sAvailable, sTask, sPushing, sRemoving, doomed, poolClientVars,
                   poolProcessorVars, poolHistoryVars>>

\* Maintenance looks under the read lock ... (Its eviction of what exceeds
\* max_pool_size never runs: create_session admits no excess.)
MaintenanceLooks ==
    /\ PoolEvent
    /\ doomed = [hibernate |-> {}, terminate |-> {}]
    /\ \E h, d \in SUBSET Live :
          /\ h \cup d # {}
          /\ \A s \in h : sState[s] = "Idle"
          /\ \A s \in d : sState[s] = "Hibernating"
          /\ doomed' = [hibernate |-> h, terminate |-> d]
    /\ UNCHANGED <<sessionVars, poolClientVars, poolProcessorVars, poolHistoryVars>>

\* ... and hibernates under the write lock, without looking again.
MaintenanceHibernates(s) ==
    /\ s \in doomed.hibernate
    /\ doomed' = [doomed EXCEPT !.hibernate = @ \ {s}]
    /\ sState' = IF s \in Live THEN [sState EXCEPT ![s] = "Hibernating"] ELSE sState
    /\ sAvailable' = sAvailable \ {s}
    /\ tainted' = IF sState[s] \in {"Busy", "Unhealthy"} THEN tainted \cup {s} ELSE tainted
    /\ UNCHANGED <<sTask, sPushing, sRemoving, hidden, poolClientVars, poolProcessorVars,
                   poolEvents>>

\* The queue keeps the id of what maintenance terminates.
MaintenanceTerminates(s) ==
    /\ doomed.hibernate = {} /\ s \in doomed.terminate
    /\ doomed' = [doomed EXCEPT !.terminate = @ \ {s}]
    /\ sState' = [sState EXCEPT ![s] = "Gone"]
    /\ UNCHANGED <<sAvailable, sTask, sPushing, sRemoving, poolClientVars,
                   poolProcessorVars, poolHistoryVars, poolEvents>>

(***************************************************************************)
(* Tasks get and give back sessions                                        *)
(***************************************************************************)
\* acquire_session: find_matching_session ...
FindMatch(t, s) ==
    /\ tPlace[t] = "new"
    /\ s \in Findable
    /\ tPlace' = [tPlace EXCEPT ![t] = "matched"]
    /\ tSession' = [tSession EXCEPT ![t] = s]
    /\ UNCHANGED <<sessionVars, requests, doomed, poolProcessorVars, poolHistoryVars,
                   poolEvents>>

\* What assign_session and the processor do to the session, if it is there:
\* they do not ask whether it is still available.
AssignTo(s, t) ==
    /\ sState' = IF s \in Live THEN [sState EXCEPT ![s] = "Busy"] ELSE sState
    /\ sTask' = IF s \in Live THEN [sTask EXCEPT ![s] = t] ELSE sTask
    /\ sAvailable' = sAvailable \ {s}
    /\ tainted' = IF sState[s] # "Idle" THEN tainted \cup {s} ELSE tainted

\* ... then assign_session, under the write lock.
AssignSession(t) ==
    /\ tPlace[t] = "matched"
    /\ AssignTo(tSession[t], t)
    /\ tPlace' = [tPlace EXCEPT ![t] = "holding"]
    /\ UNCHANGED <<sPushing, sRemoving, tSession, requests, doomed, hidden,
                   poolProcessorVars, poolEvents>>

\* acquire_session: nothing available, the request is queued.
QueueRequest(t) ==
    /\ tPlace[t] = "new" /\ Findable = {}
    /\ tPlace' = [tPlace EXCEPT ![t] = "waiting"]
    /\ requests' = Append(requests, t)
    /\ UNCHANGED <<sessionVars, tSession, doomed, poolProcessorVars, poolHistoryVars,
                   poolEvents>>

\* acquire_session: 30 seconds; the request stays in the queue.
RequestTimesOut(t) ==
    /\ tPlace[t] = "waiting"
    /\ tPlace' = [tPlace EXCEPT ![t] = "gaveUp"]
    /\ UNCHANGED <<sessionVars, tSession, requests, doomed, poolProcessorVars,
                   poolHistoryVars, poolEvents>>

\* release_session: whatever the session's state; its id enters the queue
\* even when the session is gone.
ReleaseSession(t) ==
    LET s == tSession[t] IN
    /\ tPlace[t] = "holding"
    /\ sState' = IF s \in Live THEN [sState EXCEPT ![s] = "Idle"] ELSE sState
    /\ sTask' = IF s \in Live THEN [sTask EXCEPT ![s] = Nobody] ELSE sTask
    /\ sAvailable' = sAvailable \cup {s}
    /\ tPlace' = [tPlace EXCEPT ![t] = "released"]
    /\ tSession' = [tSession EXCEPT ![t] = Nobody]
    /\ UNCHANGED <<sPushing, sRemoving, requests, doomed, poolProcessorVars,
                   poolHistoryVars, poolEvents>>

(***************************************************************************)
(* The assignment processor                                                *)
(***************************************************************************)
ProcessorTakes ==
    /\ served = Nobody /\ requests # <<>>
    /\ served' = Head(requests)
    /\ requests' = Tail(requests)
    /\ UNCHANGED <<sessionVars, tPlace, tSession, match, doomed, poolHistoryVars, poolEvents>>

ProcessorMatches(s) ==
    /\ served # Nobody /\ match = Nobody
    /\ s \in Findable
    /\ match' = s
    /\ UNCHANGED <<sessionVars, served, doomed, poolClientVars, poolHistoryVars, poolEvents>>

\* No session: back to the end of the queue.
ProcessorRequeues ==
    /\ served # Nobody /\ match = Nobody
    /\ Findable = {}
    /\ requests' = Append(requests, served)
    /\ served' = Nobody
    /\ UNCHANGED <<sessionVars, tPlace, tSession, match, doomed, poolHistoryVars, poolEvents>>

\* The session is assigned and the answer sent, whether or not the task
\* still waits for it.
ProcessorAssigns ==
    /\ match # Nobody
    /\ AssignTo(match, served)
    /\ IF tPlace[served] = "waiting"
       THEN /\ tPlace' = [tPlace EXCEPT ![served] = "holding"]
            /\ tSession' = [tSession EXCEPT ![served] = match]
       ELSE UNCHANGED <<tPlace, tSession>>
    /\ served' = Nobody /\ match' = Nobody
    /\ UNCHANGED <<sPushing, sRemoving, requests, doomed, hidden, poolEvents>>

PoolNext ==
    \/ \E s \in Sessions :
          \/ CreateSession(s) \/ PushAvailable(s)
          \/ HibernateSession(s) \/ RemoveAvailable(s) \/ WakeSession(s)
          \/ TerminateSession(s) \/ MarkUnhealthy(s)
          \/ MaintenanceHibernates(s) \/ MaintenanceTerminates(s)
          \/ ProcessorMatches(s)
    \/ \E t \in PoolTasks :
          \/ AssignSession(t) \/ QueueRequest(t) \/ RequestTimesOut(t) \/ ReleaseSession(t)
          \/ \E s \in Sessions : FindMatch(t, s)
    \/ MaintenanceLooks
    \/ ProcessorTakes \/ ProcessorRequeues \/ ProcessorAssigns

PoolSpec == PoolInit /\ [][PoolNext]_poolVars

(***************************************************************************)
(* Properties                                                              *)
(***************************************************************************)
Holders(s) == {t \in PoolTasks : tPlace[t] = "holding" /\ tSession[t] = s}

\* Two tasks share a session only after one of two things: an assignment that
\* went ahead although the session had stopped being available since it was
\* found, or a hibernation that maintenance carried out on a session that had
\* been assigned since it was listed (session_pool.rs:535, 790, 898).
SharedOnlyThroughStaleLooks ==
    \A s \in Sessions : Cardinality(Holders(s)) > 1 => s \in tainted

\* A busy session has a task that holds it, or had one that stopped waiting
\* before the processor answered it: that lease nobody ever returns
\* (session_pool.rs:552, 914).
BusyHasItsTask ==
    \A s \in Sessions \ tainted :
        sState[s] = "Busy" =>
            /\ sTask[s] \in PoolTasks
            /\ s = tSession[sTask[s]] \/ tPlace[sTask[s]] = "gaveUp"

\* An idle session can be found, or somebody is about to make it findable,
\* unless a hibernate_session that had already set its state removed it from
\* the queue only after it had been woken (session_pool.rs:655-661, 679-686).
IdleIsFindable ==
    \A s \in Sessions : sState[s] = "Idle" => s \in sAvailable \cup sPushing \cup hidden

\* No session is used twice or lost but in the ways the three name: shared by
\* tasks, leased to nobody, or idle where nobody finds it.
SessionsAccounted == SharedOnlyThroughStaleLooks /\ BusyHasItsTask /\ IdleIsFindable
=============================================================================
