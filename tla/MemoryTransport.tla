-------------------------- MODULE MemoryTransport --------------------------
(***************************************************************************)
(* The in-memory transport of the message bus                              *)
(* (src/crates/message-bus/src/transport/memory.rs). Two concurrent maps,  *)
(* pattern -> subscriptions and subscription -> pattern, and no lock over  *)
(* both: every access to an entry of one of them is a step of its own. A   *)
(* topic, and a pattern, is the sequence of its segments; the empty string *)
(* is the empty sequence. A client is a task that publishes or requests,   *)
(* one message at a time; which subscription a message came over is kept,  *)
(* its payload is not.                                                     *)
(***************************************************************************)
EXTENDS Naturals, FiniteSets, Sequences, SequencesExt, FiniteSetsExt

CONSTANTS
    Subs,           \* subscription ids ever handed out
    Segments,       \* what a pattern or a topic is made of
    Patterns,       \* what they subscribe to
    BusClients,     \* tasks that publish and request
    Topics,         \* what they publish to
    MaxPublished    \* messages, of all clients together

ASSUME BusAssumption ==
    /\ IsFiniteSet(BusClients)
    /\ MaxPublished \in Nat
    /\ Patterns \cup Topics \subseteq Seq(Segments) \ {<<>>}

VARIABLES
    table,      \* subscriptions: the entries, by pattern
    topicOf,    \* subscription_topics: the entries, by id
    wanted,     \* the pattern each subscriber asked for; <<>>: not yet
    subAt,      \* where each subscription is
    inbox,      \* what was sent to it
    clientAt,   \* where each client is
    topic,      \* what it publishes to
    published,  \* how many messages it has published, the present one included
    unvisited,  \* the entries its publish has still to visit
    reply,      \* the subscription of its request
    due,        \* history: subscriptions in place all through its publish
    orphaned    \* history: subscriptions removed with an entry thought empty

busVars == <<table, topicOf, wanted, subAt, inbox, clientAt, topic, published,
             unvisited, reply, due, orphaned>>

\* new; pushed: in the table only; live; dropped: out of the reverse map;
\* emptied: found its entry empty, about to remove it; closed.
SubPlaces == {"new", "pushed", "live", "dropped", "emptied", "closed"}

\* subscribing, waiting, leaving: the parts of a request around its publish.
ClientPlaces == {"idle", "subscribing", "publishing", "waiting", "leaving"}

NoReply == "none"

(***************************************************************************)
(* topic_matches                                                           *)
(***************************************************************************)
\* Both indices, p_idx and t_idx, are i: they only ever move together.
TopicMatches(p, t) ==
    LET from[i \in 1..Len(p) + 1] ==
            IF i > Len(p) THEN i > Len(t)
            ELSE \/ p[i] = "#"
                 \/ i <= Len(t) /\ p[i] \in {"+", t[i]} /\ from[i + 1]
    IN  p # <<>> /\ t # <<>> /\ from[1]

\* What the doc comment says: without "#", segment by segment; up to the first
\* "#" otherwise, and whatever follows, nothing included.
MatchesReference(p, t) ==
    LET hashes == {k \in DOMAIN p : p[k] = "#"}
        fixed == IF hashes = {} THEN Len(p) ELSE Min(hashes) - 1
    IN  /\ p # <<>> /\ t # <<>>
        /\ IF hashes = {} THEN Len(t) = fixed ELSE Len(t) >= fixed
        /\ \A k \in 1..fixed : p[k] \in {"+", t[k]}

TopicMatchesAgrees(segments, length) ==
    \A p \in BoundedSeq(segments \cup {"+", "#"}, length), t \in BoundedSeq(segments, length) :
        TopicMatches(p, t) <=> MatchesReference(p, t)

(***************************************************************************)
(* Initial state and types                                                 *)
(***************************************************************************)
ReplyTopic(t, c) == t \o <<"response", c>>

AllPatterns == Patterns \cup {ReplyTopic(t, c) : t \in Topics, c \in BusClients}
AllTopics == Topics \cup {ReplyTopic(t, c) : t \in Topics, c \in BusClients}

BusMessages == [from : BusClients, number : 1..MaxPublished]

BusTypeOK ==
    /\ DOMAIN table \subseteq AllPatterns /\ \A p \in DOMAIN table : table[p] \subseteq Subs
    /\ DOMAIN topicOf \subseteq Subs /\ \A i \in DOMAIN topicOf : topicOf[i] = wanted[i]
    /\ wanted \in [Subs -> AllPatterns \cup {<<>>}]
    /\ subAt \in [Subs -> SubPlaces]
    /\ inbox \in [Subs -> Seq(BusMessages)]
    /\ clientAt \in [BusClients -> ClientPlaces]
    /\ topic \in [BusClients -> AllTopics \cup {<<>>}]
    /\ published \in [BusClients -> 0..MaxPublished]
    /\ unvisited \in [BusClients -> SUBSET AllPatterns]
    /\ reply \in [BusClients -> Subs \cup {NoReply}]
    /\ due \in [BusClients -> SUBSET Subs]
    /\ orphaned \subseteq Subs

BusInit ==
    /\ table = <<>> /\ topicOf = <<>>
    /\ wanted = [i \in Subs |-> <<>>]
    /\ subAt = [i \in Subs |-> "new"]
    /\ inbox = [i \in Subs |-> <<>>]
    /\ clientAt = [c \in BusClients |-> "idle"]
    /\ topic = [c \in BusClients |-> <<>>]
    /\ published = [c \in BusClients |-> 0]
    /\ unvisited = [c \in BusClients |-> {}]
    /\ reply = [c \in BusClients |-> NoReply]
    /\ due = [c \in BusClients |-> {}]
    /\ orphaned = {}

subVars == <<table, topicOf, wanted, subAt, orphaned>>
busClientVars == <<clientAt, topic, published, unvisited, reply>>

\* A map with one entry set, with one entry removed.
With(map, key, value) == [k \in DOMAIN map \cup {key} |-> IF k = key THEN value ELSE map[k]]
Without(map, key) == [k \in DOMAIN map \ {key} |-> map[k]]

(***************************************************************************)
(* subscribe and unsubscribe                                               *)
(***************************************************************************)
\* A mutant of Pushed: the entry is replaced.
PushedAlone(i, p) == With(table, p, {i})

\* The entry of the pattern, made when there is none, with the subscription.
Pushed(i, p) == With(table, p, {i} \cup (IF p \in DOMAIN table THEN table[p] ELSE {}))

SubscribePushes(i, p) ==
    /\ subAt[i] = "new"
    /\ table' = Pushed(i, p)
    /\ wanted' = [wanted EXCEPT ![i] = p]
    /\ subAt' = [subAt EXCEPT ![i] = "pushed"]
    /\ UNCHANGED <<topicOf, orphaned, inbox, due>>

Subscribe(i, p) == p \in Patterns /\ SubscribePushes(i, p) /\ UNCHANGED busClientVars

SubscribeMaps(i) ==
    /\ subAt[i] = "pushed"
    /\ topicOf' = With(topicOf, i, wanted[i])
    /\ subAt' = [subAt EXCEPT ![i] = "live"]
    /\ UNCHANGED <<table, wanted, orphaned, inbox, due, busClientVars>>

\* Only who was given the id can unsubscribe it: not the subscriber of a
\* request that returned without doing so.
KnowsId(i) ==
    \/ wanted[i] \in Patterns
    \/ \E c \in BusClients : reply[c] = i /\ clientAt[c] = "leaving"

Unsubscribe(i) ==
    /\ subAt[i] = "live" /\ KnowsId(i)
    /\ topicOf' = Without(topicOf, i)
    /\ subAt' = [subAt EXCEPT ![i] = "dropped"]
    /\ due' = [c \in BusClients |-> due[c] \ {i}]
    /\ UNCHANGED <<table, wanted, orphaned, inbox, busClientVars>>

\* get_mut and retain: the entry may be gone already.
UnsubscribeRetains(i) ==
    LET p == wanted[i] IN
    /\ subAt[i] = "dropped"
    /\ IF p \in DOMAIN table
       THEN /\ table' = With(table, p, table[p] \ {i})
            /\ subAt' = [subAt EXCEPT ![i] = IF table[p] \ {i} = {} THEN "emptied" ELSE "closed"]
       ELSE /\ subAt' = [subAt EXCEPT ![i] = "closed"]
            /\ UNCHANGED table
    /\ UNCHANGED <<topicOf, wanted, orphaned, inbox, due, busClientVars>>

\* The entry found empty is removed, with whoever has come into it since.
UnsubscribeCleansUp(i) ==
    LET p == wanted[i] IN
    /\ subAt[i] = "emptied"
    /\ table' = Without(table, p)
    /\ orphaned' = orphaned \cup (IF p \in DOMAIN table THEN table[p] ELSE {})
    /\ subAt' = [subAt EXCEPT ![i] = "closed"]
    /\ UNCHANGED <<topicOf, wanted, inbox, due, busClientVars>>

(***************************************************************************)
(* publish and request                                                     *)
(***************************************************************************)
PublishedInAll == SumFunctionOnSet(published, BusClients)

\* Entries that do not match are left out of the visit.
PublishBegins(c, t) ==
    /\ PublishedInAll < MaxPublished
    /\ topic' = [topic EXCEPT ![c] = t]
    /\ published' = [published EXCEPT ![c] = @ + 1]
    /\ unvisited' = [unvisited EXCEPT ![c] = {p \in AllPatterns : TopicMatches(p, t)}]
    /\ clientAt' = [clientAt EXCEPT ![c] = "publishing"]
    /\ due' = [due EXCEPT ![c] = {i \in Subs : subAt[i] = "live" /\ MatchesReference(wanted[i], t)}]
    /\ UNCHANGED <<subVars, inbox, reply>>

\* A message above max_message_size is refused: nothing happens.
Publish(c, t) == clientAt[c] = "idle" /\ PublishBegins(c, t)

\* The entry is visited under its lock: all its subscriptions are sent to.
PublishVisits(c, p) ==
    LET reached == IF p \in DOMAIN table THEN table[p] ELSE {} IN
    /\ clientAt[c] = "publishing" /\ p \in unvisited[c]
    /\ unvisited' = [unvisited EXCEPT ![c] = @ \ {p}]
    /\ inbox' = [i \in Subs |->
            IF i \in reached THEN Append(inbox[i], [from |-> c, number |-> published[c]])
            ELSE inbox[i]]
    /\ UNCHANGED <<subVars, clientAt, topic, published, reply, due>>

PublishEnds(c) ==
    /\ clientAt[c] = "publishing" /\ unvisited[c] = {}
    /\ clientAt' = [clientAt EXCEPT ![c] = IF reply[c] = NoReply THEN "idle" ELSE "waiting"]
    /\ due' = [due EXCEPT ![c] = {}]
    /\ UNCHANGED <<subVars, inbox, topic, published, unvisited, reply>>

Request(c, i, t) ==
    /\ clientAt[c] = "idle" /\ PublishedInAll < MaxPublished
    /\ SubscribePushes(i, ReplyTopic(t, c))
    /\ clientAt' = [clientAt EXCEPT ![c] = "subscribing"]
    /\ topic' = [topic EXCEPT ![c] = t]
    /\ reply' = [reply EXCEPT ![c] = i]
    /\ UNCHANGED <<published, unvisited>>

RequestPublishes(c) ==
    /\ clientAt[c] = "subscribing" /\ subAt[reply[c]] = "live"
    /\ PublishBegins(c, topic[c])

\* The request is too large: `?` returns, the subscription stays.
RequestRefused(c) ==
    /\ clientAt[c] = "subscribing" /\ subAt[reply[c]] = "live"
    /\ clientAt' = [clientAt EXCEPT ![c] = "idle"]
    /\ reply' = [reply EXCEPT ![c] = NoReply]
    /\ UNCHANGED <<subVars, inbox, topic, published, unvisited, due>>

\* A response, or the timeout.
RequestStopsWaiting(c) ==
    /\ clientAt[c] = "waiting"
    /\ clientAt' = [clientAt EXCEPT ![c] = "leaving"]
    /\ UNCHANGED <<subVars, inbox, topic, published, unvisited, reply, due>>

RequestReturns(c) ==
    /\ clientAt[c] = "leaving" /\ subAt[reply[c]] = "closed"
    /\ clientAt' = [clientAt EXCEPT ![c] = "idle"]
    /\ reply' = [reply EXCEPT ![c] = NoReply]
    /\ UNCHANGED <<subVars, inbox, topic, published, unvisited, due>>

BusNext ==
    \/ \E i \in Subs :
          \/ \E p \in Patterns : Subscribe(i, p)
          \/ SubscribeMaps(i)
          \/ Unsubscribe(i) \/ UnsubscribeRetains(i) \/ UnsubscribeCleansUp(i)
    \/ \E c \in BusClients :
          \/ \E t \in AllTopics : Publish(c, t)
          \/ \E p \in AllPatterns : PublishVisits(c, p)
          \/ PublishEnds(c)
          \/ \E i \in Subs, t \in Topics : Request(c, i, t)
          \/ RequestPublishes(c) \/ RequestRefused(c)
          \/ RequestStopsWaiting(c) \/ RequestReturns(c)

BusSpec == BusInit /\ [][BusNext]_busVars

(***************************************************************************)
(* Properties                                                              *)
(***************************************************************************)
\* When a publish has visited the table, every subscription that was in place
\* before it began, still is, and wants the topic has its message, whatever
\* was subscribed and unsubscribed meanwhile; except one that a concurrent
\* unsubscribe threw out with an entry it had found empty (memory.rs:189-213,
\* 258-263). And no subscription gets a message twice, or a client's messages
\* out of their order.
PublishReachesAll ==
    /\ \A c \in BusClients : clientAt[c] = "publishing" /\ unvisited[c] = {} =>
            \A i \in due[c] \ orphaned :
                Contains(inbox[i], [from |-> c, number |-> published[c]])
    /\ \A i \in Subs : \A j, k \in DOMAIN inbox[i] :
            j < k /\ inbox[i][j].from = inbox[i][k].from => inbox[i][j].number < inbox[i][k].number
=============================================================================
