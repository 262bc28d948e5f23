------------------------------ MODULE EventQueue ------------------------------
(***************************************************************************)
(* src/api/event_queue.py on several API instances: a bounded local queue, *)
(* a bounded memory of the event ids already seen, and the Redis channel   *)
(* that carries every pushed event to all instances, its sender included.  *)
(* Threads push.  The handler of every /ws/events connection pops for      *)
(* itself (src/api/server.py): it polls the channel without the lock,      *)
(* appends what it took under the lock, takes the whole queue and sends it *)
(* to its own client, one event after the other.  A pop is a plain call on *)
(* the event loop of its instance, the sends are awaited.  Publishing,     *)
(* polling and sending may fail, and nobody pops where no client is        *)
(* connected.                                                              *)
(***************************************************************************)
EXTENDS Naturals, Sequences, FiniteSets, SequencesExt

CONSTANTS Instances,
          Pushers,        \* the pushing threads, <<instance, number>>
          Clients,        \* the connections to /ws/events, <<instance, number>>
          PollMax,
          QueueMaxima, SeenMaxima,   \* sizes of the queue and of the memory of ids: a behaviour chooses
          MaxEvents, MaxQueueFaults, NoEvent

ASSUME QueueAssumption ==
  /\ QueueMaxima \subseteq Nat \ {0} /\ SeenMaxima \subseteq Nat \ {0} /\ MaxEvents \in Nat
  /\ IsFiniteSet(Pushers) /\ (\A p \in Pushers : p[1] \in Instances) /\ NoEvent \notin Pushers \X (1 .. MaxEvents)
  /\ \A c \in Clients : c[1] \in Instances

VARIABLES queueMax, seenMax, queue, seen, channel, pusher, pushed, queueFaults,
          handler,     \* the step the handler of a connection is at; "new" before it, "gone" after it
          taken,       \* what the pop in progress has taken from the channel
          batch,       \* what a handler has popped and not sent yet
          popped,      \* history: what was popped on an instance, in this order
          delivered,   \* history: what was sent to a client
          lost         \* history: what overflow, a failing poll or a failing send has dropped

queueVars == <<queueMax, seenMax, queue, seen, channel, pusher, pushed, queueFaults, handler, taken, batch,
               popped, delivered, lost>>

\* An event is the thread that pushed it and its number there; pushed counts them.
Events == Pushers \X (1 .. MaxEvents)
Pushes == Cardinality({e \in Events : pushed[e[1]] >= e[2]})

QueueTypeOK ==
  /\ seenMax \in SeenMaxima /\ queueMax \in QueueMaxima
  /\ \A i \in Instances :
       /\ queue[i] \in Seq(Events) /\ Len(queue[i]) <= queueMax
       /\ seen[i] \in Seq(Events) /\ Len(seen[i]) <= seenMax /\ IsInjective(seen[i])
       /\ channel[i] \in Seq(Events) /\ taken[i] \in Seq(Events)
       /\ lost[i] \subseteq Events
  /\ \A c \in Clients :
       /\ handler[c] \in {"new", "sleep", "poll", "append", "drain", "send", "gone"}
       /\ batch[c] \in Seq(Events) /\ (handler[c] = "send" <=> batch[c] # <<>>)
  /\ pusher \in [Pushers -> Events \cup {NoEvent}]
  /\ pushed \in [Pushers -> 0 .. MaxEvents]

QueueInit ==
  /\ seenMax \in SeenMaxima /\ queueMax \in QueueMaxima
  /\ queue = [i \in Instances |-> <<>>] /\ seen = [i \in Instances |-> <<>>]
  /\ channel = [i \in Instances |-> <<>>] /\ taken = [i \in Instances |-> <<>>]
  /\ popped = [i \in Instances |-> <<>>] /\ pusher = [p \in Pushers |-> NoEvent]
  /\ handler = [c \in Clients |-> "new"] /\ batch = [c \in Clients |-> <<>>]
  /\ pushed = [p \in Pushers |-> 0] /\ queueFaults = 0
  /\ delivered = [c \in Clients |-> <<>>] /\ lost = [i \in Instances |-> {}]

IsSeen(i, e) == e \in ToSet(seen[i])

\* _mark_seen: the oldest ids are forgotten when the memory is full.
Remember(ids, e) == Append(IF Len(ids) >= seenMax THEN Tail(ids) ELSE ids, e)

EnqueueLeft(q, more) == SubSeq(Reverse(more) \o q, 1, IF Len(q) + Len(more) > queueMax THEN queueMax \* mutant
                                                       ELSE Len(q) + Len(more))
\* deque(maxlen): appending drops the oldest events of a queue that would be too long.
Enqueue(q, more) ==
  LET all == q \o more IN IF Len(all) > queueMax THEN SubSeq(all, Len(all) - queueMax + 1, Len(all)) ELSE all
Overflow(q, more) == {q[k] : k \in {j \in DOMAIN q : Len(q) - j + Len(more) >= queueMax}}
                       \cup {more[k] : k \in {j \in DOMAIN more : Len(more) - j >= queueMax}}

-----------------------------------------------------------------------------
\* push_event: under the lock the event is marked and queued ...
Push(p) ==
  LET e == <<p, pushed[p] + 1>> i == p[1] IN
  /\ pusher[p] = NoEvent /\ Pushes < MaxEvents
  /\ pushed' = [pushed EXCEPT ![p] = @ + 1]
  /\ ~IsSeen(i, e)
  /\ seen' = [seen EXCEPT ![i] = Remember(@, e)]
  /\ queue' = [queue EXCEPT ![i] = Enqueue(@, <<e>>)]
  /\ lost' = [lost EXCEPT ![i] = @ \cup Overflow(queue[i], <<e>>)]
  /\ pusher' = [pusher EXCEPT ![p] = e]
  /\ UNCHANGED <<queueMax, seenMax, channel, queueFaults, handler, taken, batch, popped, delivered>>

\* ... and published after it, to every subscriber.
Publish(p) ==
  /\ pusher[p] # NoEvent
  /\ pusher' = [pusher EXCEPT ![p] = NoEvent]
  /\ \/ channel' = [i \in Instances |-> Append(channel[i], pusher[p])] /\ UNCHANGED queueFaults
     \/ queueFaults < MaxQueueFaults /\ queueFaults' = queueFaults + 1 /\ UNCHANGED channel
  /\ UNCHANGED <<queueMax, seenMax, queue, seen, pushed, handler, taken, batch, popped, delivered, lost>>

-----------------------------------------------------------------------------
\* websocket_events: accepted, then a round every half second; nothing is awaited within a pop.
Popping(c) == handler[c] \in {"poll", "append", "drain"}
LoopFree(i) == \A c \in Clients : c[1] = i => ~Popping(c)

Accept(c) ==
  /\ handler[c] = "new" /\ LoopFree(c[1])
  /\ handler' = [handler EXCEPT ![c] = "sleep"]
  /\ UNCHANGED <<queueMax, seenMax, queue, seen, channel, pusher, pushed, queueFaults, taken, batch,
                 popped, delivered, lost>>

BeginPop(c) ==
  /\ handler[c] = "sleep" /\ LoopFree(c[1])
  /\ handler' = [handler EXCEPT ![c] = "poll"]
  /\ UNCHANGED <<queueMax, seenMax, queue, seen, channel, pusher, pushed, queueFaults, taken, batch,
                 popped, delivered, lost>>

\* pop_events, first part: _pull_backplane_events takes messages one by one, at most PollMax ...
TakeMessage(c) ==
  LET i == c[1] IN
  /\ handler[c] = "poll" /\ channel[i] # <<>> /\ Len(taken[i]) < PollMax
  /\ channel' = [channel EXCEPT ![i] = Tail(@)]
  /\ LET e == Head(channel[i]) IN
       IF IsSeen(i, e) THEN UNCHANGED <<seen, taken>>
       ELSE /\ seen' = [seen EXCEPT ![i] = Remember(@, e)]
            /\ taken' = [taken EXCEPT ![i] = Append(@, e)]
  /\ UNCHANGED <<queueMax, seenMax, queue, pusher, pushed, queueFaults, handler, batch, popped, delivered, lost>>

PollEnds(c) ==
  LET i == c[1] IN
  /\ handler[c] = "poll" /\ (channel[i] = <<>> \/ Len(taken[i]) = PollMax)
  /\ handler' = [handler EXCEPT ![c] = IF taken[i] = <<>> THEN "drain" ELSE "append"]
  /\ UNCHANGED <<queueMax, seenMax, queue, seen, channel, pusher, pushed, queueFaults, taken, batch,
                 popped, delivered, lost>>

\* ... and an exception on the way drops the messages already taken, which stay marked as seen.
PollFails(c) ==
  LET i == c[1] IN
  /\ handler[c] = "poll" /\ queueFaults < MaxQueueFaults
  /\ queueFaults' = queueFaults + 1
  /\ lost' = [lost EXCEPT ![i] = @ \cup ToSet(taken[i])]
  /\ taken' = [taken EXCEPT ![i] = <<>>]
  /\ handler' = [handler EXCEPT ![c] = "drain"]
  /\ UNCHANGED <<queueMax, seenMax, queue, seen, channel, pusher, pushed, batch, popped, delivered>>

AppendTaken(c) ==
  LET i == c[1] IN
  /\ handler[c] = "append"
  /\ queue' = [queue EXCEPT ![i] = Enqueue(@, taken[i])]
  /\ lost' = [lost EXCEPT ![i] = @ \cup Overflow(queue[i], taken[i])]
  /\ taken' = [taken EXCEPT ![i] = <<>>]
  /\ handler' = [handler EXCEPT ![c] = "drain"]
  /\ UNCHANGED <<queueMax, seenMax, seen, channel, pusher, pushed, queueFaults, batch, popped, delivered>>

\* The rest of pop_events: the whole queue, for this connection alone.
Drain(c) ==
  LET i == c[1] IN
  /\ handler[c] = "drain"
  /\ batch' = [batch EXCEPT ![c] = queue[i]]
  /\ popped' = [popped EXCEPT ![i] = @ \o queue[i]]
  /\ queue' = [queue EXCEPT ![i] = <<>>]
  /\ handler' = [handler EXCEPT ![c] = IF queue[i] = <<>> THEN "sleep" ELSE "send"]
  /\ UNCHANGED <<queueMax, seenMax, seen, channel, pusher, pushed, queueFaults, taken, delivered, lost>>

\* One event after the other is sent, with an await for each: the loop serves others meanwhile ...
SendNext(c) ==
  /\ handler[c] = "send"
  /\ delivered' = [delivered EXCEPT ![c] = Append(@, Head(batch[c]))]
  /\ batch' = [batch EXCEPT ![c] = Tail(@)]
  /\ handler' = [handler EXCEPT ![c] = IF Tail(batch[c]) = <<>> THEN "sleep" ELSE "send"]
  /\ UNCHANGED <<queueMax, seenMax, queue, seen, channel, pusher, pushed, queueFaults, taken, popped, lost>>

\* ... and a send that fails ends the handler: this event and the rest of the batch are dropped.  A
\* client that has left is noticed here and nowhere else.
SendFails(c) ==
  /\ handler[c] = "send"
  /\ lost' = [lost EXCEPT ![c[1]] = @ \cup ToSet(batch[c])]
  /\ batch' = [batch EXCEPT ![c] = <<>>]
  /\ handler' = [handler EXCEPT ![c] = "gone"]
  /\ UNCHANGED <<queueMax, seenMax, queue, seen, channel, pusher, pushed, queueFaults, taken, popped, delivered>>

\* The handler of a connection goes on, a send ends one way or the other, and a push that has begun
\* publishes: these steps are weakly fair.  Nobody has to connect.
HandlerStep(c) ==
  \/ BeginPop(c) \/ TakeMessage(c) \/ PollEnds(c) \/ AppendTaken(c) \/ Drain(c)
  \/ SendNext(c) \/ SendFails(c)

QueueNext ==
  \/ \E p \in Pushers : Push(p) \/ Publish(p)
  \/ \E c \in Clients : Accept(c) \/ HandlerStep(c) \/ PollFails(c)

QueueSpec == QueueInit /\ [][QueueNext]_queueVars

-----------------------------------------------------------------------------
Happened == {e \in Events : pushed[e[1]] >= e[2]}
ClientsOf(i) == {c \in Clients : c[1] = i}
Delivered(i) == UNION {ToSet(delivered[c]) : c \in ClientsOf(i)}
InHand(i) == UNION {ToSet(batch[c]) : c \in ClientsOf(i)}
Connected(c) == handler[c] \notin {"new", "gone"}

\* While the memory of ids holds every event, no client gets one twice, and no two clients of an
\* instance get the same: not on the instance that pushed it and gets it back from the channel, not
\* on the others, whichever of the handlers polls.
DeliveredOnce ==
  seenMax >= MaxEvents =>
    /\ \A c \in Clients : IsInjective(delivered[c])
    /\ \A c, d \in Clients : c # d /\ c[1] = d[1] => ToSet(delivered[c]) \cap ToSet(delivered[d]) = {}

\* The events of one thread reach a client in the order they were pushed, whatever overflow, a failing
\* poll, a failing send or another client's handler takes out in between.
InPushOrder ==
  seenMax >= MaxEvents =>
    \A c \in Clients : \A k, l \in DOMAIN delivered[c] :
      k < l /\ delivered[c][k][1] = delivered[c][l][1] => delivered[c][k][2] < delivered[c][l][2]

\* On the instance it was pushed on an event waits in the queue, is in the hands of a handler, was sent to
\* a client, or was dropped: by overflow, by a failing send, or, once its id is forgotten, by a failing
\* poll.  An event marked as seen is not forgotten otherwise.
PushedIsKept ==
  \A e \in Happened : LET i == e[1][1] IN e \in ToSet(queue[i]) \cup InHand(i) \cup Delivered(i) \cup lost[i]

\* As long as some client of its own instance is connected, a pushed event reaches a client of that
\* instance in the end, or was dropped.
Served(i) == \E c \in ClientsOf(i) : Connected(c)

PushedIsDelivered ==
  \A e \in Events : LET i == e[1][1] IN
    (e \in Happened /\ Served(i)) ~> (e \in Delivered(i) \cup lost[i] \/ ~Served(i))

\* What waits in the queue of an instance is sent to every client connected there, as a broadcast would.
\* This fails: the handler of one client takes it from the others.
EveryClientGets ==
  \A c \in Clients : \A e \in Events :
    (e \in ToSet(queue[c[1]]) /\ Connected(c)) ~> (e \in ToSet(delivered[c]) \cup lost[c[1]] \/ ~Connected(c))

\* All of it: events on their way through queue and channel (event_queue.py).
EventsInOrder == QueueTypeOK /\ DeliveredOnce /\ InPushOrder /\ PushedIsKept
=============================================================================
