----------------------------- MODULE Notifications -----------------------------
(***************************************************************************)
(* NotificationManager (src/notifications/notification_service.py) with    *)
(* the websocket handler (delivery_handlers.py) and the routes             *)
(* (api_routes.py) on one event loop.  A send goes through the channels    *)
(* and, for the websocket channel, through the connections of the user,    *)
(* and awaits each: connections come and go in between.  A list of         *)
(* connections is an object: a send keeps iterating over the one it found. *)
(* Email, Slack and push are one channel, other: they only look at the     *)
(* preference they are given.  A channel is only served when a handler was *)
(* registered for it with the manager, which nothing in src does: the      *)
(* setup of the routes fills another registry (NotificationChannelFactory, *)
(* delivery_handlers.py).  HandledChannels are those a host registers; in  *)
(* the program as it is wired there are none.  What is kept of a           *)
(* notification for the history and unread routes is left out.             *)
(***************************************************************************)
EXTENDS Naturals, Sequences, FiniteSets, SequencesExt

CONSTANTS Users, Connections, Sends,
          HandledChannels   \* the channels register_handler is called for

\* A connection is <<user, number>>.
Owner(c) == c[1]
ASSUME NoteAssumption == (\A c \in Connections : Owner(c) \in Users) /\ HandledChannels \subseteq {"websocket", "other"}

VARIABLES deliveryHandlers,  \* the channels with a handler
          registered,  \* user -> the number of its list of connections, 0 for none
          lists,       \* the lists there have been
          sending,     \* sending[n]: pc, user, the channels left, the list and position of the iteration
          open,        \* whether a connection is new, open or closed
          received,    \* history: what each connection was sent
          whole,       \* history: the connections of the user registered ever since a send, or its
                       \* iteration, began
          handled      \* history: the sends that asked for the websocket when it had a handler

noteVars == <<deliveryHandlers, registered, lists, sending, open, received, whole, handled>>

Channels == <<"websocket", "other">>
Conns(u) == IF registered[u] = 0 THEN <<>> ELSE lists[registered[u]]

NoteTypeOK ==
  /\ registered \in [Users -> 0 .. Len(lists)]
  /\ \A k \in DOMAIN lists : lists[k] \in Seq(Connections) /\ IsInjective(lists[k])
  /\ \A u \in Users : registered[u] # 0 => lists[registered[u]] # <<>>
  /\ sending \in [Sends -> [pc : {"none", "channel", "sockets", "sent"}, user : Users,
                            wanted : SUBSET ToSet(Channels), channel : 1 .. 3,
                            list : 0 .. Len(lists), at : Nat]]
  /\ open \in [Connections -> {"new", "open", "closed"}] /\ \A c \in Connections : received[c] \in Seq(Sends)
  /\ whole \in [Sends -> SUBSET Connections] /\ handled \subseteq Sends
  /\ deliveryHandlers \subseteq ToSet(Channels)

NoteInit ==
  /\ deliveryHandlers = {} /\ handled = {}
  /\ registered = [u \in Users |-> 0] /\ lists = <<>>
  /\ open = [c \in Connections |-> "new"]
  /\ sending \in [Sends -> {[pc |-> "none", user |-> u, wanted |-> {}, channel |-> 1, list |-> 0, at |-> 1] :
                            u \in Users}]
  /\ received = [c \in Connections |-> <<>>] /\ whole = [n \in Sends |-> {}]

-----------------------------------------------------------------------------
\* register_handler, at any moment.
RegisterHandler(channel) ==
  /\ channel \notin deliveryHandlers
  /\ deliveryHandlers' = deliveryHandlers \cup {channel}
  /\ UNCHANGED <<registered, lists, sending, open, received, whole, handled>>

\* websocket_notifications: the connection is registered in the list of its user, or in a new one ...
Connect(c) ==
  LET u == Owner(c) IN
  /\ open[c] = "new"
  /\ open' = [open EXCEPT ![c] = "open"]
  /\ IF registered[u] = 0
     THEN /\ lists' = Append(lists, <<c>>)
          /\ registered' = [registered EXCEPT ![u] = Len(lists) + 1]
     ELSE /\ lists' = [lists EXCEPT ![registered[u]] = Append(@, c)]
          /\ UNCHANGED registered
  /\ UNCHANGED <<deliveryHandlers, sending, received, whole, handled>>

\* A list without a connection, which it holds once.
ListWithout(list, c) ==
  IF c \in ToSet(list) THEN RemoveAt(list, CHOOSE k \in DOMAIN list : list[k] = c) ELSE list

AfterRemovalInPlace(u, c) ==                                               \* mutant
  <<[lists EXCEPT ![registered[u]] = ListWithout(@, c)],
    IF Len(Conns(u)) = 1 THEN 0 ELSE registered[u]>>
\* ... and taken out by making a new list without it.
AfterRemoval(u, c) ==
  LET rest == ListWithout(Conns(u), c) IN
  IF rest = <<>> THEN <<lists, 0>> ELSE <<Append(lists, rest), Len(lists) + 1>>

Disconnect(c) ==
  /\ open[c] = "open" /\ open' = [open EXCEPT ![c] = "closed"]
  /\ lists' = AfterRemoval(Owner(c), c)[1]
  /\ registered' = [registered EXCEPT ![Owner(c)] = AfterRemoval(Owner(c), c)[2]]
  /\ whole' = [n \in Sends |-> whole[n] \ {c}]
  /\ UNCHANGED <<deliveryHandlers, sending, received, handled>>

-----------------------------------------------------------------------------
\* send_notification: the preference is looked up once; the routes may have set any.
BeginSend(n) ==
  /\ sending[n].pc = "none"
  /\ \E enabled \in SUBSET ToSet(Channels) :
       /\ sending' = [sending EXCEPT ![n].pc = "channel", ![n].wanted = enabled]
       /\ handled' = IF "websocket" \in enabled \cap deliveryHandlers THEN handled \cup {n} ELSE handled
  /\ whole' = [whole EXCEPT ![n] = ToSet(Conns(sending[n].user))]
  /\ UNCHANGED <<deliveryHandlers, registered, lists, open, received>>

\* A channel without a handler is passed over.
Handled(channel) == channel \in deliveryHandlers

\* The next channel; WebSocketHandler.send finds the list of the user.
NextChannel(n) ==
  LET s == sending[n] found == registered[s.user] IN
  /\ s.pc = "channel"
  /\ sending' = [sending EXCEPT ![n] =
       IF s.channel > Len(Channels) THEN [s EXCEPT !.pc = "sent"]
       ELSE IF Channels[s.channel] = "websocket" /\ "websocket" \in s.wanted /\ Handled("websocket") /\ found # 0
            THEN [s EXCEPT !.pc = "sockets", !.list = found, !.at = 1]
            ELSE [s EXCEPT !.channel = @ + 1]]
  /\ IF sending'[n].pc = "sockets"
     THEN whole' = [whole EXCEPT ![n] = ToSet(Conns(s.user))] /\ handled' = handled \cup {n}
     ELSE UNCHANGED <<whole, handled>>
  /\ UNCHANGED <<deliveryHandlers, registered, lists, open, received>>

\* One connection of the list, by its position; a failing one is passed over.
SendToConnection(n) ==
  LET s == sending[n] IN
  /\ s.pc = "sockets" /\ s.at <= Len(lists[s.list])
  /\ LET c == lists[s.list][s.at] IN
       received' = IF open[c] = "open" THEN [received EXCEPT ![c] = Append(@, n)] ELSE received
  /\ sending' = [sending EXCEPT ![n].at = @ + 1]
  /\ UNCHANGED <<deliveryHandlers, registered, lists, open, whole, handled>>

AfterSockets(n) == [sending[n] EXCEPT !.pc = "channel", !.channel = @ + 1]

SocketsDone(n) ==
  /\ sending[n].pc = "sockets" /\ sending[n].at > Len(lists[sending[n].list])
  /\ sending' = [sending EXCEPT ![n] = AfterSockets(n)]
  /\ UNCHANGED <<deliveryHandlers, registered, lists, open, received, whole, handled>>

NoteNext ==
  \/ \E channel \in HandledChannels : RegisterHandler(channel)
  \/ \E c \in Connections : Connect(c) \/ Disconnect(c)
  \/ \E n \in Sends : BeginSend(n) \/ NextChannel(n) \/ SendToConnection(n) \/ SocketsDone(n)

NoteSpec == NoteInit /\ [][NoteNext]_noteVars

-----------------------------------------------------------------------------
\* Whoever connects or disconnects while a notification is being sent, and whenever the handler is
\* registered: once the websocket has a handler, a send that asks for it reaches every connection of the
\* user that was there all along.
ReachesConnected ==
  \A n \in handled : sending[n].channel > 1 => \A c \in whole[n] : n \in ToSet(received[c])

\* The same of every send that asks for the websocket.  This fails: without a handler nothing is sent.
ReachesEvery ==
  \A n \in Sends : "websocket" \in sending[n].wanted /\ sending[n].channel > 1 =>
    \A c \in whole[n] : n \in ToSet(received[c])

\* No connection gets a notification of another user, or one twice.
ReceivedOnce ==
  \A c \in Connections :
    IsInjective(received[c]) /\ \A k \in DOMAIN received[c] : sending[received[c][k]].user = Owner(c)

\* A closed connection is in no user's list: the map only holds open ones.
RegisteredAreOpen == \A u \in Users : ToSet(Conns(u)) = {c \in Connections : open[c] = "open" /\ Owner(c) = u}

\* All of it: notifications and the connections they go to (notification_service.py).
NotifiedOnce == NoteTypeOK /\ ReachesConnected /\ ReceivedOnce /\ RegisteredAreOpen
=============================================================================
