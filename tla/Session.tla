------------------------------ MODULE Session ------------------------------
(***************************************************************************)
(* A session from end to end: the host process (its signaling supervisor   *)
(* and main loop, crates/host), the browser players (web/src/player.ts)    *)
(* and the signaling server between them, reduced to what it promises: a   *)
(* registration, a close and a relay are one step each.  Signaling models  *)
(* how the server's handlers interleave.                                   *)
(*                                                                         *)
(* A message is a record; of a session description the module keeps which  *)
(* host peer it was made by or for (id).  ICE candidates, pads, telemetry  *)
(* and split-screen settings are left out.                                 *)
(***************************************************************************)
EXTENDS Naturals, Sequences, FiniteSets

CONSTANTS
  Players,     \* browser tabs
  None,
  MaxPlayers,  \* seats
  MaxJoins,    \* bound: registrations of players
  MaxLeaves,   \* bound: departures of players
  MaxFaults    \* bound: breaks of the host's link and restarts of the server

Slots == 1..MaxPlayers

ASSUME SessionAssumption ==
  /\ None \notin Players
  /\ MaxPlayers \in Nat \ {0}
  /\ {MaxJoins, MaxLeaves, MaxFaults} \subseteq Nat

VARIABLES
  exists,           \* server: the session has been created
  seat, joined,     \* server: who holds each slot, and since which epoch
  epoch,            \* server: the player table's epoch
  link,             \* server's view of the host's socket, see below
  joins, leaves, breaks, restarts, \* how much of each bound is used
  inbox, todo,      \* host: inbound channel; what a rejoin burst still has to do
  started,          \* host: past the wait for the first player
  conns, builds,    \* host: the peer of each slot; peers built so far
  outbox,           \* host: outbound channel
  toPlayer,         \* messages on the way to each player
  pc, last, up,     \* player: peer connection, lastOfferEpoch, healthy
  applying,         \* player: offers given to the peer connection, not yet answered
  armed             \* player: mediaRecoverTimer is set

server == <<exists, seat, joined, epoch, link>>
bounds == <<joins, leaves, breaks, restarts>>
host   == <<inbox, todo, started, conns, builds, outbox>>
player == <<toPlayer, pc, last, up, applying, armed>>
vars   == <<server, bounds, host, player>>

NoConn == [id |-> 0, attached |-> 0, offers |-> 0, remote |-> 0]

\* link: "none", no host is registered; "live"; "dead", the socket has failed
\* and the server has not noticed.
Init ==
  /\ exists = FALSE /\ seat = [s \in Slots |-> None] /\ joined = [s \in Slots |-> 0]
  /\ epoch = 0 /\ link = "none"
  /\ joins = 0 /\ leaves = 0 /\ breaks = 0 /\ restarts = 0
  /\ inbox = <<>> /\ todo = <<>> /\ started = FALSE
  /\ conns = [s \in Slots |-> NoConn] /\ builds = 0
  /\ outbox = <<>>
  /\ toPlayer = [p \in Players |-> <<>>]
  /\ pc = [p \in Players |-> 0] /\ last = [p \in Players |-> 0]
  /\ up = [p \in Players |-> FALSE]
  /\ applying = [p \in Players |-> <<>>] /\ armed = [p \in Players |-> FALSE]

Msg(type, s, e, id) == [type |-> type, slot |-> s, epoch |-> e, id |-> id]
PeerJoined(s, e) == Msg("joined", s, e, 0)
PeerLeft(s) == Msg("left", s, 0, 0)
RequestOffer(s) == Msg("request", s, 0, 0)
Offer(s, e, id) == Msg("offer", s, e, id)
Answer(s, e, id) == Msg("answer", s, e, id)
HostLeft == PeerLeft(0)

Seats(p) == {s \in Slots : seat[s] = p}
Seated == {s \in Slots : seat[s] # None}

\* The numbers of a set, smallest first.
InOrder(ns) ==
  [i \in 1..Cardinality(ns) |-> CHOOSE n \in ns : Cardinality({m \in ns : m <= n}) = i]

\* What the server or a player sends to the host arrives only over a live link.
ToHost(msgs) == inbox' = IF link = "live" THEN inbox \o msgs ELSE inbox

(***************************************************************************)
(* Players come and go.                                                    *)
(***************************************************************************)
PlayerJoins(p) ==
  /\ exists /\ joins < MaxJoins /\ joins' = joins + 1
  /\ Seats(p) = {}
  /\ \E s \in Slots :
       /\ seat[s] = None /\ \A t \in 1..(s - 1) : seat[t] # None
       /\ seat' = [seat EXCEPT ![s] = p]
       /\ joined' = [joined EXCEPT ![s] = epoch + 1]
       /\ ToHost(<<PeerJoined(s, epoch + 1)>>)
  /\ epoch' = epoch + 1
  /\ UNCHANGED <<exists, link, leaves, breaks, restarts, todo, started, conns, builds,
                 outbox, player>>

\* A closed tab forgets everything; so does a player that reconnects, since
\* connect() resets the peer and lastOfferEpoch.
Forget(ps) ==
  /\ toPlayer' = [p \in Players |-> IF p \in ps THEN <<>> ELSE toPlayer[p]]
  /\ pc' = [p \in Players |-> IF p \in ps THEN 0 ELSE pc[p]]
  /\ last' = [p \in Players |-> IF p \in ps THEN 0 ELSE last[p]]
  /\ up' = [p \in Players |-> IF p \in ps THEN FALSE ELSE up[p]]
  /\ applying' = [p \in Players |-> IF p \in ps THEN <<>> ELSE applying[p]]
  /\ armed' = [p \in Players |-> IF p \in ps THEN FALSE ELSE armed[p]]

PlayerLeaves(p) ==
  /\ leaves < MaxLeaves /\ leaves' = leaves + 1
  /\ \E s \in Seats(p) :
       /\ seat' = [seat EXCEPT ![s] = None]
       /\ joined' = [joined EXCEPT ![s] = 0]
       /\ ToHost(<<PeerLeft(s)>>)
  /\ Forget({p})
  /\ UNCHANGED <<exists, epoch, link, joins, breaks, restarts, todo, started, conns, builds,
                 outbox>>

(***************************************************************************)
(* The host's link (signaling_client.rs supervise) and the server process. *)
(***************************************************************************)
\* The message a failed send was given is gone; the others stay queued.
LinkBreaks ==
  /\ link = "live" /\ breaks + restarts < MaxFaults
  /\ link' = "dead" /\ breaks' = breaks + 1
  /\ outbox' \in {outbox} \cup (IF outbox = <<>> THEN {} ELSE {Tail(outbox)})
  /\ UNCHANGED <<exists, seat, joined, epoch, joins, leaves, restarts, inbox, todo, started,
                 conns, builds, player>>

\* unregister tells the players that the host left.
ServerNotices ==
  /\ link = "dead"
  /\ link' = "none"
  /\ toPlayer' = [p \in Players |->
                    IF Seats(p) = {} THEN toPlayer[p]
                    ELSE Append(toPlayer[p], HostLeft)]
  /\ UNCHANGED <<exists, seat, joined, epoch, bounds, host, pc, last, up, applying, armed>>

\* Mutant: the replay repeats the epochs the players joined with.
ReplayEpochStored(s) == joined[s]

\* replay_for_host: a fresh epoch for each seated slot, in table order.
ReplayEpoch(s) == epoch + Cardinality({t \in Seated : t <= s})

Replay ==
  [i \in 1..Cardinality(Seated) |->
     LET s == InOrder(Seated)[i] IN PeerJoined(s, ReplayEpoch(s))]

\* Connect, register, and be told of every seated player.
HostRegisters ==
  /\ link # "live"
  /\ link' = "live" /\ exists' = TRUE
  /\ inbox' = inbox \o Replay
  /\ epoch' = epoch + Cardinality(Seated)
  /\ UNCHANGED <<seat, joined, bounds, todo, started, conns, builds, outbox,
                 player>>

\* Sessions live in the server's memory only.
ServerRestarts ==
  /\ breaks + restarts < MaxFaults /\ restarts' = restarts + 1
  /\ seat' = [s \in Slots |-> None] /\ joined' = [s \in Slots |-> 0]
  /\ epoch' = 0 /\ link' = "none" /\ exists' = FALSE
  /\ Forget(Players)
  /\ UNCHANGED <<joins, leaves, breaks, host>>

\* player_tx: the player holding a slot.
Holder(s) == seat[s]

\* The host's outbound channel drains into the socket; the server relays an
\* offer to whoever holds the slot now.
Relay ==
  /\ link = "live" /\ outbox # <<>>
  /\ LET o == Head(outbox)
         p == Holder(o.slot)
     IN  toPlayer' = IF p = None THEN toPlayer
                     ELSE [toPlayer EXCEPT ![p] = Append(@, o)]
  /\ outbox' = Tail(outbox)
  /\ UNCHANGED <<server, bounds, inbox, todo, started, conns, builds, pc, last,
                 up, applying, armed>>

(***************************************************************************)
(* The host's main loop.                                                   *)
(***************************************************************************)
\* handle_slot_join: nothing for a registration that is not newer than the
\* peer; otherwise a new peer, whose first offer has epoch 1.
SlotJoin(s, e) ==
  IF conns[s].attached >= e
  THEN UNCHANGED <<conns, builds, outbox>>
  ELSE /\ conns' = [conns EXCEPT ![s] =
                      [id |-> builds + 1, attached |-> e, offers |-> 1,
                       remote |-> 0]]
       /\ builds' = builds + 1
       /\ outbox' = Append(outbox, Offer(s, 1, builds + 1))

\* route_slot_msg: an answer is applied when it echoes the peer's last offer
\* epoch and the peer waits for one; a request makes the peer offer again.
RouteAnswer(m) ==
  /\ conns' =
       IF /\ conns[m.slot].id # 0 /\ conns[m.slot].remote = 0
          /\ m.epoch = conns[m.slot].offers
       THEN [conns EXCEPT ![m.slot].remote = m.id]
       ELSE conns
  /\ UNCHANGED <<builds, outbox>>

\* Mutant: requests are ignored.
RouteRequestIgnored(m) == UNCHANGED <<conns, builds, outbox>>

RouteRequest(m) ==
  LET c == conns[m.slot] IN
  IF c.id = 0
  THEN UNCHANGED <<conns, builds, outbox>>
  ELSE /\ conns' = [conns EXCEPT ![m.slot].remote = 0,
                                 ![m.slot].offers = c.offers + 1]
       /\ outbox' = Append(outbox, Offer(m.slot, c.offers + 1, c.id))
       /\ UNCHANGED builds

Route(m) ==
  \/ m.type = "answer" /\ RouteAnswer(m)
  \/ m.type = "request" /\ RouteRequest(m)

DropPeer(s) ==
  /\ conns' = [conns EXCEPT ![s] = NoConn]
  /\ UNCHANGED <<builds, outbox>>

\* Before the first player only a PeerJoined is acted upon.
HostWaits ==
  /\ ~started /\ inbox # <<>>
  /\ inbox' = Tail(inbox)
  /\ LET m == Head(inbox) IN
     IF m.type = "joined"
     THEN started' = TRUE /\ SlotJoin(m.slot, m.epoch)
     ELSE UNCHANGED <<started, conns, builds, outbox>>
  /\ UNCHANGED <<server, bounds, todo, player>>

HostHandles ==
  /\ started /\ todo = <<>> /\ inbox # <<>>
  /\ inbox' = Tail(inbox)
  /\ LET m == Head(inbox) IN
     \/ Route(m)
     \/ m.type = "left" /\ DropPeer(m.slot)
  /\ UNCHANGED <<server, bounds, todo, started, player>>

\* take_queued_joins: the newest registration of each slot, by slot, then the
\* other messages in their order.
Joins == {m \in {inbox[i] : i \in 1..Len(inbox)} : m.type = "joined"}
Newest(s) == CHOOSE m \in Joins : /\ m.slot = s
                                  /\ \A n \in Joins : n.slot = s => n.epoch <= m.epoch
Newcomers ==
  LET slots == InOrder({m.slot : m \in Joins})
  IN  [i \in DOMAIN slots |-> Newest(slots[i])]
Deferred ==
  LET others == InOrder({i \in 1..Len(inbox) : inbox[i].type # "joined"})
  IN  [n \in DOMAIN others |-> inbox[others[n]]]
Burst == Newcomers \o Deferred

HostCoalesces ==
  /\ started /\ todo = <<>> /\ inbox # <<>> /\ Head(inbox).type = "joined"
  /\ todo' = Burst /\ inbox' = <<>>
  /\ UNCHANGED <<server, bounds, started, conns, builds, outbox, player>>

\* route_slot_msg handles no PeerLeft: a deferred one is ignored.
HostCatchesUp ==
  /\ todo # <<>>
  /\ todo' = Tail(todo)
  /\ LET m == Head(todo) IN
     \/ m.type = "joined" /\ SlotJoin(m.slot, m.epoch)
     \/ Route(m)
     \/ m.type = "left" /\ UNCHANGED <<conns, builds, outbox>>
  /\ UNCHANGED <<server, bounds, inbox, started, player>>

(***************************************************************************)
(* The player.                                                             *)
(***************************************************************************)
\* The host peer of p's slot and p's peer connection have each other's
\* descriptions.
Agreed(p) ==
  /\ pc[p] # 0
  /\ \E s \in Seats(p) : conns[s].id = pc[p] /\ conns[s].remote = pc[p]

\* applyRemoteOffer up to its first await.  While healthy and stable, only an
\* offer with a greater epoch counts.  An epoch that skips one, or a connection
\* that failed, is given a new connection, and what was being applied to the old
\* one never settles; otherwise the offer follows the others on the same one.
TakesOffer(p, o) ==
  IF up[p] /\ applying[p] = <<>> /\ o.epoch <= last[p]
  THEN UNCHANGED <<pc, up, applying>>
  ELSE \E new \in BOOLEAN :
         /\ pc[p] = 0 \/ o.epoch > last[p] + 1 => new
         /\ new => pc[p] = 0 \/ o.epoch > last[p] + 1 \/ ~Agreed(p)
         /\ pc' = [pc EXCEPT ![p] = o.id]
         /\ up' = [up EXCEPT ![p] = @ /\ ~new /\ pc[p] = o.id]
         /\ applying' = [applying EXCEPT ![p] = IF new THEN <<o>> ELSE Append(@, o)]

\* The rest of it, after the awaits.  An offer that came in between either waits
\* for this answer, or was applied first: then this is an answer to the other
\* under its own epoch, or still its own, and the other's application fails.
AnswersOffer(p) ==
  /\ applying[p] # <<>>
  /\ LET o == Head(applying[p])
         rest == Tail(applying[p])
     IN  /\ \E left \in {rest, <<>>}, id \in {o.id, pc[p]} :
               /\ left # <<>> => id = o.id
               /\ applying' = [applying EXCEPT ![p] = left]
               /\ \E s \in Seats(p) : ToHost(<<Answer(s, o.epoch, id)>>)
         /\ last' = [last EXCEPT ![p] = o.epoch]
  /\ UNCHANGED <<server, bounds, todo, started, conns, builds, outbox, toPlayer, pc, up,
                 armed>>

\* resetPeer: nothing under way on the connection ever settles.
ResetPeer(p) ==
  /\ pc' = [pc EXCEPT ![p] = 0] /\ up' = [up EXCEPT ![p] = FALSE]
  /\ applying' = [applying EXCEPT ![p] = <<>>]

PlayerReads(p) ==
  /\ toPlayer[p] # <<>>
  /\ toPlayer' = [toPlayer EXCEPT ![p] = Tail(@)]
  /\ LET m == Head(toPlayer[p]) IN
     IF m.type = "offer" THEN TakesOffer(p, m) ELSE ResetPeer(p)
  /\ UNCHANGED <<server, bounds, host, last, armed>>

MediaUp(p) ==
  /\ ~up[p] /\ Agreed(p) /\ applying[p] = <<>>
  /\ up' = [up EXCEPT ![p] = TRUE] /\ armed' = [armed EXCEPT ![p] = FALSE]
  /\ UNCHANGED <<server, bounds, host, toPlayer, pc, last, applying>>

\* A peer connection without its counterpart fails in the end, and
\* scheduleMediaRecover sets its timer.  ICE gives up after tens of seconds,
\* when every message on its way has been read.
MediaFails(p) ==
  /\ pc[p] # 0 /\ ~Agreed(p) /\ applying[p] = <<>> /\ ~armed[p]
  /\ inbox = <<>> /\ todo = <<>> /\ toPlayer[p] = <<>>
  /\ outbox = <<>> \/ link # "live"
  /\ up' = [up EXCEPT ![p] = FALSE] /\ armed' = [armed EXCEPT ![p] = TRUE]
  /\ UNCHANGED <<server, bounds, host, toPlayer, pc, last, applying>>

\* The timer fires, whatever has come in the meantime; resetPeer does not
\* clear it.
MediaRecover(p) ==
  /\ armed[p] /\ armed' = [armed EXCEPT ![p] = FALSE]
  /\ ResetPeer(p)
  /\ \E s \in Seats(p) : ToHost(<<RequestOffer(s)>>)
  /\ UNCHANGED <<server, bounds, todo, started, conns, builds, outbox,
                 toPlayer, last>>

Host == HostWaits \/ HostHandles \/ HostCoalesces \/ HostCatchesUp
Player(p) ==
  PlayerReads(p) \/ AnswersOffer(p) \/ MediaUp(p) \/ MediaFails(p) \/ MediaRecover(p)

Environment ==
  \/ \E p \in Players : PlayerJoins(p)
  \/ \E p \in Players : PlayerLeaves(p)
  \/ LinkBreaks \/ ServerRestarts

Next == Environment \/ ServerNotices \/ HostRegisters \/ Relay \/ Host
          \/ \E p \in Players : Player(p)

Spec == Init /\ [][Next]_vars

\* The supervisor reconnects for ever; the server, the host's loop and each
\* player read what they are sent.  Nobody has to join, leave or fail.
FairSpec ==
  /\ Spec
  /\ WF_vars(HostRegisters) /\ WF_vars(Relay) /\ WF_vars(Host)
  /\ \A p \in Players : WF_vars(Player(p))

-----------------------------------------------------------------------------
(***************************************************************************)
(* Properties.                                                             *)
(***************************************************************************)
\* Every message has been read and the host is registered.
Quiet ==
  /\ link = "live" /\ inbox = <<>> /\ todo = <<>> /\ outbox = <<>>
  /\ \A p \in Players : toPlayer[p] = <<>>

\* Once everything sent has been read, whatever rejoins, bursts and breaks of
\* the host's link came before, the host's peer for every seated player is
\* one built for that player's registration or later, and the player holds a
\* peer connection: it waits for no offer that nobody is going to make
\* (handle_slot_join, take_queued_joins, replay_for_host).
Served ==
  restarts = 0 /\ Quiet =>
    \A s \in Seated : conns[s].attached >= joined[s] /\ pc[seat[s]] # 0

\* A player that stays seated while the server stays up ends connected to the
\* host's peer for its slot, through every break of the host's link, stale
\* offer and stale answer.
Connects ==
  \A p \in Players :
    <>[](Seats(p) # {} /\ restarts = 0) => <>[](up[p] /\ Agreed(p))

=============================================================================
