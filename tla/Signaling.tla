----------------------------- MODULE Signaling -----------------------------
(***************************************************************************)
(* The signaling server (crates/signaling): one entry of SessionStore with *)
(* its PlayerTable, and one websocket task (ws.rs handle_socket) per       *)
(* connection.  A handler takes the entry's lock several times; each stay  *)
(* under the lock is one step here, so tasks interleave between them as    *)
(* they do on the multi-threaded runtime.                                  *)
(*                                                                         *)
(* A socket is the identity of its mpsc channel (same_channel); it serves  *)
(* one client, which registers in one role, and is not used again once     *)
(* closed.  Of what is put into a host's channel it keeps the newest       *)
(* PeerJoined epoch per slot; what a PeerLeft does to the host's peers is  *)
(* in Session, and of relayed messages only who gets them under which slot *)
(* is kept.  PlayersStatus, pad kinds and the broadcasts to players are    *)
(* shown, not acted on, by any part modelled here, and are left out.       *)
(***************************************************************************)
EXTENDS Naturals, FiniteSets

CONSTANTS
  HostSocks,      \* websocket connections opened by host processes
  PlayerSocks,    \* websocket connections opened by players
  None,           \* the empty Option
  Pins,           \* PINs a client may present
  MaxPlayers,     \* players.rs MAX_PLAYERS
  MaxPinFailures, \* SessionStore.max_pin_failures
  MaxEpoch,       \* u64::MAX, where saturating_add leaves the table epoch
  MaxSweeps       \* bound: how often the session expires

Socks == HostSocks \cup PlayerSocks
Slots == 1..MaxPlayers

ASSUME SignalingAssumption ==
  /\ HostSocks \cap PlayerSocks = {}
  /\ None \notin Socks /\ None \notin Pins
  /\ MaxPlayers \in Nat \ {0}
  /\ MaxPinFailures \in Nat \ {0}
  /\ MaxEpoch \in Nat \ {0} /\ MaxSweeps \in Nat

VARIABLES
  exists, pin,       \* the DashMap entry and Session.pin
  host, slots,       \* Session.host.tx and PlayerTable.slots
  epoch,             \* PlayerTable.epoch
  failures, locked,  \* Session.pin_failures, locked_until in the future
  idle,              \* last_activity is older than the session TTL
  doomed,            \* sweep_expired has collected the id, not yet removed it
  sweeps, evicted,   \* history: completed sweeps, sockets they unseated
  task,              \* where each socket's handler stands
  role, mySlot,      \* handle_socket's locals
  myEpoch, pend,     \* epoch to announce; replay list still to be sent
  gone,              \* the receive loop has ended
  announced          \* newest PeerJoined epoch put in a channel, per slot

storeVars == <<exists, pin, host, slots, epoch, failures, locked, idle>>
sweepVars == <<doomed, sweeps, evicted>>
localVars == <<role, mySlot, myEpoch, pend, gone>>
chanVars  == <<announced>>
vars == <<storeVars, sweepVars, task, localVars, chanVars>>

Announcement == [slot : Slots, epoch : 1..MaxEpoch]
Tasks == {"idle", "pinFail", "joinHost", "replay", "replaySend", "leftHost",
          "closed"}

TypeOK ==
  /\ exists \in BOOLEAN /\ pin \in Pins \cup {None}
  /\ host \in HostSocks \cup {None}
  /\ slots \in [Slots -> PlayerSocks \cup {None}]
  /\ epoch \in 0..MaxEpoch
  /\ failures \in 0..(MaxPinFailures - 1)
  /\ locked \in BOOLEAN /\ idle \in BOOLEAN /\ doomed \in BOOLEAN
  /\ sweeps \in 0..MaxSweeps /\ evicted \subseteq Socks
  /\ task \in [Socks -> Tasks]
  /\ role \in [Socks -> {"none", "host", "player"}]
  /\ mySlot \in [Socks -> 0..MaxPlayers]
  /\ myEpoch \in [Socks -> 0..MaxEpoch]
  /\ pend \in [Socks -> SUBSET Announcement]
  /\ gone \in [Socks -> BOOLEAN]
  /\ announced \in [HostSocks -> [Slots -> 0..MaxEpoch]]

NoPlayers == [s \in Slots |-> None]
Nothing == [s \in Slots |-> 0]

Init ==
  /\ exists = FALSE /\ pin = None /\ host = None /\ slots = NoPlayers
  /\ epoch = 0 /\ failures = 0 /\ locked = FALSE /\ idle = FALSE
  /\ doomed = FALSE /\ sweeps = 0 /\ evicted = {}
  /\ task = [k \in Socks |-> "idle"]
  /\ role = [k \in Socks |-> "none"]
  /\ mySlot = [k \in Socks |-> 0] /\ myEpoch = [k \in Socks |-> 0]
  /\ pend = [k \in Socks |-> {}]
  /\ gone = [k \in Socks |-> FALSE]
  /\ announced = [h \in HostSocks |-> Nothing]

Goto(k, t) == task' = [task EXCEPT ![k] = t]

(***************************************************************************)
(* The player table.                                                       *)
(***************************************************************************)
Seats(k) == {s \in Slots : slots[s] = k}
Seated == {s \in Slots : slots[s] # None}
Occupied == Cardinality(Seated)

\* PlayerTable::assign takes the first None.
LowestFree(s) == slots[s] = None /\ \A t \in 1..(s - 1) : slots[t] # None

\* Mutant: a duplicate registration takes a second slot, as it did before
\* reassert.
SeatForNoReassert(k, s) == LowestFree(s)

\* The slot register_player hands out: reassert keeps a socket's own.
SeatFor(k, s) == slots[s] = k \/ (Seats(k) = {} /\ LowestFree(s))

\* n times epoch.saturating_add(1).
Bump(n) == IF epoch + n < MaxEpoch THEN epoch + n ELSE MaxEpoch

\* Mutant: the replay carries the epoch the table has, not one of its own.
ReplayEpochKept(s) == epoch

\* replay_for_host numbers the seated slots in table order.
ReplayEpoch(s) == Bump(Cardinality({t \in Seated : t <= s}))
\* Mutant: only the lowest seated slot is replayed, as with a single slot.
ReplayListLowest ==
  {[slot |-> s, epoch |-> ReplayEpoch(s)] :
     s \in {t \in Seated : \A u \in Seated : t <= u}}

ReplayList == {[slot |-> s, epoch |-> ReplayEpoch(s)] : s \in Seated}

(***************************************************************************)
(* Messages to whichever socket is the host now (peer_tx then send).  The  *)
(* host ignores a PeerJoined that is not newer than the peer it holds.     *)
(***************************************************************************)
Newer(old, e) == IF e > old THEN e ELSE old

SendJoined(s, e) ==
  announced' = IF host = None THEN announced
               ELSE [announced EXCEPT ![host][s] = Newer(@, e)]

(***************************************************************************)
(* Relaying.  What a player's task hands to the host, be it an answer, a   *)
(* candidate, a pad, a present path, link statistics, a request for an     *)
(* offer or a split-screen setting, carries the slot the task remembers,   *)
(* whatever slot the client wrote; an offer or candidate of the host goes  *)
(* to whoever the table has in the slot it names.                          *)
(***************************************************************************)
Stamps(k, s) == role[k] = "player" /\ ~gone[k] /\ mySlot[k] = s
Routes(s, k) == slots[s] = k

(***************************************************************************)
(* Registration.  A refusal that changes nothing (locked, unknown session, *)
(* session full) is a stuttering step and has no action.                   *)
(***************************************************************************)
HostRegisters(k, p) ==
  /\ task[k] = "idle"
  /\ exists => ~locked /\ pin = p
  /\ exists' = TRUE /\ pin' = p
  /\ host' = k /\ idle' = FALSE
  /\ role' = [role EXCEPT ![k] = "host"]
  /\ evicted' = evicted \ {k}
  /\ Goto(k, "replay")
  /\ UNCHANGED <<slots, epoch, failures, locked, doomed, sweeps,
                 mySlot, myEpoch, pend, gone, chanVars>>

PlayerRegisters(k, p) ==
  /\ task[k] = "idle"
  /\ exists /\ ~locked /\ pin = p
  /\ \E s \in Slots :
       /\ SeatFor(k, s)
       /\ slots' = [slots EXCEPT ![s] = k]
       /\ mySlot' = [mySlot EXCEPT ![k] = s]
  /\ epoch' = Bump(1)
  /\ myEpoch' = [myEpoch EXCEPT ![k] = Bump(1)]
  /\ role' = [role EXCEPT ![k] = "player"]
  /\ idle' = FALSE
  /\ evicted' = evicted \ {k}
  /\ Goto(k, "joinHost")
  /\ UNCHANGED <<exists, pin, host, failures, locked, doomed, sweeps,
                 pend, gone, chanVars>>

\* The entry lock is dropped before record_pin_failure takes it again.
WrongPin(k, p) ==
  /\ task[k] = "idle"
  /\ exists /\ ~locked /\ pin # p
  /\ Goto(k, "pinFail")
  /\ UNCHANGED <<storeVars, sweepVars, localVars, chanVars>>

\* Mutant: the counter is not reset when the lockout starts.
RecordPinFailureNoReset(k) ==
  /\ task[k] = "pinFail"
  /\ failures' = IF exists THEN failures + 1 ELSE failures
  /\ locked' = (locked \/ (exists /\ failures + 1 >= MaxPinFailures))
  /\ Goto(k, "idle")
  /\ UNCHANGED <<exists, pin, host, slots, epoch, idle, sweepVars,
                 localVars, chanVars>>

RecordPinFailure(k) ==
  /\ task[k] = "pinFail"
  /\ IF exists /\ failures + 1 >= MaxPinFailures
     THEN failures' = 0 /\ locked' = TRUE
     ELSE /\ failures' = IF exists THEN failures + 1 ELSE failures
          /\ UNCHANGED locked
  /\ Goto(k, "idle")
  /\ UNCHANGED <<exists, pin, host, slots, epoch, idle, sweepVars,
                 localVars, chanVars>>

(***************************************************************************)
(* What a registration handler does after the lock is released.            *)
(***************************************************************************)
AnnounceJoin(k) ==
  /\ task[k] = "joinHost"
  /\ SendJoined(mySlot[k], myEpoch[k])
  /\ Goto(k, "idle")
  /\ UNCHANGED <<storeVars, sweepVars, localVars>>

SeatedReplay(k) ==
  /\ task[k] = "replay"
  /\ epoch' = Bump(Occupied)
  /\ pend' = [pend EXCEPT ![k] = ReplayList]
  /\ Goto(k, "replaySend")
  /\ UNCHANGED <<exists, pin, host, slots, failures, locked, idle, sweepVars,
                 role, mySlot, myEpoch, gone, chanVars>>

ReplaySend(k) ==
  /\ task[k] = "replaySend"
  /\ \E j \in pend[k] :
       /\ \A i \in pend[k] : j.slot <= i.slot
       /\ SendJoined(j.slot, j.epoch)
       /\ pend' = [pend EXCEPT ![k] = @ \ {j}]
  /\ UNCHANGED <<storeVars, sweepVars, task, role, mySlot, myEpoch, gone>>

ReplayDone(k) ==
  /\ task[k] = "replaySend" /\ pend[k] = {}
  /\ Goto(k, "idle")
  /\ UNCHANGED <<storeVars, sweepVars, localVars, chanVars>>

(***************************************************************************)
(* A socket closes: unregister, then the messages about it.                *)
(***************************************************************************)
\* Mutant: the role is cleared without comparing channels.
CloseHostUnchecked(k) ==
  /\ task[k] = "idle" /\ role[k] = "host"
  /\ host' = None /\ idle' = FALSE
  /\ gone' = [gone EXCEPT ![k] = TRUE]
  /\ Goto(k, "closed")
  /\ UNCHANGED <<exists, pin, slots, epoch, failures, locked, sweepVars,
                 role, mySlot, myEpoch, pend, chanVars>>

CloseHost(k) ==
  /\ task[k] = "idle" /\ role[k] = "host"
  /\ IF host = k
     THEN host' = None /\ idle' = FALSE
     ELSE UNCHANGED <<host, idle>>
  /\ gone' = [gone EXCEPT ![k] = TRUE]
  /\ Goto(k, "closed")
  /\ UNCHANGED <<exists, pin, slots, epoch, failures, locked, sweepVars,
                 role, mySlot, myEpoch, pend, chanVars>>

ClosePlayer(k) ==
  /\ task[k] = "idle" /\ role[k] = "player"
  /\ \/ /\ Seats(k) = {}
        /\ Goto(k, "closed")
        /\ UNCHANGED <<slots, idle, mySlot>>
     \/ \E s \in Seats(k) :
          /\ slots' = [slots EXCEPT ![s] = None]
          /\ mySlot' = [mySlot EXCEPT ![k] = s]
          /\ idle' = FALSE
          /\ Goto(k, "leftHost")
  /\ gone' = [gone EXCEPT ![k] = TRUE]
  /\ UNCHANGED <<exists, pin, host, epoch, failures, locked, sweepVars,
                 role, myEpoch, pend, chanVars>>

CloseUnregistered(k) ==
  /\ task[k] = "idle" /\ role[k] = "none"
  /\ gone' = [gone EXCEPT ![k] = TRUE]
  /\ Goto(k, "closed")
  /\ UNCHANGED <<storeVars, sweepVars, role, mySlot, myEpoch, pend,
                 chanVars>>

\* PeerLeft, sent after the lock was released.
AnnounceLeft(k) ==
  /\ task[k] = "leftHost"
  /\ Goto(k, "closed")
  /\ UNCHANGED <<storeVars, sweepVars, localVars, chanVars>>

(***************************************************************************)
(* Time: heartbeats, the lockout, and the periodic sweep.                  *)
(***************************************************************************)
Heartbeat(k) ==
  /\ task[k] = "idle" /\ role[k] # "none"
  /\ exists /\ idle
  /\ idle' = FALSE
  /\ UNCHANGED <<exists, pin, host, slots, epoch, failures, locked, sweepVars,
                 task, localVars, chanVars>>

\* Idleness is read by the sweep alone, so it may grow while one can come.
GrowIdle ==
  /\ exists /\ ~idle /\ sweeps < MaxSweeps
  /\ idle' = TRUE
  /\ UNCHANGED <<exists, pin, host, slots, epoch, failures, locked, sweepVars,
                 task, localVars, chanVars>>

LockExpires ==
  /\ locked
  /\ locked' = FALSE
  /\ UNCHANGED <<exists, pin, host, slots, epoch, failures, idle, sweepVars,
                 task, localVars, chanVars>>

SweepCollect ==
  /\ ~doomed /\ sweeps < MaxSweeps
  /\ exists /\ idle /\ host = None /\ Seated = {}
  /\ doomed' = TRUE
  /\ UNCHANGED <<storeVars, sweeps, evicted, task, localVars, chanVars>>

\* The ids were collected earlier; the entry is removed as it is now.
SweepRemove ==
  /\ doomed
  /\ doomed' = FALSE /\ sweeps' = sweeps + 1
  /\ evicted' = evicted \cup {k \in Socks : host = k \/ Seats(k) # {}}
  /\ exists' = FALSE /\ pin' = None /\ host' = None /\ slots' = NoPlayers
  /\ epoch' = 0 /\ failures' = 0 /\ locked' = FALSE /\ idle' = FALSE
  /\ UNCHANGED <<task, localVars, chanVars>>

(***************************************************************************)
(* A handler, once entered, runs on its own; what starts one, and time,    *)
(* come from outside.                                                      *)
(***************************************************************************)
Handler(k) ==
  \/ RecordPinFailure(k) \/ AnnounceJoin(k)
  \/ SeatedReplay(k) \/ ReplaySend(k) \/ ReplayDone(k)
  \/ AnnounceLeft(k)

Client ==
  \/ \E k \in HostSocks, p \in Pins : HostRegisters(k, p)
  \/ \E k \in PlayerSocks, p \in Pins : PlayerRegisters(k, p)
  \/ \E k \in Socks, p \in Pins : WrongPin(k, p)
  \/ \E k \in Socks : CloseHost(k)
  \/ \E k \in Socks : ClosePlayer(k)
  \/ \E k \in Socks : CloseUnregistered(k)
  \/ \E k \in Socks : Heartbeat(k)

Clock == GrowIdle \/ LockExpires \/ SweepCollect \/ SweepRemove

Next == Client \/ Clock \/ \E k \in Socks : Handler(k)

Spec == Init /\ [][Next]_vars

-----------------------------------------------------------------------------
(***************************************************************************)
(* Properties.                                                             *)
(***************************************************************************)

\* No cross-talk between players.  What the host sends to a slot reaches a task
\* that stamps its replies with that slot and no other, and what the host gets
\* stamped with a slot comes from the socket its replies to that slot reach,
\* unless the sweep took the seat from under the sender (ws.rs player_slot,
\* which every relayed message carries, against the table it is routed by).
SeatAgreement ==
  \A k \in PlayerSocks, s \in Slots :
    /\ Routes(s, k) => Stamps(k, s)
    /\ Stamps(k, s) /\ k \notin evicted => Routes(s, k)

\* No seated player is left waiting for an offer nobody knows to make: once
\* its handler and the current host's handler are done, the host's channel
\* carries a PeerJoined for the seat at least as new as the player's own
\* registration, whoever came first and whatever happened in between
\* (ws.rs RegisterPlayer's announcement and RegisterHost's replay).
NobodyStranded ==
  \A s \in Slots :
    slots[s] # None /\ host # None =>
      (task[slots[s]] = "idle" /\ task[host] = "idle" =>
         announced[host][s] >= myEpoch[slots[s]])

\* The PeerJoined messages still to be sent, of a player's own handler and of
\* every host's replay list.
Waiting(k) ==
  pend[k] \cup
    (IF task[k] = "joinHost"
     THEN {[slot |-> mySlot[k], epoch |-> myEpoch[k]]} ELSE {})

\* Until the counter saturates, no two announcements carry the same epoch, and
\* none that is still to be sent repeats one that was sent: a host that
\* ignores what is not newer than its peer never mistakes a new occupant for
\* the old one (players.rs assign, reassert and replay_for_host).
EpochsDistinct ==
  sweeps = 0 /\ epoch < MaxEpoch =>
    /\ \A k, q \in Socks : \A i \in Waiting(k), j \in Waiting(q) :
         i.epoch = j.epoch => k = q /\ i = j
    /\ \A k \in Socks, h \in HostSocks, s \in Slots : \A i \in Waiting(k) :
         announced[h][s] # i.epoch

\* A host loses the host role only to its own close, to another host's
\* registration, or to the sweep: the late close of a replaced socket never
\* wipes the live one (session.rs unregister, same_channel).
HostRoleKept ==
  [][host # None /\ host' = None => gone'[host] \/ sweeps' # sweeps]_vars

=============================================================================
