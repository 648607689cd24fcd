-------------------------- MODULE SignalingProofs --------------------------
(***************************************************************************)
(* Theorems about Signaling, for any sockets, PINs, number of seats and    *)
(* any number of expiries.                                                 *)
(***************************************************************************)
EXTENDS Signaling, FiniteSetTheorems, TLAPS

-----------------------------------------------------------------------------
(***************************************************************************)
(* Counting seats.                                                         *)
(***************************************************************************)

\* A slot number also fits the socket's own copy of it, which starts at 0.
LEMMA SlotRange == Slots \subseteq 0..MaxPlayers /\ Slots \subseteq Nat
BY SignalingAssumption DEF Slots

\* Some of the seats are counted by a number between 0 and MAX_PLAYERS.
LEMMA SeatCount ==
  ASSUME NEW S \in SUBSET Slots
  PROVE  IsFiniteSet(S) /\ Cardinality(S) \in 0..MaxPlayers
<1>1. MaxPlayers \in Nat
  BY SignalingAssumption
<1>2. IsFiniteSet(Slots) /\ Cardinality(Slots) = MaxPlayers
  BY <1>1, FS_Interval DEF Slots
<1>3. IsFiniteSet(S) /\ Cardinality(S) <= Cardinality(Slots)
  BY <1>2, FS_Subset
<1>4. Cardinality(S) \in Nat
  BY <1>3, FS_CardinalityType
<1>5. QED
  BY <1>1, <1>2, <1>3, <1>4

\* The saturating epoch stays in its range and never goes back
\* (players.rs: epoch.saturating_add).
LEMMA BumpGrows ==
  ASSUME TypeOK, NEW n \in Nat
  PROVE  Bump(n) \in 0..MaxEpoch /\ Bump(n) >= epoch
BY SignalingAssumption DEF Bump, TypeOK

\* Every announced epoch is at least 1: PeerJoined epoch 0 is never sent.
LEMMA BumpPositive ==
  ASSUME TypeOK, NEW n \in Nat \ {0}
  PROVE  Bump(n) \in 1..MaxEpoch
BY SignalingAssumption DEF Bump, TypeOK

\* A seated slot is counted in its own replay position.
LEMMA ReplayEpochGrows ==
  ASSUME TypeOK, NEW s \in Seated
  PROVE  ReplayEpoch(s) \in 1..MaxEpoch /\ ReplayEpoch(s) >= epoch
<1> DEFINE T == {t \in Seated : t <= s}
<1>1. T \in SUBSET Slots /\ s \in T
  BY SignalingAssumption DEF Seated, Slots
<1>2. IsFiniteSet(T) /\ Cardinality(T) \in Nat
  BY <1>1, SeatCount
<1>3. Cardinality(T) # 0
  BY <1>1, <1>2, FS_EmptySet
<1>4. QED
  BY <1>2, <1>3, BumpGrows, BumpPositive DEF ReplayEpoch

\* The replay list is a set of well-formed announcements.
LEMMA ReplayListType ==
  ASSUME TypeOK
  PROVE  ReplayList \in SUBSET Announcement
BY ReplayEpochGrows DEF ReplayList, Announcement, Seated

-----------------------------------------------------------------------------
(***************************************************************************)
(* Type correctness.                                                       *)
(***************************************************************************)

\* A PeerJoined put in the host's channel keeps the channel tables typed.
LEMMA SendJoinedType ==
  ASSUME TypeOK, NEW s \in Slots, NEW e \in 0..MaxEpoch, SendJoined(s, e)
  PROVE  announced' \in [HostSocks -> [Slots -> 0..MaxEpoch]]
<1>1. CASE host = None
  BY <1>1 DEF SendJoined, TypeOK
<1>2. CASE host # None
  <2>1. host \in HostSocks
    BY <1>2 DEF TypeOK
  <2>2. Newer(announced[host][s], e) \in 0..MaxEpoch
    BY <2>1 DEF Newer, TypeOK
  <2>3. announced' = [announced EXCEPT ![host] =
                        [@ EXCEPT ![s] = Newer(announced[host][s], e)]]
    BY <1>2, <2>1 DEF SendJoined, TypeOK
  <2> QED
    BY <2>1, <2>2, <2>3 DEF TypeOK
<1>3. QED
  BY <1>1, <1>2

\* Where a handler stands fixes which locals it has set.
LocalsInv ==
  /\ \A k \in Socks : role[k] = "player" => k \in PlayerSocks /\ mySlot[k] \in Slots
  /\ \A k \in Socks : role[k] = "host" => k \in HostSocks
  /\ \A k \in Socks : task[k] \in {"joinHost", "leftHost"} => role[k] = "player"
  /\ \A k \in Socks : task[k] \in {"replay", "replaySend"} => role[k] = "host"
  /\ doomed => sweeps < MaxSweeps
  /\ \A k \in Socks : gone[k] => task[k] \in {"leftHost", "closed"}

\* The server starts with every table typed and no handler under way.
LEMMA InitTyped == Init => TypeOK /\ LocalsInv
<1> SUFFICES ASSUME Init PROVE TypeOK /\ LocalsInv
  OBVIOUS
<1>1. 0 \in 0..MaxEpoch /\ 0 \in 0..MaxPlayers /\ 0 \in 0..(MaxPinFailures - 1)
      /\ 0 \in 0..MaxSweeps
  BY SignalingAssumption
<1>2. LocalsInv
  BY DEF Init, LocalsInv
<1>3. Nothing \in [Slots -> 0..MaxEpoch] /\ NoPlayers \in [Slots -> {None}]
  BY <1>1 DEF Nothing, NoPlayers
<1>4. TypeOK
  BY <1>1, <1>3 DEF Init, TypeOK, Tasks, NoPlayers
<1>5. QED
  BY <1>2, <1>4

\* Each handler step, each client event and each tick of the clock keeps them
\* so.
LEMMA StepTyped == TypeOK /\ LocalsInv /\ [Next]_vars => TypeOK' /\ LocalsInv'
<1> SUFFICES ASSUME TypeOK, LocalsInv, [Next]_vars
             PROVE  TypeOK' /\ LocalsInv'
  OBVIOUS
<1> USE SignalingAssumption DEF storeVars, sweepVars, localVars, chanVars, Goto
<1>1. ASSUME NEW k \in HostSocks, NEW p \in Pins, HostRegisters(k, p)
      PROVE  TypeOK' /\ LocalsInv'
  <2>1. TypeOK'
    BY <1>1 DEF HostRegisters, TypeOK, Tasks, Socks
  <2>2. LocalsInv'
    BY <1>1 DEF HostRegisters, TypeOK, LocalsInv, Socks
  <2> QED
    BY <2>1, <2>2
<1>2. ASSUME NEW k \in PlayerSocks, NEW p \in Pins, PlayerRegisters(k, p)
      PROVE  TypeOK' /\ LocalsInv'
  <2>1. TypeOK'
    <3>1. PICK s \in Slots : slots' = [slots EXCEPT ![s] = k]
                             /\ mySlot' = [mySlot EXCEPT ![k] = s]
      BY <1>2 DEF PlayerRegisters
    <3>2. Bump(1) \in 0..MaxEpoch
      BY BumpGrows
    <3>3. /\ slots' \in [Slots -> PlayerSocks \cup {None}]
          /\ mySlot' \in [Socks -> 0..MaxPlayers]
      BY <3>1, SlotRange DEF TypeOK
    <3>4. epoch' \in 0..MaxEpoch /\ myEpoch' \in [Socks -> 0..MaxEpoch]
      BY <1>2, <3>2 DEF PlayerRegisters, TypeOK
    <3>5. /\ task' \in [Socks -> Tasks]
          /\ role' \in [Socks -> {"none", "host", "player"}]
          /\ evicted' \subseteq Socks
      BY <1>2 DEF PlayerRegisters, TypeOK, Tasks
    <3> QED
      BY <1>2, <3>3, <3>4, <3>5 DEF PlayerRegisters, TypeOK
  <2>2. LocalsInv'
    BY <1>2 DEF PlayerRegisters, TypeOK, LocalsInv, Socks
  <2> QED
    BY <2>1, <2>2
<1>3. ASSUME NEW k \in Socks, NEW p \in Pins, WrongPin(k, p)
      PROVE  TypeOK' /\ LocalsInv'
  <2>1. TypeOK'
    BY <1>3 DEF WrongPin, TypeOK, Tasks, Socks
  <2>2. LocalsInv'
    BY <1>3 DEF WrongPin, TypeOK, LocalsInv, Socks
  <2> QED
    BY <2>1, <2>2
<1>4. ASSUME NEW k \in Socks, CloseHost(k)
      PROVE  TypeOK' /\ LocalsInv'
  <2>1. TypeOK'
    BY <1>4 DEF CloseHost, TypeOK, Tasks, Socks
  <2>2. LocalsInv'
    BY <1>4 DEF CloseHost, TypeOK, LocalsInv, Socks
  <2> QED
    BY <2>1, <2>2
<1>5. ASSUME NEW k \in Socks, ClosePlayer(k)
      PROVE  TypeOK' /\ LocalsInv'
  <2>1. TypeOK'
    <3>1. /\ slots' \in [Slots -> PlayerSocks \cup {None}]
          /\ mySlot' \in [Socks -> 0..MaxPlayers]
          /\ idle' \in BOOLEAN
          /\ task' \in [Socks -> Tasks]
      <4>1. CASE Seats(k) = {}
        BY <1>5, <4>1 DEF ClosePlayer, TypeOK, Tasks
      <4>2. ASSUME NEW s \in Seats(k),
                   slots' = [slots EXCEPT ![s] = None],
                   mySlot' = [mySlot EXCEPT ![k] = s],
                   idle' = FALSE,
                   task' = [task EXCEPT ![k] = "leftHost"]
            PROVE  /\ slots' \in [Slots -> PlayerSocks \cup {None}]
                   /\ mySlot' \in [Socks -> 0..MaxPlayers]
                   /\ idle' \in BOOLEAN
                   /\ task' \in [Socks -> Tasks]
        <5>1. s \in Slots /\ s \in 0..MaxPlayers
          BY SlotRange DEF Seats
        <5>2. /\ slots' \in [Slots -> PlayerSocks \cup {None}]
              /\ mySlot' \in [Socks -> 0..MaxPlayers]
          BY <4>2, <5>1 DEF TypeOK
        <5> QED
          BY <4>2, <5>2 DEF TypeOK, Tasks
      <4>3. QED
        BY <1>5, <4>1, <4>2 DEF ClosePlayer
    <3>2. gone' \in [Socks -> BOOLEAN]
      BY <1>5 DEF ClosePlayer, TypeOK
    <3> QED
      BY <1>5, <3>1, <3>2 DEF ClosePlayer, TypeOK
  <2>2. LocalsInv'
    <3>1. CASE Seats(k) = {}
      BY <1>5, <3>1 DEF ClosePlayer, TypeOK, LocalsInv
    <3>2. ASSUME NEW s \in Seats(k),
                 mySlot' = [mySlot EXCEPT ![k] = s],
                 task' = [task EXCEPT ![k] = "leftHost"]
          PROVE  LocalsInv'
      <4>1. s \in Slots
        BY DEF Seats
      <4>2. role' = role /\ gone' = [gone EXCEPT ![k] = TRUE]
        BY <1>5 DEF ClosePlayer
      <4>3. role[k] = "player" /\ k \in PlayerSocks
        BY <1>5 DEF ClosePlayer, LocalsInv
      <4>4. doomed' = doomed /\ sweeps' = sweeps
        BY <1>5 DEF ClosePlayer
      <4>5. \A q \in Socks : q # k => /\ role'[q] = role[q]
                                     /\ mySlot'[q] = mySlot[q]
                                     /\ task'[q] = task[q]
                                     /\ gone'[q] = gone[q]
        BY <3>2, <4>2 DEF TypeOK
      <4>6. role'[k] = "player" /\ mySlot'[k] = s /\ task'[k] = "leftHost"
        BY <3>2, <4>2, <4>3 DEF TypeOK
      <4> QED
        BY <4>1, <4>3, <4>4, <4>5, <4>6 DEF LocalsInv
    <3>3. QED
      BY <1>5, <3>1, <3>2 DEF ClosePlayer
  <2> QED
    BY <2>1, <2>2
<1>6. ASSUME NEW k \in Socks, CloseUnregistered(k)
      PROVE  TypeOK' /\ LocalsInv'
  <2>1. TypeOK'
    BY <1>6 DEF CloseUnregistered, TypeOK, Tasks, Socks
  <2>2. LocalsInv'
    BY <1>6 DEF CloseUnregistered, TypeOK, LocalsInv, Socks
  <2> QED
    BY <2>1, <2>2
<1>7. ASSUME NEW k \in Socks, Heartbeat(k)
      PROVE  TypeOK' /\ LocalsInv'
  <2>1. TypeOK'
    BY <1>7 DEF Heartbeat, TypeOK, Tasks, Socks
  <2>2. LocalsInv'
    BY <1>7 DEF Heartbeat, TypeOK, LocalsInv, Socks
  <2> QED
    BY <2>1, <2>2
<1>8. ASSUME NEW k \in Socks, RecordPinFailure(k)
      PROVE  TypeOK' /\ LocalsInv'
  <2>1. TypeOK'
    <3>1. failures' \in 0..(MaxPinFailures - 1) /\ locked' \in BOOLEAN
      <4>1. CASE exists /\ failures + 1 >= MaxPinFailures
        BY <1>8, <4>1 DEF RecordPinFailure, TypeOK
      <4>2. CASE ~(exists /\ failures + 1 >= MaxPinFailures)
        <5>1. failures' = IF exists THEN failures + 1 ELSE failures
          BY <1>8, <4>2 DEF RecordPinFailure
        <5>2. locked' = locked
          BY <1>8, <4>2 DEF RecordPinFailure
        <5> QED
          BY <4>2, <5>1, <5>2 DEF TypeOK
      <4>3. QED
        BY <4>1, <4>2
    <3>2. task' \in [Socks -> Tasks]
      BY <1>8 DEF RecordPinFailure, TypeOK, Tasks
    <3> QED
      BY <1>8, <3>1, <3>2 DEF RecordPinFailure, TypeOK
  <2>2. LocalsInv'
    BY <1>8 DEF RecordPinFailure, TypeOK, LocalsInv, Socks
  <2> QED
    BY <2>1, <2>2
<1>9. ASSUME NEW k \in Socks, AnnounceJoin(k)
      PROVE  TypeOK' /\ LocalsInv'
  <2>1. TypeOK'
    <3>1. mySlot[k] \in Slots /\ myEpoch[k] \in 0..MaxEpoch
      BY <1>9 DEF AnnounceJoin, TypeOK, LocalsInv
    <3>2. announced' \in [HostSocks -> [Slots -> 0..MaxEpoch]]
      BY <1>9, <3>1, SendJoinedType DEF AnnounceJoin
    <3>3. task' \in [Socks -> Tasks]
      BY <1>9 DEF AnnounceJoin, TypeOK, Tasks
    <3> QED
      BY <1>9, <3>2, <3>3 DEF AnnounceJoin, TypeOK
  <2>2. LocalsInv'
    BY <1>9 DEF AnnounceJoin, TypeOK, LocalsInv, Socks
  <2> QED
    BY <2>1, <2>2
<1>10. ASSUME NEW k \in Socks, SeatedReplay(k)
      PROVE  TypeOK' /\ LocalsInv'
  <2>1. TypeOK'
    <3>1. Seated \in SUBSET Slots
      BY DEF Seated
    <3>2. Occupied \in Nat
      BY <3>1, SeatCount DEF Occupied
    <3>3. epoch' \in 0..MaxEpoch
      BY <1>10, <3>2, BumpGrows DEF SeatedReplay
    <3>4. pend' \in [Socks -> SUBSET Announcement]
      BY <1>10, ReplayListType DEF SeatedReplay, TypeOK
    <3>5. task' \in [Socks -> Tasks]
      BY <1>10 DEF SeatedReplay, TypeOK, Tasks
    <3> QED
      BY <1>10, <3>3, <3>4, <3>5 DEF SeatedReplay, TypeOK
  <2>2. LocalsInv'
    BY <1>10 DEF SeatedReplay, TypeOK, LocalsInv, Socks
  <2> QED
    BY <2>1, <2>2
<1>11. ASSUME NEW k \in Socks, ReplaySend(k)
      PROVE  TypeOK' /\ LocalsInv'
  <2>1. TypeOK'
    <3>1. PICK j \in pend[k] : SendJoined(j.slot, j.epoch)
                               /\ pend' = [pend EXCEPT ![k] = @ \ {j}]
      BY <1>11 DEF ReplaySend
    <3>2. j.slot \in Slots /\ j.epoch \in 0..MaxEpoch
      BY DEF TypeOK, Announcement
    <3>3. announced' \in [HostSocks -> [Slots -> 0..MaxEpoch]]
      BY <3>1, <3>2, SendJoinedType
    <3>4. pend' \in [Socks -> SUBSET Announcement]
      BY <3>1 DEF TypeOK
    <3> QED
      BY <1>11, <3>3, <3>4 DEF ReplaySend, TypeOK
  <2>2. LocalsInv'
    BY <1>11 DEF ReplaySend, TypeOK, LocalsInv, Socks
  <2> QED
    BY <2>1, <2>2
<1>12. ASSUME NEW k \in Socks, ReplayDone(k)
      PROVE  TypeOK' /\ LocalsInv'
  <2>1. TypeOK'
    BY <1>12 DEF ReplayDone, TypeOK, Tasks, Socks
  <2>2. LocalsInv'
    BY <1>12 DEF ReplayDone, TypeOK, LocalsInv, Socks
  <2> QED
    BY <2>1, <2>2
<1>13. ASSUME NEW k \in Socks, AnnounceLeft(k)
      PROVE  TypeOK' /\ LocalsInv'
  <2>1. TypeOK'
    BY <1>13 DEF AnnounceLeft, TypeOK, Tasks
  <2>2. LocalsInv'
    BY <1>13 DEF AnnounceLeft, TypeOK, LocalsInv, Socks
  <2> QED
    BY <2>1, <2>2
<1>14. CASE GrowIdle
  <2>1. TypeOK'
    BY <1>14 DEF GrowIdle, TypeOK, Tasks, NoPlayers
  <2>2. LocalsInv'
    BY <1>14 DEF GrowIdle, TypeOK, LocalsInv, Socks
  <2> QED
    BY <2>1, <2>2
<1>15. CASE LockExpires
  <2>1. TypeOK'
    BY <1>15 DEF LockExpires, TypeOK, Tasks, NoPlayers
  <2>2. LocalsInv'
    BY <1>15 DEF LockExpires, TypeOK, LocalsInv, Socks
  <2> QED
    BY <2>1, <2>2
<1>16. CASE SweepCollect
  <2>1. TypeOK'
    BY <1>16 DEF SweepCollect, TypeOK, Tasks, NoPlayers
  <2>2. LocalsInv'
    BY <1>16 DEF SweepCollect, TypeOK, LocalsInv, Socks
  <2> QED
    BY <2>1, <2>2
<1>17. CASE SweepRemove
  <2>1. TypeOK'
    <3>1. NoPlayers \in [Slots -> PlayerSocks \cup {None}]
      BY DEF NoPlayers
    <3>2. sweeps' \in 0..MaxSweeps
      BY <1>17 DEF SweepRemove, TypeOK, LocalsInv
    <3>3. 0 \in 0..MaxEpoch /\ 0 \in 0..(MaxPinFailures - 1)
      OBVIOUS
    <3> QED
      BY <1>17, <3>1, <3>2, <3>3 DEF SweepRemove, TypeOK
  <2>2. LocalsInv'
    BY <1>17 DEF SweepRemove, TypeOK, LocalsInv, Socks
  <2> QED
    BY <2>1, <2>2
<1>18. CASE UNCHANGED vars
  BY <1>18 DEF vars, TypeOK, LocalsInv
<1>19. QED
  BY <1>1, <1>2, <1>3, <1>4, <1>5, <1>6, <1>7, <1>8, <1>9, <1>10, <1>11, <1>12, <1>13, <1>14, <1>15, <1>16, <1>17, <1>18 DEF Next, Client, Clock, Handler

\* Every variable keeps its type, whatever the clients do (all of ws.rs,
\* session.rs and players.rs as modelled).
THEOREM TypeCorrect == Spec => [](TypeOK /\ LocalsInv)
BY InitTyped, StepTyped, PTL DEF Spec

-----------------------------------------------------------------------------
(***************************************************************************)
(* Seats.  SeatsKnown is inductive relative to the types and LocalsInv:    *)
(* a seat is taken only for the registering socket, which then remembers   *)
(* it, and given up only by the socket that remembers it or by the sweep,  *)
(* which records whom it unseats.                                          *)
(***************************************************************************)

\* What the table says and what each socket task remembers agree.
SeatsKnown ==
  /\ \A s \in Slots : slots[s] # None =>
       role[slots[s]] = "player" /\ mySlot[slots[s]] = s /\ ~gone[slots[s]]
  /\ \A k \in PlayerSocks :
       role[k] = "player" /\ ~gone[k] /\ k \notin evicted =>
         slots[mySlot[k]] = k

\* No socket holds two seats, since it remembers a single number.
LEMMA OneSeat ==
  ASSUME SeatsKnown, NEW k \in Socks, NEW s \in Seats(k), NEW t \in Seats(k)
  PROVE  s = t
BY SignalingAssumption DEF SeatsKnown, Seats

\* One step keeps the table and the sockets' memories in agreement.
LEMMA StepSeats ==
  TypeOK /\ LocalsInv /\ SeatsKnown /\ [Next]_vars => SeatsKnown'
<1> SUFFICES ASSUME TypeOK, LocalsInv, SeatsKnown, [Next]_vars
             PROVE  SeatsKnown'
  OBVIOUS
<1> USE SignalingAssumption DEF storeVars, sweepVars, localVars, chanVars, Goto
<1>1. ASSUME NEW k \in HostSocks, NEW p \in Pins, HostRegisters(k, p)
      PROVE  SeatsKnown'
  BY <1>1 DEF HostRegisters, SeatsKnown, TypeOK, LocalsInv, Socks
<1>2. ASSUME NEW k \in PlayerSocks, NEW p \in Pins, PlayerRegisters(k, p)
      PROVE  SeatsKnown'
  <2>1. PICK s \in Slots : /\ SeatFor(k, s)
                           /\ slots' = [slots EXCEPT ![s] = k]
                           /\ mySlot' = [mySlot EXCEPT ![k] = s]
    BY <1>2 DEF PlayerRegisters
  <2>2. \A t \in Slots : slots[t] = k => t = s
    <3>1. CASE slots[s] = k
      BY <3>1, OneSeat DEF Seats, Socks
    <3>2. CASE Seats(k) = {}
      BY <3>2 DEF Seats
    <3>3. QED
      BY <2>1, <3>1, <3>2 DEF SeatFor
  <2>3. slots[s] \in {k, None}
    BY <2>1 DEF SeatFor, LowestFree
  <2>4. /\ role' = [role EXCEPT ![k] = "player"]
        /\ gone' = gone
        /\ evicted' = evicted \ {k}
        /\ ~gone[k]
    BY <1>2 DEF PlayerRegisters, LocalsInv, Socks
  <2>5. \A t \in Slots : slots'[t] # None =>
           role'[slots'[t]] = "player" /\ mySlot'[slots'[t]] = t
             /\ ~gone'[slots'[t]]
    BY <2>1, <2>2, <2>4 DEF SeatsKnown, TypeOK, Socks
  <2>6. \A q \in PlayerSocks :
           role'[q] = "player" /\ ~gone'[q] /\ q \notin evicted' =>
             slots'[mySlot'[q]] = q
    BY <2>1, <2>3, <2>4 DEF SeatsKnown, TypeOK, Socks, LocalsInv
  <2> QED
    BY <2>5, <2>6 DEF SeatsKnown
<1>3. ASSUME NEW k \in Socks, NEW p \in Pins, WrongPin(k, p)
      PROVE  SeatsKnown'
  BY <1>3 DEF WrongPin, SeatsKnown, TypeOK, LocalsInv, Socks
<1>4. ASSUME NEW k \in Socks, CloseHost(k)
      PROVE  SeatsKnown'
  BY <1>4 DEF CloseHost, SeatsKnown, TypeOK, LocalsInv, Socks
<1>5. ASSUME NEW k \in Socks, ClosePlayer(k)
      PROVE  SeatsKnown'
  <2>1. CASE Seats(k) = {}
    BY <1>5, <2>1 DEF ClosePlayer, SeatsKnown, Seats, TypeOK, Socks
  <2>2. ASSUME NEW s \in Seats(k),
               slots' = [slots EXCEPT ![s] = None],
               mySlot' = [mySlot EXCEPT ![k] = s]
        PROVE  SeatsKnown'
    <3>1. \A t \in Slots : slots[t] = k => t = s
      BY OneSeat DEF Seats
    <3>2. s \in Slots /\ slots[s] = k
      BY DEF Seats
    <3>3. /\ role' = role /\ evicted' = evicted
          /\ gone' = [gone EXCEPT ![k] = TRUE]
      BY <1>5 DEF ClosePlayer
    <3>4. \A t \in Slots : slots'[t] # None =>
             role'[slots'[t]] = "player" /\ mySlot'[slots'[t]] = t
               /\ ~gone'[slots'[t]]
      BY <2>2, <3>1, <3>2, <3>3 DEF SeatsKnown, TypeOK, Socks
    <3>5. \A q \in PlayerSocks :
             role'[q] = "player" /\ ~gone'[q] /\ q \notin evicted' =>
               slots'[mySlot'[q]] = q
      BY <2>2, <3>2, <3>3 DEF SeatsKnown, TypeOK, Socks, LocalsInv
    <3> QED
      BY <3>4, <3>5 DEF SeatsKnown
  <2>3. QED
    BY <1>5, <2>1, <2>2 DEF ClosePlayer
<1>6. ASSUME NEW k \in Socks, CloseUnregistered(k)
      PROVE  SeatsKnown'
  BY <1>6 DEF CloseUnregistered, SeatsKnown, TypeOK, LocalsInv, Socks
<1>7. ASSUME NEW k \in Socks, Heartbeat(k)
      PROVE  SeatsKnown'
  BY <1>7 DEF Heartbeat, SeatsKnown, TypeOK, LocalsInv, Socks
<1>8. ASSUME NEW k \in Socks, RecordPinFailure(k)
      PROVE  SeatsKnown'
  BY <1>8 DEF RecordPinFailure, SeatsKnown, TypeOK, LocalsInv, Socks
<1>9. ASSUME NEW k \in Socks, AnnounceJoin(k)
      PROVE  SeatsKnown'
  BY <1>9 DEF AnnounceJoin, SeatsKnown, TypeOK, LocalsInv, Socks
<1>10. ASSUME NEW k \in Socks, SeatedReplay(k)
      PROVE  SeatsKnown'
  BY <1>10 DEF SeatedReplay, SeatsKnown, TypeOK, LocalsInv, Socks
<1>11. ASSUME NEW k \in Socks, ReplaySend(k)
      PROVE  SeatsKnown'
  BY <1>11 DEF ReplaySend, SeatsKnown, TypeOK, LocalsInv, Socks
<1>12. ASSUME NEW k \in Socks, ReplayDone(k)
      PROVE  SeatsKnown'
  BY <1>12 DEF ReplayDone, SeatsKnown, TypeOK, LocalsInv, Socks
<1>13. ASSUME NEW k \in Socks, AnnounceLeft(k)
      PROVE  SeatsKnown'
  BY <1>13 DEF AnnounceLeft, SeatsKnown, TypeOK, LocalsInv, Socks
<1>14. CASE GrowIdle
  BY <1>14 DEF GrowIdle, SeatsKnown, TypeOK, LocalsInv, NoPlayers, Seats, Socks
<1>15. CASE LockExpires
  BY <1>15 DEF LockExpires, SeatsKnown, TypeOK, LocalsInv, NoPlayers, Seats, Socks
<1>16. CASE SweepCollect
  BY <1>16 DEF SweepCollect, SeatsKnown, TypeOK, LocalsInv, NoPlayers, Seats, Socks
<1>17. CASE SweepRemove
  BY <1>17 DEF SweepRemove, SeatsKnown, TypeOK, LocalsInv, NoPlayers, Seats, Socks
<1>18. CASE UNCHANGED vars
  BY <1>18 DEF vars, SeatsKnown
<1>19. QED
  BY <1>1, <1>2, <1>3, <1>4, <1>5, <1>6, <1>7, <1>8, <1>9, <1>10, <1>11, <1>12, <1>13, <1>14, <1>15, <1>16, <1>17, <1>18 DEF Next, Client, Clock, Handler

\* The table and the sockets' memories of their seats always agree (the seats
\* of ws.rs handle_socket and of players.rs).
THEOREM SeatsStayKnown == Spec => []SeatsKnown
<1>1. Init => SeatsKnown
  BY DEF Init, SeatsKnown, NoPlayers, Socks
<1>2. QED
  BY <1>1, StepSeats, TypeCorrect, PTL DEF Spec

\* Nothing a player says is ever attributed to another, and nothing meant for
\* one reaches another, for any number of players, seats and expiries
\* (SeatAgreement in Signaling).
THEOREM SeatsAgree == Spec => []SeatAgreement
<1>1. SeatsKnown => SeatAgreement
  <2> SUFFICES ASSUME SeatsKnown, NEW k \in PlayerSocks, NEW s \in Slots
               PROVE  /\ Routes(s, k) => Stamps(k, s)
                      /\ Stamps(k, s) /\ k \notin evicted => Routes(s, k)
    BY DEF SeatAgreement
  <2>1. k # None
    BY SignalingAssumption DEF Socks
  <2>2. QED
    BY <2>1 DEF SeatsKnown, Routes, Stamps
<1>2. QED
  BY <1>1, SeatsStayKnown, PTL

-----------------------------------------------------------------------------
(***************************************************************************)
(* No seated player is stranded.  The invariant a step preserves says who  *)
(* still owes the announcement: the player's own handler, the host's       *)
(* handler before it takes the replay list, or an entry of that list.      *)
(***************************************************************************)
Owed(s, h) ==
  \/ task[slots[s]] = "joinHost"
  \/ task[h] = "replay"
  \/ \E j \in pend[h] : j.slot = s /\ j.epoch >= myEpoch[slots[s]]

AnnouncedOrOwed ==
  /\ \A k \in Socks : pend[k] # {} => task[k] = "replaySend"
  /\ \A s \in Slots : slots[s] # None => myEpoch[slots[s]] <= epoch
  /\ \A s \in Slots : slots[s] # None /\ host # None =>
       announced[host][s] >= myEpoch[slots[s]] \/ Owed(s, host)

\* The invariant gives NobodyStranded: an idle handler owes nothing.
LEMMA OwedByNobodyIdle == TypeOK /\ AnnouncedOrOwed => NobodyStranded
<1> SUFFICES ASSUME TypeOK, AnnouncedOrOwed,
                    NEW s \in Slots, slots[s] # None, host # None,
                    task[slots[s]] = "idle", task[host] = "idle"
             PROVE  announced[host][s] >= myEpoch[slots[s]]
  BY DEF NobodyStranded
<1>1. host \in Socks
  BY DEF TypeOK, Socks
<1>2. pend[host] = {}
  BY <1>1 DEF AnnouncedOrOwed
<1>3. ~Owed(s, host)
  BY <1>2 DEF Owed
<1>4. QED
  BY <1>3 DEF AnnouncedOrOwed

\* Sending a PeerJoined never lowers what the channel announces, and announces
\* at least what it sends.
LEMMA SendJoinedGrows ==
  ASSUME TypeOK, NEW s \in Slots, NEW e \in 0..MaxEpoch, SendJoined(s, e),
         host # None
  PROVE  /\ announced'[host][s] >= e
         /\ \A t \in Slots : announced'[host][t] >= announced[host][t]
<1>1. host \in HostSocks
  BY DEF TypeOK
<1>2. announced' = [announced EXCEPT ![host] =
                      [@ EXCEPT ![s] = Newer(announced[host][s], e)]]
  BY <1>1 DEF SendJoined, TypeOK
<1>3. \A t \in Slots : announced[host][t] \in 0..MaxEpoch
  BY <1>1 DEF TypeOK
<1>4. announced'[host] = [announced[host] EXCEPT ![s] =
                            Newer(announced[host][s], e)]
  BY <1>1, <1>2 DEF TypeOK
<1>5. announced'[host][s] = Newer(announced[host][s], e)
  BY <1>1, <1>4 DEF TypeOK
<1>6. \A t \in Slots : t # s => announced'[host][t] = announced[host][t]
  BY <1>1, <1>4 DEF TypeOK
<1>7. QED
  BY <1>3, <1>5, <1>6 DEF Newer

\* A step that leaves the announcements and the table alone, and moves no
\* handler out of a stage that owes one, preserves the invariant.
LEMMA QuietStep ==
  ASSUME TypeOK, AnnouncedOrOwed,
         slots' = slots, epoch' = epoch, myEpoch' = myEpoch, pend' = pend,
         announced' = announced, host' \in {host, None},
         \A q \in Socks : task[q] \in {"joinHost", "replay", "replaySend"} =>
                            task'[q] = task[q]
  PROVE  AnnouncedOrOwed'
<1>1. \A s \in Slots : slots[s] # None => slots[s] \in Socks
  BY DEF TypeOK, Socks
<1>2. host # None => host \in Socks
  BY DEF TypeOK, Socks
<1>3. \A k \in Socks : pend'[k] # {} => task'[k] = "replaySend"
  BY DEF AnnouncedOrOwed
<1>4. \A s \in Slots : slots'[s] # None /\ host' # None =>
        announced'[host'][s] >= myEpoch'[slots'[s]] \/ Owed(s, host)'
  BY <1>1, <1>2 DEF AnnouncedOrOwed, Owed
<1>5. QED
  BY <1>3, <1>4 DEF AnnouncedOrOwed

\* Each step keeps every occupied seat announced to the host or owed by a
\* handler that is still under way.
LEMMA StepOwed ==
  TypeOK /\ LocalsInv /\ SeatsKnown /\ AnnouncedOrOwed /\ [Next]_vars
    => AnnouncedOrOwed'
<1> SUFFICES ASSUME TypeOK, LocalsInv, SeatsKnown, AnnouncedOrOwed,
                    [Next]_vars
             PROVE  AnnouncedOrOwed'
  OBVIOUS
<1> USE SignalingAssumption DEF storeVars, sweepVars, localVars, chanVars, Goto
<1>0. /\ \A s \in Slots : slots[s] # None => slots[s] \in Socks /\ slots[s] \in PlayerSocks
      /\ host # None => host \in Socks /\ host \in HostSocks
  BY DEF TypeOK, Socks
<1>1. ASSUME NEW k \in HostSocks, NEW p \in Pins, HostRegisters(k, p)
      PROVE  AnnouncedOrOwed'
  <2>1. \A q \in Socks : pend'[q] # {} => task'[q] = "replaySend"
    BY <1>1 DEF HostRegisters, AnnouncedOrOwed, TypeOK, Socks
  <2>2. host' = k /\ task'[k] = "replay"
    BY <1>1 DEF HostRegisters, TypeOK, Socks
  <2>3. slots' = slots /\ myEpoch' = myEpoch /\ epoch' = epoch
    BY <1>1 DEF HostRegisters
  <2> QED
    BY <2>1, <2>2, <2>3 DEF AnnouncedOrOwed, Owed
<1>2. ASSUME NEW k \in PlayerSocks, NEW p \in Pins, PlayerRegisters(k, p)
      PROVE  AnnouncedOrOwed'
  <2>1. PICK s \in Slots : /\ SeatFor(k, s)
                           /\ slots' = [slots EXCEPT ![s] = k]
    BY <1>2 DEF PlayerRegisters
  <2>2. \A t \in Slots : slots'[t] = k => t = s
    <3>1. CASE slots[s] = k
      BY <2>1, <3>1, OneSeat DEF Seats, Socks, TypeOK
    <3>2. CASE Seats(k) = {}
      BY <2>1, <3>2 DEF Seats, TypeOK
    <3>3. QED
      BY <2>1, <3>1, <3>2 DEF SeatFor
  <2>3. /\ task[k] = "idle" /\ k \in Socks
        /\ task' = [task EXCEPT ![k] = "joinHost"]
        /\ epoch' = Bump(1)
        /\ myEpoch' = [myEpoch EXCEPT ![k] = Bump(1)]
        /\ UNCHANGED <<host, pend, announced>>
    BY <1>2 DEF PlayerRegisters, Socks
  <2>4. Bump(1) \in 0..MaxEpoch /\ Bump(1) >= epoch
    BY BumpGrows
  <2>5. \A q \in Socks : pend'[q] # {} => task'[q] = "replaySend"
    BY <2>3 DEF AnnouncedOrOwed, TypeOK
  <2>6. ASSUME NEW t \in Slots, slots'[t] # None
        PROVE  /\ myEpoch'[slots'[t]] <= epoch'
               /\ host' # None => announced'[host'][t] >= myEpoch'[slots'[t]]
                                    \/ Owed(t, host)'
    <3>1. CASE t = s
      <4>1. slots'[t] = k /\ myEpoch'[k] = Bump(1) /\ task'[k] = "joinHost"
        BY <2>1, <2>3, <3>1 DEF TypeOK
      <4> QED
        BY <2>3, <2>4, <4>1 DEF Owed
    <3>2. CASE t # s
      <4>1. slots'[t] = slots[t] /\ slots[t] # k
        BY <2>1, <2>2, <2>6, <3>2 DEF TypeOK
      <4>2. slots[t] \in Socks /\ myEpoch'[slots[t]] = myEpoch[slots[t]]
            /\ task'[slots[t]] = task[slots[t]]
        BY <1>0, <2>3, <2>6, <4>1 DEF TypeOK
      <4>3. host # None => (task[host] = "replay" => task'[host] = "replay")
        BY <1>0, <2>3 DEF TypeOK
      <4>4. myEpoch[slots[t]] \in 0..MaxEpoch /\ epoch \in 0..MaxEpoch
        BY <4>2 DEF TypeOK
      <4>5. myEpoch[slots[t]] <= epoch
        BY <2>6, <4>1 DEF AnnouncedOrOwed
      <4>6. host # None =>
              announced[host][t] >= myEpoch[slots[t]] \/ Owed(t, host)
        BY <2>6, <4>1 DEF AnnouncedOrOwed
      <4>7. host # None => (Owed(t, host) => Owed(t, host)')
        BY <2>3, <4>1, <4>2, <4>3 DEF Owed
      <4>8. myEpoch'[slots'[t]] <= epoch'
        BY <2>3, <2>4, <4>1, <4>2, <4>4, <4>5
      <4> QED
        BY <2>3, <4>1, <4>2, <4>6, <4>7, <4>8
    <3>3. QED
      BY <3>1, <3>2
  <2> QED
    BY <2>5, <2>6 DEF AnnouncedOrOwed
<1>3. ASSUME NEW k \in Socks, NEW p \in Pins, WrongPin(k, p)
      PROVE  AnnouncedOrOwed'
  BY <1>3, QuietStep DEF WrongPin, TypeOK
<1>4. ASSUME NEW k \in Socks, CloseHost(k)
      PROVE  AnnouncedOrOwed'
  <2>1. host' \in {host, None}
    BY <1>4 DEF CloseHost
  <2> QED
    BY <1>4, <2>1, QuietStep DEF CloseHost, TypeOK
<1>5. ASSUME NEW k \in Socks, ClosePlayer(k)
      PROVE  AnnouncedOrOwed'
  <2>1. CASE Seats(k) = {}
    <3>1. slots' = slots /\ task' = [task EXCEPT ![k] = "closed"]
      BY <1>5, <2>1 DEF ClosePlayer, Seats
    <3> QED
      BY <1>5, <3>1, QuietStep DEF ClosePlayer, TypeOK
  <2>2. ASSUME NEW s \in Seats(k),
               slots' = [slots EXCEPT ![s] = None],
               task' = [task EXCEPT ![k] = "leftHost"]
        PROVE  AnnouncedOrOwed'
    <3>1. \A t \in Slots : slots'[t] # None => slots'[t] = slots[t]
      BY <2>2 DEF TypeOK
    <3>2. \A q \in Socks :
            task[q] \in {"joinHost", "replay", "replaySend"} => task'[q] = task[q]
      BY <1>5, <2>2 DEF ClosePlayer, TypeOK
    <3>3. UNCHANGED <<host, epoch, myEpoch, pend, announced>>
      BY <1>5 DEF ClosePlayer
    <3>4. \A q \in Socks : pend'[q] # {} => task'[q] = "replaySend"
      BY <3>2, <3>3 DEF AnnouncedOrOwed
    <3>5. \A t \in Slots : slots'[t] # None /\ host' # None =>
            announced'[host'][t] >= myEpoch'[slots'[t]] \/ Owed(t, host)'
      BY <1>0, <3>1, <3>2, <3>3 DEF AnnouncedOrOwed, Owed
    <3> QED
      BY <3>1, <3>3, <3>4, <3>5 DEF AnnouncedOrOwed
  <2>3. QED
    BY <1>5, <2>1, <2>2 DEF ClosePlayer
<1>6. ASSUME NEW k \in Socks, CloseUnregistered(k)
      PROVE  AnnouncedOrOwed'
  BY <1>6, QuietStep DEF CloseUnregistered, TypeOK
<1>7. ASSUME NEW k \in Socks, Heartbeat(k)
      PROVE  AnnouncedOrOwed'
  BY <1>7, QuietStep DEF Heartbeat, TypeOK
<1>8. ASSUME NEW k \in Socks, RecordPinFailure(k)
      PROVE  AnnouncedOrOwed'
  BY <1>8, QuietStep DEF RecordPinFailure, TypeOK
<1>9. ASSUME NEW k \in Socks, AnnounceJoin(k)
      PROVE  AnnouncedOrOwed'
  <2>1. mySlot[k] \in Slots /\ myEpoch[k] \in 0..MaxEpoch
    BY <1>9 DEF AnnounceJoin, LocalsInv, TypeOK
  <2>2. /\ task[k] = "joinHost" /\ task' = [task EXCEPT ![k] = "idle"]
        /\ UNCHANGED <<host, slots, epoch, myEpoch, pend>>
        /\ SendJoined(mySlot[k], myEpoch[k])
    BY <1>9 DEF AnnounceJoin
  <2>3. \A q \in Socks : pend'[q] # {} => task'[q] = "replaySend"
    BY <2>2 DEF AnnouncedOrOwed, TypeOK
  <2>4. ASSUME NEW s \in Slots, slots[s] # None, host # None
        PROVE  announced'[host][s] >= myEpoch[slots[s]] \/ Owed(s, host)'
    <3>0. /\ announced'[host][mySlot[k]] >= myEpoch[k]
          /\ \A t \in Slots : announced'[host][t] >= announced[host][t]
      BY <2>1, <2>2, <2>4, SendJoinedGrows
    <3>1. CASE slots[s] = k
      BY <3>0, <2>4, <3>1 DEF SeatsKnown
    <3>2. CASE slots[s] # k
      <4>1. slots[s] \in Socks /\ host \in Socks /\ host \in HostSocks
        BY <1>0, <2>4
      <4>2. task'[slots[s]] = task[slots[s]]
        BY <2>2, <3>2, <4>1 DEF TypeOK
      <4>3. task[host] = "replay" => task'[host] = "replay"
        BY <2>2, <4>1 DEF TypeOK
      <4>4. Owed(s, host) => Owed(s, host)'
        BY <2>2, <4>2, <4>3 DEF Owed
      <4>5. announced[host][s] >= myEpoch[slots[s]] \/ Owed(s, host)
        BY <2>4 DEF AnnouncedOrOwed
      <4>6. /\ announced[host][s] \in Nat /\ announced'[host][s] \in Nat
            /\ myEpoch[slots[s]] \in Nat
        <5>1. announced' \in [HostSocks -> [Slots -> 0..MaxEpoch]]
          BY <2>1, <2>2, SendJoinedType
        <5> QED
          BY <4>1, <5>1 DEF TypeOK
      <4>7. announced'[host][s] >= announced[host][s]
        BY <3>0
      <4> QED
        BY <4>4, <4>5, <4>6, <4>7
    <3>3. QED
      BY <3>1, <3>2
  <2> QED
    BY <2>2, <2>3, <2>4 DEF AnnouncedOrOwed
<1>10. ASSUME NEW k \in Socks, SeatedReplay(k)
      PROVE  AnnouncedOrOwed'
  <2>1. /\ task[k] = "replay" /\ task' = [task EXCEPT ![k] = "replaySend"]
        /\ epoch' = Bump(Occupied)
        /\ pend' = [pend EXCEPT ![k] = ReplayList]
        /\ UNCHANGED <<host, slots, myEpoch, announced>>
    BY <1>10 DEF SeatedReplay
  <2>2. Occupied \in Nat
    BY SeatCount DEF Occupied, Seated
  <2>3. epoch' \in 0..MaxEpoch /\ epoch' >= epoch
    BY <2>1, <2>2, BumpGrows
  <2>4. \A q \in Socks : pend'[q] # {} => task'[q] = "replaySend"
    BY <2>1 DEF AnnouncedOrOwed, TypeOK
  <2>5. ASSUME NEW s \in Slots, slots[s] # None
        PROVE  /\ myEpoch[slots[s]] <= epoch'
               /\ host # None =>
                    announced[host][s] >= myEpoch[slots[s]] \/ Owed(s, host)'
    <3>1. slots[s] \in Socks /\ myEpoch[slots[s]] \in 0..MaxEpoch
      BY <1>0, <2>5 DEF TypeOK
    <3>2. myEpoch[slots[s]] <= epoch /\ epoch \in 0..MaxEpoch
      BY <2>5 DEF AnnouncedOrOwed, TypeOK
    <3>3. CASE host = k
      <4>1. s \in Seated
        BY <2>5 DEF Seated
      <4>2. ReplayEpoch(s) \in 1..MaxEpoch /\ ReplayEpoch(s) >= epoch
        BY <4>1, ReplayEpochGrows
      <4>3. [slot |-> s, epoch |-> ReplayEpoch(s)] \in pend'[host]
        BY <2>1, <3>3, <4>1 DEF ReplayList, TypeOK
      <4>4. ReplayEpoch(s) >= myEpoch[slots[s]]
        BY <3>1, <3>2, <4>2
      <4>5. \E j \in pend'[host] : j.slot = s /\ j.epoch >= myEpoch[slots[s]]
        BY <4>3, <4>4
      <4> QED
        BY <2>1, <2>3, <3>1, <3>2, <4>5 DEF Owed
    <3>4. CASE host # k
      <4>1. task'[slots[s]] = "joinHost" \/ task[slots[s]] # "joinHost"
        BY <2>1, <3>1 DEF TypeOK
      <4>2. host # None => pend'[host] = pend[host] /\ task'[host] = task[host]
        BY <1>0, <2>1, <3>4 DEF TypeOK
      <4>3. host # None => (Owed(s, host) => Owed(s, host)')
        BY <2>1, <4>1, <4>2 DEF Owed
      <4> QED
        BY <2>3, <2>5, <3>1, <3>2, <4>3 DEF AnnouncedOrOwed
    <3>5. QED
      BY <3>3, <3>4
  <2> QED
    BY <2>1, <2>4, <2>5 DEF AnnouncedOrOwed
<1>11. ASSUME NEW k \in Socks, ReplaySend(k)
      PROVE  AnnouncedOrOwed'
  <2>1. PICK i \in pend[k] : /\ SendJoined(i.slot, i.epoch)
                             /\ pend' = [pend EXCEPT ![k] = @ \ {i}]
    BY <1>11 DEF ReplaySend
  <2>2. UNCHANGED <<host, slots, epoch, myEpoch, task>>
    BY <1>11 DEF ReplaySend
  <2>3. i.slot \in Slots /\ i.epoch \in 0..MaxEpoch
    BY DEF TypeOK, Announcement
  <2>4. \A q \in Socks : pend'[q] # {} => task'[q] = "replaySend"
    BY <2>1, <2>2 DEF AnnouncedOrOwed, TypeOK
  <2>5. ASSUME NEW s \in Slots, slots[s] # None, host # None
        PROVE  announced'[host][s] >= myEpoch[slots[s]] \/ Owed(s, host)'
    <3>1. /\ announced'[host][i.slot] >= i.epoch
          /\ announced'[host][s] >= announced[host][s]
      BY <2>1, <2>3, <2>5, SendJoinedGrows
    <3>2. announced' \in [HostSocks -> [Slots -> 0..MaxEpoch]]
      BY <2>1, <2>3, SendJoinedType
    <3>3. /\ announced[host][s] \in Nat /\ announced'[host][s] \in Nat
          /\ myEpoch[slots[s]] \in Nat
      BY <1>0, <2>5, <3>2 DEF TypeOK
    <3>4. CASE announced[host][s] >= myEpoch[slots[s]]
      BY <3>1, <3>3, <3>4
    <3>5. CASE Owed(s, host)
      <4>1. CASE task[slots[s]] = "joinHost" \/ task[host] = "replay"
        BY <2>2, <4>1 DEF Owed
      <4>2. ASSUME NEW j \in pend[host],
                   j.slot = s, j.epoch >= myEpoch[slots[s]]
            PROVE  announced'[host][s] >= myEpoch[slots[s]] \/ Owed(s, host)'
        <5>1. CASE j = i
          BY <2>3, <3>1, <3>3, <4>2, <5>1
        <5>2. CASE j # i
          <6>1. j \in pend'[host]
            BY <1>0, <2>1, <2>5, <5>2 DEF TypeOK
          <6> QED
            BY <2>2, <4>2, <6>1 DEF Owed
        <5>3. QED
          BY <5>1, <5>2
      <4>3. QED
        BY <3>5, <4>1, <4>2 DEF Owed
    <3>6. QED
      BY <2>5, <3>4, <3>5 DEF AnnouncedOrOwed
  <2> QED
    BY <2>2, <2>4, <2>5 DEF AnnouncedOrOwed
<1>12. ASSUME NEW k \in Socks, ReplayDone(k)
      PROVE  AnnouncedOrOwed'
  <2>1. /\ pend[k] = {} /\ task[k] = "replaySend"
        /\ task' = [task EXCEPT ![k] = "idle"]
        /\ UNCHANGED <<host, slots, epoch, myEpoch, pend, announced>>
    BY <1>12 DEF ReplayDone
  <2>2. \A q \in Socks : pend'[q] # {} => task'[q] = "replaySend"
    BY <2>1 DEF AnnouncedOrOwed, TypeOK
  <2>3. \A q \in Socks :
          task[q] \in {"joinHost", "replay"} => task'[q] = task[q]
    BY <2>1 DEF TypeOK
  <2>4. \A s \in Slots : slots'[s] # None /\ host' # None =>
          announced'[host'][s] >= myEpoch'[slots'[s]] \/ Owed(s, host)'
    BY <1>0, <2>1, <2>3 DEF AnnouncedOrOwed, Owed
  <2> QED
    BY <2>1, <2>2, <2>4 DEF AnnouncedOrOwed
<1>13. ASSUME NEW k \in Socks, AnnounceLeft(k)
      PROVE  AnnouncedOrOwed'
  BY <1>13, QuietStep DEF AnnounceLeft, TypeOK
<1>14. CASE GrowIdle
  BY <1>14, QuietStep DEF GrowIdle
<1>15. CASE LockExpires
  BY <1>15, QuietStep DEF LockExpires
<1>16. CASE SweepCollect
  BY <1>16, QuietStep DEF SweepCollect
<1>17. CASE SweepRemove
  BY <1>17 DEF SweepRemove, AnnouncedOrOwed, NoPlayers
<1>18. CASE UNCHANGED vars
  BY <1>18, QuietStep DEF vars
<1>19. QED
  BY <1>1, <1>2, <1>3, <1>4, <1>5, <1>6, <1>7, <1>8, <1>9, <1>10, <1>11, <1>12, <1>13, <1>14, <1>15, <1>16, <1>17, <1>18 DEF Next, Client, Clock, Handler

\* However registrations, closes, host restarts and expiries interleave, a
\* seated player whose handler is done has been announced to the current host
\* once the host's handler is done (NobodyStranded in Signaling).
THEOREM NobodyIsStranded == Spec => []NobodyStranded
<1>1. Init => AnnouncedOrOwed
  BY SignalingAssumption DEF Init, AnnouncedOrOwed, NoPlayers
<1>2. Spec => []AnnouncedOrOwed
  BY <1>1, StepOwed, TypeCorrect, SeatsStayKnown, PTL DEF Spec
<1>3. QED
  BY <1>2, OwedByNobodyIdle, TypeCorrect, PTL

-----------------------------------------------------------------------------
(***************************************************************************)
(* The host role.                                                          *)
(***************************************************************************)

\* Only two steps empty the role: the close of the very socket that has it,
\* and the removal of the session.  Every other step keeps a host, its own or
\* the one that registers.
LEMMA StepKeepsRole ==
  ASSUME TypeOK, Next, host # None, host' = None
  PROVE  gone'[host] \/ sweeps' # sweeps
<1> USE DEF storeVars, sweepVars, localVars, chanVars
<1>1. ASSUME NEW k \in HostSocks, NEW p \in Pins, HostRegisters(k, p)
      PROVE  FALSE
  BY <1>1, SignalingAssumption DEF HostRegisters, Socks
<1>2. ASSUME NEW k \in Socks, CloseHost(k)
      PROVE  gone'[host]
  <2>1. CASE host = k
    BY <1>2, <2>1 DEF CloseHost, TypeOK
  <2>2. CASE host # k
    BY <1>2, <2>2 DEF CloseHost
  <2> QED
    BY <2>1, <2>2
<1>3. CASE SweepRemove
  BY <1>3 DEF SweepRemove, TypeOK
<1>4. ASSUME UNCHANGED host
      PROVE  FALSE
  BY <1>4
<1>5. ASSUME NEW k \in Socks, Handler(k)
      PROVE  FALSE
  BY <1>5, <1>4 DEF Handler, RecordPinFailure, AnnounceJoin, SeatedReplay,
                    ReplaySend, ReplayDone, AnnounceLeft
<1>6. CASE GrowIdle \/ LockExpires \/ SweepCollect
  BY <1>4, <1>6 DEF GrowIdle, LockExpires, SweepCollect
<1>7. ASSUME NEW k \in Socks, NEW p \in Pins,
             PlayerRegisters(k, p) \/ WrongPin(k, p)
      PROVE  FALSE
  BY <1>4, <1>7 DEF PlayerRegisters, WrongPin
<1>8. ASSUME NEW k \in Socks,
             ClosePlayer(k) \/ CloseUnregistered(k) \/ Heartbeat(k)
      PROVE  FALSE
  BY <1>4, <1>8 DEF ClosePlayer, CloseUnregistered, Heartbeat
<1>9. QED
  BY <1>1, <1>2, <1>3, <1>5, <1>6, <1>7, <1>8 DEF Next, Client, Clock, Socks

\* The late close of a replaced host socket never wipes the live one, however
\* many hosts come and go (HostRoleKept in Signaling; session.rs unregister).
THEOREM HostKeepsRole == Spec => HostRoleKept
<1>1. TypeOK /\ [Next]_vars =>
        [host # None /\ host' = None => gone'[host] \/ sweeps' # sweeps]_vars
  BY StepKeepsRole
<1>2. QED
  BY <1>1, TypeCorrect, PTL DEF Spec, HostRoleKept

-----------------------------------------------------------------------------
(***************************************************************************)
(* Epochs.  While the session has not expired, the table has given out     *)
(* every epoch that was sent or is still to be sent, so the next one it    *)
(* gives out is new.                                                       *)
(***************************************************************************)
Issued ==
  sweeps = 0 =>
    /\ \A k \in Socks : \A i \in Waiting(k) : i.epoch <= epoch
    /\ \A h \in HostSocks, s \in Slots : announced[h][s] <= epoch

\* What is still to be sent are announcements; a player's own may be read only
\* while its handler stands there.
LEMMA WaitingType ==
  ASSUME TypeOK, LocalsInv, NEW k \in Socks, NEW i \in Waiting(k)
  PROVE  i.slot \in Slots /\ i.epoch \in 0..MaxEpoch
<1>1. CASE i \in pend[k]
  BY <1>1, SignalingAssumption DEF TypeOK, Announcement
<1>2. CASE task[k] = "joinHost" /\ i = [slot |-> mySlot[k], epoch |-> myEpoch[k]]
  BY <1>2 DEF TypeOK, LocalsInv
<1>3. QED
  BY <1>1, <1>2 DEF Waiting

\* A step that sends nothing and adds nothing to what is still to be sent keeps
\* the epochs apart.
LEMMA NothingIssued ==
  ASSUME Issued, EpochsDistinct,
         sweeps' = sweeps, epoch' = epoch, announced' = announced,
         \A k \in Socks : Waiting(k)' \subseteq Waiting(k)
  PROVE  Issued' /\ EpochsDistinct'
<1>1. Issued'
  BY DEF Issued
<1>2. EpochsDistinct'
  BY DEF EpochsDistinct
<1>3. QED
  BY <1>1, <1>2

\* The same, said of the variables: no handler enters the announcement of a
\* join, and no replay list changes.
LEMMA NothingWaits ==
  ASSUME Issued, EpochsDistinct,
         sweeps' = sweeps, epoch' = epoch, announced' = announced, pend' = pend,
         \A q \in Socks : task'[q] = "joinHost" =>
           task[q] = "joinHost" /\ mySlot'[q] = mySlot[q] /\ myEpoch'[q] = myEpoch[q]
  PROVE  Issued' /\ EpochsDistinct'
<1>1. \A q \in Socks : Waiting(q)' \subseteq Waiting(q)
  BY DEF Waiting
<1>2. QED
  BY <1>1, NothingIssued

\* Sending an announcement and taking it off the list keeps the epochs apart:
\* no other announcement still to be sent has its epoch.
LEMMA OneSent ==
  ASSUME TypeOK, LocalsInv, Issued, EpochsDistinct,
         NEW k \in Socks, NEW i \in Waiting(k),
         SendJoined(i.slot, i.epoch), i \notin Waiting(k)',
         sweeps' = sweeps, epoch' = epoch,
         \A q \in Socks : Waiting(q)' \subseteq Waiting(q)
  PROVE  Issued' /\ EpochsDistinct'
<1>1. i.slot \in Slots /\ i.epoch \in 0..MaxEpoch
  BY WaitingType
<1>2. \A h \in HostSocks, s \in Slots :
        announced'[h][s] \in {announced[h][s], i.epoch}
  <2>1. CASE host = None
    BY <2>1 DEF SendJoined
  <2>2. CASE host # None
    <3>1. host \in HostSocks
      BY <2>2 DEF TypeOK
    <3>2. announced' = [announced EXCEPT ![host] =
                          [@ EXCEPT ![i.slot] =
                             Newer(announced[host][i.slot], i.epoch)]]
      BY <2>2, <3>1, <1>1 DEF SendJoined, TypeOK
    <3>3. QED
      BY <1>1, <3>1, <3>2 DEF TypeOK, Newer
  <2>3. QED
    BY <2>1, <2>2
<1>3. Issued'
  BY <1>2 DEF Issued
<1>4. ASSUME sweeps' = 0, epoch' < MaxEpoch
      PROVE  /\ \A p, q \in Socks : \A m \in Waiting(p)', j \in Waiting(q)' :
                  m.epoch = j.epoch => p = q /\ m = j
             /\ \A p \in Socks, h \in HostSocks, s \in Slots :
                  \A m \in Waiting(p)' : announced'[h][s] # m.epoch
  <2>1. \A p, q \in Socks : \A m \in Waiting(p), j \in Waiting(q) :
          m.epoch = j.epoch => p = q /\ m = j
    BY <1>4 DEF EpochsDistinct
  <2>2. \A p \in Socks, h \in HostSocks, s \in Slots :
          \A m \in Waiting(p) : announced[h][s] # m.epoch
    BY <1>4 DEF EpochsDistinct
  <2>3. \A p \in Socks : \A m \in Waiting(p)' : i.epoch # m.epoch
    BY <2>1
  <2>4. QED
    BY <1>2, <2>1, <2>2, <2>3
<1>5. EpochsDistinct'
  BY <1>4 DEF EpochsDistinct
<1>6. QED
  BY <1>3, <1>5

\* Putting new announcements on one handler's list keeps the epochs apart when
\* the table has moved past the old ones, unless it saturates.
LEMMA NewIssued ==
  ASSUME TypeOK, LocalsInv, Issued, EpochsDistinct, NEW k \in Socks,
         sweeps' = sweeps, announced' = announced,
         epoch' \in 0..MaxEpoch, epoch' >= epoch,
         \A q \in Socks \ {k} : Waiting(q)' = Waiting(q),
         \A i \in Waiting(k)' : i.epoch \in Nat /\ i.epoch <= epoch',
         epoch' < MaxEpoch =>
           \A i \in Waiting(k)' :
             /\ i.epoch > epoch
             /\ \A j \in Waiting(k)' : i.epoch = j.epoch => i = j
  PROVE  Issued' /\ EpochsDistinct'
<1>1. epoch \in 0..MaxEpoch /\ MaxEpoch \in Nat
  BY SignalingAssumption DEF TypeOK
<1>2. \A h \in HostSocks, s \in Slots : announced[h][s] \in 0..MaxEpoch
  BY DEF TypeOK
<1>3. \A q \in Socks : \A i \in Waiting(q) : i.epoch \in 0..MaxEpoch
  BY WaitingType
<1>4. Issued'
  BY <1>1, <1>2, <1>3 DEF Issued
<1>5. ASSUME sweeps' = 0, epoch' < MaxEpoch
      PROVE  /\ \A p, q \in Socks : \A m \in Waiting(p)', j \in Waiting(q)' :
                  m.epoch = j.epoch => p = q /\ m = j
             /\ \A p \in Socks, h \in HostSocks, s \in Slots :
                  \A m \in Waiting(p)' : announced'[h][s] # m.epoch
  <2>1. sweeps = 0 /\ epoch < MaxEpoch
    BY <1>1, <1>5
  <2>2. /\ \A q \in Socks : \A i \in Waiting(q) : i.epoch <= epoch
        /\ \A h \in HostSocks, s \in Slots : announced[h][s] <= epoch
    BY <2>1 DEF Issued
  <2>3. /\ \A p, q \in Socks : \A m \in Waiting(p), j \in Waiting(q) :
             m.epoch = j.epoch => p = q /\ m = j
        /\ \A p \in Socks, h \in HostSocks, s \in Slots :
             \A m \in Waiting(p) : announced[h][s] # m.epoch
    BY <2>1 DEF EpochsDistinct
  <2>4. \A m \in Waiting(k)' :
          /\ m.epoch \in Nat /\ m.epoch > epoch
          /\ \A j \in Waiting(k)' : m.epoch = j.epoch => m = j
    BY <1>5
  <2>5. \A q \in Socks : q # k => \A j \in Waiting(q)' :
          j \in Waiting(q) /\ j.epoch \in 0..MaxEpoch /\ j.epoch <= epoch
    BY <1>3, <2>2
  <2>6. ASSUME NEW p \in Socks, NEW q \in Socks,
               NEW m \in Waiting(p)', NEW j \in Waiting(q)',
               m.epoch = j.epoch
        PROVE  p = q /\ m = j
    <3>1. CASE p = k /\ q = k
      BY <2>4, <2>6, <3>1
    <3>2. CASE p = k /\ q # k
      BY <1>1, <2>4, <2>5, <2>6, <3>2
    <3>3. CASE p # k /\ q = k
      BY <1>1, <2>4, <2>5, <2>6, <3>3
    <3>4. CASE p # k /\ q # k
      BY <2>3, <2>5, <2>6, <3>4
    <3>5. QED
      BY <3>1, <3>2, <3>3, <3>4
  <2>7. ASSUME NEW p \in Socks, NEW h \in HostSocks, NEW s \in Slots,
               NEW m \in Waiting(p)'
        PROVE  announced'[h][s] # m.epoch
    <3>1. CASE p = k
      BY <1>1, <1>2, <2>2, <2>4, <3>1
    <3>2. CASE p # k
      BY <2>3, <2>5, <3>2
    <3>3. QED
      BY <3>1, <3>2
  <2>8. QED
    BY <2>6, <2>7
<1>6. EpochsDistinct'
  BY <1>5 DEF EpochsDistinct
<1>7. QED
  BY <1>4, <1>6

\* The seated slots replayed up to slot s, s among them.
Before(s) == {t \in Seated : t <= s}

\* The replay numbers the seated slots with different epochs, all new and none
\* beyond what the table counts up to, unless it saturates (replay_for_host).
LEMMA ReplayIsNew ==
  ASSUME TypeOK
  PROVE  /\ Bump(Occupied) \in 0..MaxEpoch /\ Bump(Occupied) >= epoch
         /\ \A i \in ReplayList : i.epoch \in Nat /\ i.epoch <= Bump(Occupied)
         /\ Bump(Occupied) < MaxEpoch =>
              \A i \in ReplayList :
                /\ i.epoch > epoch
                /\ \A j \in ReplayList : i.epoch = j.epoch => i = j
<1>1. Seated \in SUBSET Slots /\ Seated \subseteq Nat
  BY SlotRange DEF Seated
<1>2. IsFiniteSet(Seated) /\ Occupied \in Nat
  BY <1>1, SeatCount DEF Occupied
<1>3. epoch \in Nat /\ MaxEpoch \in Nat
  BY SignalingAssumption DEF TypeOK
<1>4. ASSUME NEW s \in Seated
      PROVE  /\ IsFiniteSet(Before(s)) /\ Cardinality(Before(s)) \in Nat \ {0}
             /\ Cardinality(Before(s)) <= Occupied
  <2>1. Before(s) \in SUBSET Seated /\ s \in Before(s)
    BY <1>1 DEF Before
  <2>2. IsFiniteSet(Before(s)) /\ Cardinality(Before(s)) <= Occupied
    BY <1>2, <2>1, FS_Subset DEF Occupied
  <2>3. Cardinality(Before(s)) \in Nat /\ Cardinality(Before(s)) # 0
    BY <2>1, <2>2, FS_CardinalityType, FS_EmptySet
  <2>4. QED
    BY <2>2, <2>3
<1>5. ASSUME NEW s \in Seated
      PROVE  /\ ReplayEpoch(s) \in Nat /\ ReplayEpoch(s) <= Bump(Occupied)
             /\ Bump(Occupied) < MaxEpoch =>
                  ReplayEpoch(s) = epoch + Cardinality(Before(s))
  <2>1. ReplayEpoch(s) = Bump(Cardinality(Before(s)))
    BY DEF ReplayEpoch, Before, Bump
  <2>2. QED
    BY <1>2, <1>3, <1>4, <2>1 DEF Bump
<1>6. ASSUME NEW s \in Seated, NEW t \in Seated,
             Cardinality(Before(s)) = Cardinality(Before(t)), s <= t
      PROVE  s = t
  <2>1. Before(s) \in SUBSET Before(t) /\ t \in Before(t)
    <3>1. \A u \in Seated : u <= s => u <= t
      BY <1>1, <1>6
    <3>2. t \in Seated /\ t <= t
      BY <1>1, <1>6
    <3>3. Before(s) \subseteq Before(t)
      BY <3>1 DEF Before
    <3>4. QED
      BY <3>2, <3>3 DEF Before
  <2>2. Before(s) = Before(t)
    <3>1. IsFiniteSet(Before(t))
      BY <1>4, <1>6
    <3>2. Cardinality(Before(t)) = Cardinality(Before(s)) => Before(t) = Before(s)
      BY <2>1, <3>1, FS_Subset
    <3>3. QED
      BY <1>6, <3>2
  <2>3. t <= s
    BY <2>1, <2>2 DEF Before
  <2>4. QED
    BY <1>1, <1>6, <2>3
<1>7. ASSUME NEW s \in Seated, NEW t \in Seated,
             Cardinality(Before(s)) = Cardinality(Before(t))
      PROVE  s = t
  BY <1>1, <1>6, <1>7
<1>8. ASSUME Bump(Occupied) < MaxEpoch, NEW s \in Seated, NEW t \in Seated,
             ReplayEpoch(s) = ReplayEpoch(t)
      PROVE  s = t
  <2>1. epoch + Cardinality(Before(s)) = epoch + Cardinality(Before(t))
    BY <1>5, <1>8
  <2>2. Cardinality(Before(s)) = Cardinality(Before(t))
    BY <1>3, <1>4, <2>1
  <2>3. QED
    BY <1>7, <2>2
<1>9. Bump(Occupied) \in 0..MaxEpoch /\ Bump(Occupied) >= epoch
  BY <1>2, BumpGrows
<1>10. \A i \in ReplayList : i.epoch \in Nat /\ i.epoch <= Bump(Occupied)
  <2>1. ASSUME NEW i \in ReplayList
        PROVE  i.epoch \in Nat /\ i.epoch <= Bump(Occupied)
    <3>1. PICK s \in Seated : i = [slot |-> s, epoch |-> ReplayEpoch(s)]
      BY DEF ReplayList
    <3>2. QED
      BY <1>5, <3>1
  <2>2. QED
    BY <2>1
<1>11. ASSUME Bump(Occupied) < MaxEpoch, NEW i \in ReplayList
       PROVE  /\ i.epoch > epoch
              /\ \A j \in ReplayList : i.epoch = j.epoch => i = j
  <2>1. PICK s \in Seated : i = [slot |-> s, epoch |-> ReplayEpoch(s)]
    BY DEF ReplayList
  <2>2. i.epoch > epoch
    <3>1. i.epoch = epoch + Cardinality(Before(s))
      BY <1>5, <1>11, <2>1
    <3>2. QED
      BY <1>3, <1>4, <3>1
  <2>3. ASSUME NEW j \in ReplayList, i.epoch = j.epoch
        PROVE  i = j
    <3>1. PICK t \in Seated : j = [slot |-> t, epoch |-> ReplayEpoch(t)]
      BY DEF ReplayList
    <3>2. s = t
      BY <1>8, <1>11, <2>1, <2>3, <3>1
    <3>3. QED
      BY <2>1, <3>1, <3>2
  <2>4. QED
    BY <2>2, <2>3
<1>12. QED
  BY <1>9, <1>10, <1>11

\* Each step keeps the epochs apart: a registration and a replay issue new ones,
\* an announcement moves one from a list to the channel, and the rest leave
\* them alone.
LEMMA StepEpochs ==
  TypeOK /\ LocalsInv /\ AnnouncedOrOwed /\ Issued /\ EpochsDistinct /\ [Next]_vars
    => Issued' /\ EpochsDistinct'
<1> SUFFICES ASSUME TypeOK, LocalsInv, AnnouncedOrOwed, Issued, EpochsDistinct,
                    [Next]_vars
             PROVE  Issued' /\ EpochsDistinct'
  OBVIOUS
<1> USE SignalingAssumption DEF storeVars, sweepVars, localVars, chanVars, Goto
<1>0. \A q \in Socks : pend[q] # {} => task[q] = "replaySend"
  BY DEF AnnouncedOrOwed
<1>1. ASSUME NEW k \in HostSocks, NEW p \in Pins, HostRegisters(k, p)
      PROVE  Issued' /\ EpochsDistinct'
  BY <1>1, NothingWaits DEF HostRegisters, TypeOK, Socks
<1>2. ASSUME NEW k \in PlayerSocks, NEW p \in Pins, PlayerRegisters(k, p)
      PROVE  Issued' /\ EpochsDistinct'
  <2>1. PICK s \in Slots : mySlot' = [mySlot EXCEPT ![k] = s]
    BY <1>2 DEF PlayerRegisters
  <2>2. /\ k \in Socks /\ task[k] = "idle"
        /\ task' = [task EXCEPT ![k] = "joinHost"]
        /\ epoch' = Bump(1) /\ myEpoch' = [myEpoch EXCEPT ![k] = Bump(1)]
        /\ UNCHANGED <<sweeps, announced, pend>>
    BY <1>2 DEF PlayerRegisters, Socks
  <2>3. Waiting(k)' = {[slot |-> s, epoch |-> Bump(1)]}
    <3>1. pend[k] = {}
      BY <1>0, <2>2
    <3>2. QED
      BY <2>1, <2>2, <3>1 DEF Waiting, TypeOK
  <2>4. \A q \in Socks \ {k} : Waiting(q)' = Waiting(q)
    BY <2>1, <2>2 DEF Waiting, TypeOK
  <2>5. /\ Bump(1) \in 0..MaxEpoch /\ Bump(1) >= epoch
        /\ Bump(1) < MaxEpoch => Bump(1) > epoch
    BY DEF Bump, TypeOK
  <2>6. QED
    BY <2>2, <2>3, <2>4, <2>5, NewIssued
<1>3. ASSUME NEW k \in Socks, NEW p \in Pins, WrongPin(k, p)
      PROVE  Issued' /\ EpochsDistinct'
  BY <1>3, NothingWaits DEF WrongPin, TypeOK
<1>4. ASSUME NEW k \in Socks, CloseHost(k)
      PROVE  Issued' /\ EpochsDistinct'
  BY <1>4, NothingWaits DEF CloseHost, TypeOK
<1>5. ASSUME NEW k \in Socks, ClosePlayer(k)
      PROVE  Issued' /\ EpochsDistinct'
  <2>1. \A q \in Socks : task'[q] = "joinHost" =>
          task[q] = "joinHost" /\ mySlot'[q] = mySlot[q]
    BY <1>5 DEF ClosePlayer, TypeOK
  <2>2. UNCHANGED <<sweeps, epoch, announced, pend, myEpoch>>
    BY <1>5 DEF ClosePlayer
  <2>3. QED
    BY <2>1, <2>2, NothingWaits
<1>6. ASSUME NEW k \in Socks, CloseUnregistered(k)
      PROVE  Issued' /\ EpochsDistinct'
  BY <1>6, NothingWaits DEF CloseUnregistered, TypeOK
<1>7. ASSUME NEW k \in Socks, Heartbeat(k)
      PROVE  Issued' /\ EpochsDistinct'
  BY <1>7, NothingWaits DEF Heartbeat
<1>8. ASSUME NEW k \in Socks, RecordPinFailure(k)
      PROVE  Issued' /\ EpochsDistinct'
  BY <1>8, NothingWaits DEF RecordPinFailure, TypeOK
<1>9. ASSUME NEW k \in Socks, AnnounceJoin(k)
      PROVE  Issued' /\ EpochsDistinct'
  <2> DEFINE i == [slot |-> mySlot[k], epoch |-> myEpoch[k]]
  <2>1. /\ task[k] = "joinHost" /\ task' = [task EXCEPT ![k] = "idle"]
        /\ UNCHANGED <<sweeps, epoch, pend, mySlot, myEpoch>>
        /\ SendJoined(i.slot, i.epoch)
    BY <1>9 DEF AnnounceJoin
  <2>2. i \in Waiting(k) /\ Waiting(k)' = {}
    BY <1>0, <2>1 DEF Waiting, TypeOK
  <2>3. \A q \in Socks : Waiting(q)' \subseteq Waiting(q)
    BY <2>1 DEF Waiting, TypeOK
  <2>4. QED
    BY <2>1, <2>2, <2>3, OneSent
<1>10. ASSUME NEW k \in Socks, SeatedReplay(k)
       PROVE  Issued' /\ EpochsDistinct'
  <2>1. /\ task[k] = "replay" /\ task' = [task EXCEPT ![k] = "replaySend"]
        /\ epoch' = Bump(Occupied) /\ pend' = [pend EXCEPT ![k] = ReplayList]
        /\ UNCHANGED <<sweeps, announced, mySlot, myEpoch>>
    BY <1>10 DEF SeatedReplay
  <2>2. Waiting(k)' = ReplayList
    BY <2>1 DEF Waiting, TypeOK
  <2>3. \A q \in Socks \ {k} : Waiting(q)' = Waiting(q)
    BY <2>1 DEF Waiting, TypeOK
  <2>4. QED
    BY <2>1, <2>2, <2>3, ReplayIsNew, NewIssued
<1>11. ASSUME NEW k \in Socks, ReplaySend(k)
       PROVE  Issued' /\ EpochsDistinct'
  <2>1. PICK i \in pend[k] : /\ SendJoined(i.slot, i.epoch)
                             /\ pend' = [pend EXCEPT ![k] = @ \ {i}]
    BY <1>11 DEF ReplaySend
  <2>2. task[k] = "replaySend" /\ UNCHANGED <<sweeps, epoch, task, mySlot, myEpoch>>
    BY <1>11 DEF ReplaySend
  <2>3. i \in Waiting(k) /\ i \notin Waiting(k)'
    BY <2>1, <2>2 DEF Waiting, TypeOK
  <2>4. \A q \in Socks : Waiting(q)' \subseteq Waiting(q)
    BY <2>1, <2>2 DEF Waiting, TypeOK
  <2>5. QED
    BY <2>1, <2>2, <2>3, <2>4, OneSent
<1>12. ASSUME NEW k \in Socks, ReplayDone(k)
       PROVE  Issued' /\ EpochsDistinct'
  BY <1>12, NothingWaits DEF ReplayDone, TypeOK
<1>13. ASSUME NEW k \in Socks, AnnounceLeft(k)
       PROVE  Issued' /\ EpochsDistinct'
  BY <1>13, NothingWaits DEF AnnounceLeft, TypeOK
<1>14. CASE GrowIdle \/ LockExpires \/ SweepCollect
  BY <1>14, NothingWaits DEF GrowIdle, LockExpires, SweepCollect
<1>15. CASE SweepRemove
  <2>1. sweeps' # 0
    BY <1>15 DEF SweepRemove, TypeOK
  <2>2. QED
    BY <2>1 DEF Issued, EpochsDistinct
<1>16. CASE UNCHANGED vars
  BY <1>16, NothingWaits DEF vars
<1>17. QED
  BY <1>1, <1>2, <1>3, <1>4, <1>5, <1>6, <1>7, <1>8, <1>9, <1>10, <1>11, <1>12, <1>13, <1>14, <1>15, <1>16 DEF Next, Client, Clock, Handler

\* No two announcements of a session carry the same epoch until the counter
\* saturates, whatever the interleaving of registrations and replays
\* (EpochsDistinct in Signaling; players.rs).
THEOREM EpochsAreDistinct == Spec => []EpochsDistinct
<1>1. Init => AnnouncedOrOwed /\ Issued /\ EpochsDistinct
  <2>1. Init => \A k \in Socks : Waiting(k) = {}
    BY DEF Init, Waiting
  <2>2. Init => \A h \in HostSocks, s \in Slots : announced[h][s] <= epoch
    BY DEF Init, Nothing
  <2>3. QED
    BY <2>1, <2>2, SignalingAssumption
       DEF Init, AnnouncedOrOwed, NoPlayers, Issued, EpochsDistinct
<1>2. Spec => [](AnnouncedOrOwed /\ Issued /\ EpochsDistinct)
  BY <1>1, StepOwed, StepEpochs, TypeCorrect, SeatsStayKnown, PTL DEF Spec
<1>3. QED
  BY <1>2, PTL

=============================================================================
