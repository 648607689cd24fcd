------------------------- MODULE NativeClientProofs -------------------------
(***************************************************************************)
(* Theorems about NativeClient, for any backlog and any number of          *)
(* processes.  Each of the three invariants needs its own strengthening,   *)
(* none of them the others.                                                *)
(***************************************************************************)
EXTENDS NativeClient, TLAPS

-----------------------------------------------------------------------------
(* One loop at a time *)

\* The main thread's loop runs only while the main thread is in it, and the main
\* thread goes there, or ends, only when the network thread has ended.
LoopsInv ==
    /\ main \in {"view", "join", "headless", "done"}
    /\ net \in [Loops -> {"off", "ask", "loop"}]
    /\ main # "headless" => net["main"] = "off"
    /\ main \in {"headless", "done"} => net["thread"] = "off"

LEMMA LoopsInit == Init => LoopsInv
BY DEF Init, LoopsInv, Loops

LEMMA LoopsStep == LoopsInv /\ [Next]_vars => LoopsInv'
<1> SUFFICES ASSUME LoopsInv, [Next]_vars PROVE LoopsInv'
  OBVIOUS
<1> USE DEF LoopsInv, Loops
<1> DEFINE Ended(l) == net' = [net EXCEPT ![l] = "off"] /\ main' = main
<1>1. CASE WindowEnds
  BY <1>1 DEF WindowEnds
<1>2. CASE FallBack
  BY <1>2 DEF FallBack, Joined
<1>3. CASE Reexec
  BY <1>3 DEF Reexec, Joined
<1>4. CASE Exit \/ HeadlessEnds
  BY <1>4 DEF Exit, HeadlessEnds, Joined
<1>5. ASSUME NEW l \in Loops, Ended(l) PROVE LoopsInv'
  BY <1>5
<1>6. ASSUME NEW l \in Loops, LoopEnds(l) PROVE Ended(l)
  BY <1>6 DEF LoopEnds, mainVars
<1>7. ASSUME NEW l \in Loops, Registered(l) PROVE LoopsInv'
  BY <1>5, <1>6, <1>7 DEF Registered, mainVars
<1>8. ASSUME NEW l \in Loops, Stop(l) \/ Offer(l) \/ WireEnds(l) PROVE LoopsInv'
  <2>1. CASE LoopEnds(l)
    BY <1>5, <1>6, <2>1
  <2>2. CASE ~LoopEnds(l)
    BY <1>8, <2>2 DEF Stop, Offer, WireEnds, mainVars
  <2>3. QED
    BY <2>1, <2>2
<1>9. CASE UNCHANGED <<main, net>>
  BY <1>9
<1>10. ASSUME NEW l \in Loops, Forward(l) \/ Tick(l) PROVE UNCHANGED <<main, net>>
  BY <1>10 DEF Forward, Tick, mainVars
<1>11. ASSUME NEW u \in Units, Arrive(u) \/ Discount(u) \/ Decode(u) PROVE UNCHANGED <<main, net>>
  BY <1>11 DEF Arrive, Discount, Decode, mainVars
<1>12. Present \/ KeyEvent \/ Break \/ HandOver \/ Take \/ (\E f \in BOOLEAN : Focused(f))
         => UNCHANGED <<main, net>>
  BY DEF Present, KeyEvent, Break, HandOver, Take, Focused, mainVars
<1>13. UNCHANGED vars => UNCHANGED <<main, net>>
  BY DEF vars, mainVars
<1>14. QED
  BY <1>1, <1>2, <1>3, <1>4, <1>7, <1>8, <1>9, <1>10, <1>11, <1>12, <1>13 DEF Next

\* However the window ends (OneClient in NativeClient), no two loops of this
\* client ever run together and none outlives it.
THEOREM NeverTwoClients == Spec => []OneClient
<1>1. LoopsInv => OneClient
  BY DEF LoopsInv, OneClient, Running, Loops
<1>2. QED
  BY <1>1, LoopsInit, LoopsStep, PTL DEF Spec

-----------------------------------------------------------------------------
(* What is handed on *)

\* The gate is open only behind a unit that was handed on.
GateInv == ~orphan /\ (gate => given)

LEMMA GateStep == GateInv /\ [Next]_vars => GateInv'
<1> SUFFICES ASSUME GateInv, [Next]_vars PROVE GateInv'
  OBVIOUS
<1> USE DEF GateInv
<1>1. CASE VideoFresh
  BY <1>1 DEF VideoFresh
<1>2. CASE UNCHANGED <<orphan, gate, given>>
  BY <1>2
<1>3. ASSUME NEW u \in Units, Arrive(u) PROVE GateInv'
  <2>1. CASE ~gate /\ u # "sets"
    BY <1>3, <2>1 DEF Arrive, Drop
  <2>2. CASE ~(~gate /\ u # "sets") /\ backlog > MaxBacklog
    BY <1>3, <2>2 DEF Arrive, Drop, GateAfterShed
  <2>3. CASE ~(~gate /\ u # "sets") /\ ~(backlog > MaxBacklog)
    BY <1>3, <2>3 DEF Arrive
  <2>4. QED
    BY <2>1, <2>2, <2>3
<1>4. ASSUME NEW u \in Units, Discount(u) \/ Decode(u) PROVE UNCHANGED <<orphan, gate, given>>
  BY <1>4 DEF Discount, Decode, readVars
<1>5. ASSUME NEW l \in Loops, Registered(l) \/ Stop(l) \/ Offer(l) \/ WireEnds(l)
      PROVE VideoFresh \/ UNCHANGED <<orphan, gate, given>>
  BY <1>5 DEF Registered, Stop, Offer, WireEnds, LoopEnds, videoVars, readVars
<1>6. ASSUME NEW l \in Loops, Forward(l) \/ Tick(l) PROVE UNCHANGED <<orphan, gate, given>>
  BY <1>6 DEF Forward, Tick, videoVars, readVars
<1>7. WindowEnds \/ FallBack \/ Exit \/ HeadlessEnds \/ Present \/ KeyEvent \/ Break
        \/ HandOver \/ Take \/ (\E f \in BOOLEAN : Focused(f))
      => UNCHANGED <<orphan, gate, given>>
  BY DEF WindowEnds, FallBack, Exit, HeadlessEnds, Present, KeyEvent, Break, HandOver, Take,
         Focused, videoVars, readVars
<1>8. Reexec => VideoFresh
  BY DEF Reexec
<1>9. UNCHANGED vars => UNCHANGED <<orphan, gate, given>>
  BY DEF vars, videoVars, readVars
<1>10. QED
  BY <1>1, <1>2, <1>3, <1>4, <1>5, <1>6, <1>7, <1>8, <1>9 DEF Next

\* No unit that refers to one the client shed is handed to the decoder
\* (NeverOrphans in NativeClient).
THEOREM NothingRefersToWhatWasShed == Spec => []NeverOrphans
<1>1. Init => GateInv
  BY DEF Init, GateInv
<1>2. GateInv => NeverOrphans
  BY DEF GateInv, NeverOrphans
<1>3. QED
  BY <1>1, <1>2, GateStep, PTL DEF Spec

-----------------------------------------------------------------------------
(* The shared counter *)

Holding == IF reader = "idle" THEN 0 ELSE 1
Uncounted == IF \E u \in Units : decoder = <<"taken", u>> THEN 1 ELSE 0

\* The counter is what waits, and the unit on either side of the queue.
QueueInv ==
    /\ reader \in Units \cup {"idle"} /\ queue \in Seq(Units)
    /\ decoder \in {<<>>} \cup ({"taken", "counted"} \X Units)
    /\ backlog = Len(queue) + Holding + Uncounted
    /\ backlog <= MaxBacklog + 1

\* The three ways a unit arrives.
LEMMA ArriveKeepsCount == ASSUME QueueInv, NEW u \in Units, Arrive(u) PROVE QueueInv'
<1> USE DEF QueueInv, Holding, Uncounted
<1>1. CASE UNCHANGED <<queue, backlog, reader>>
  BY <1>1 DEF Arrive
<1>2. CASE ~UNCHANGED <<queue, backlog, reader>>
  <2>1. /\ reader = "idle" /\ reader' = u
        /\ backlog' = backlog + 1 /\ ~(backlog > MaxBacklog)
        /\ queue' = queue /\ decoder' = decoder
    BY <1>2 DEF Arrive, Drop
  <2>2. u # "idle"
    BY DEF Units
  <2>3. backlog \in Int
    BY DEF Units
  <2>4. Len(queue) \in Nat
    OBVIOUS
  <2>5. QED
    BY <2>1, <2>2, <2>3, <2>4, ClientAssumption
<1>3. QED
  BY <1>1, <1>2

LEMMA HandOverKeepsCount == QueueInv /\ HandOver => QueueInv'
<1> SUFFICES ASSUME QueueInv, HandOver PROVE QueueInv'
  OBVIOUS
<1> USE DEF QueueInv
<1>1. /\ reader \in Units /\ reader # "idle" /\ reader' = "idle"
      /\ queue' = Append(queue, reader) /\ backlog' = backlog /\ decoder' = decoder
  BY DEF HandOver
<1>2. queue' \in Seq(Units) /\ Len(queue') = Len(queue) + 1
  BY <1>1
<1>3. Holding = 1 /\ Holding' = 0 /\ Uncounted' = Uncounted
  BY <1>1 DEF Holding, Uncounted
<1>4. QED
  BY <1>1, <1>2, <1>3

LEMMA TakeKeepsCount == QueueInv /\ Take => QueueInv'
<1> SUFFICES ASSUME QueueInv, Take PROVE QueueInv'
  OBVIOUS
<1> USE DEF QueueInv
<1>1. /\ decoder = <<>> /\ queue # <<>> /\ decoder' = <<"taken", Head(queue)>>
      /\ queue' = Tail(queue) /\ backlog' = backlog /\ reader' = reader
  BY DEF Take, readVars
<1>2. Head(queue) \in Units /\ queue' \in Seq(Units) /\ Len(queue') = Len(queue) - 1
  BY <1>1
<1>3. Holding' = Holding /\ Uncounted = 0 /\ Uncounted' = 1
  BY <1>1, <1>2 DEF Holding, Uncounted
<1>4. Len(queue) \in Nat /\ Holding \in {0, 1}
  BY DEF Holding
<1>5. decoder' \in {"taken", "counted"} \X Units
  BY <1>1, <1>2
<1>6. backlog' = Len(queue') + Holding' + Uncounted' /\ backlog' <= MaxBacklog + 1
  BY <1>1, <1>2, <1>3, <1>4
<1>7. QED
  BY <1>1, <1>2, <1>5, <1>6

LEMMA DecoderKeepsCount ==
  ASSUME QueueInv, NEW u \in Units, Discount(u) \/ Decode(u) PROVE QueueInv'
<1> USE DEF QueueInv
<1>1. CASE Discount(u)
  <2>1. /\ decoder = <<"taken", u>> /\ decoder' = <<"counted", u>> /\ backlog' = backlog - 1
        /\ queue' = queue /\ reader' = reader
    BY <1>1 DEF Discount, Counted, readVars
  <2>2. Holding' = Holding /\ Uncounted = 1 /\ Uncounted' = 0
    BY <2>1 DEF Holding, Uncounted
  <2>3. Len(queue) \in Nat /\ Holding \in {0, 1}
    BY DEF Holding
  <2>4. QED
    BY <2>1, <2>2, <2>3, ClientAssumption
<1>2. CASE Decode(u)
  <2>1. /\ decoder = <<"counted", u>> /\ decoder' = <<>>
        /\ backlog' = backlog /\ queue' = queue /\ reader' = reader
    BY <1>2 DEF Decode, readVars
  <2>2. Holding' = Holding /\ Uncounted = 0 /\ Uncounted' = 0
    BY <2>1 DEF Holding, Uncounted
  <2>3. QED
    BY <2>1, <2>2
<1>3. QED
  BY <1>1, <1>2

LEMMA QueueStep == QueueInv /\ [Next]_vars => QueueInv'
<1> SUFFICES ASSUME QueueInv, [Next]_vars PROVE QueueInv'
  OBVIOUS
<1> DEFINE Kept == UNCHANGED <<reader, queue, decoder, backlog>>
<1>1. VideoFresh => QueueInv'
  BY ClientAssumption DEF VideoFresh, QueueInv, Holding, Uncounted
<1>2. Kept => QueueInv'
  BY DEF QueueInv, Holding, Uncounted
<1>3. ASSUME NEW l \in Loops, Registered(l) \/ Stop(l) \/ Offer(l) \/ WireEnds(l)
      PROVE VideoFresh \/ Kept
  BY <1>3 DEF Registered, Stop, Offer, WireEnds, LoopEnds, videoVars, readVars
<1>4. ASSUME NEW l \in Loops, Forward(l) \/ Tick(l) PROVE Kept
  BY <1>4 DEF Forward, Tick, videoVars, readVars
<1>5. WindowEnds \/ FallBack \/ Exit \/ HeadlessEnds \/ Present \/ KeyEvent \/ Break
        \/ (\E f \in BOOLEAN : Focused(f)) => Kept
  BY DEF WindowEnds, FallBack, Exit, HeadlessEnds, Present, KeyEvent, Break, Focused,
         videoVars, readVars
<1>6. Reexec => VideoFresh
  BY DEF Reexec
<1>7. UNCHANGED vars => Kept
  BY DEF vars, videoVars, readVars
<1>8. QED
  BY <1>1, <1>2, <1>3, <1>4, <1>5, <1>6, <1>7, ArriveKeepsCount, HandOverKeepsCount,
     TakeKeepsCount, DecoderKeepsCount DEF Next

\* For any limit, the counter covers what waits and what waits stays within the
\* limit and one (DelayBounded in NativeClient).
THEOREM DelayIsBounded == Spec => []DelayBounded
<1>1. Init => QueueInv
  BY ClientAssumption DEF Init, QueueInv, Holding, Uncounted
<1>2. QueueInv => DelayBounded
  <2>1. SUFFICES ASSUME QueueInv PROVE DelayBounded
    OBVIOUS
  <2>2. Len(queue) \in Nat /\ Holding \in {0, 1} /\ Uncounted \in {0, 1}
    BY <2>1 DEF QueueInv, Holding, Uncounted
  <2>3. backlog = Len(queue) + Holding + Uncounted /\ backlog <= MaxBacklog + 1
    BY <2>1 DEF QueueInv
  <2>4. QED
    BY <2>2, <2>3, ClientAssumption DEF DelayBounded
<1>3. QED
  BY <1>1, <1>2, QueueStep, PTL DEF Spec
=============================================================================
