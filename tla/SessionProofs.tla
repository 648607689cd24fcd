--------------------------- MODULE SessionProofs ---------------------------
(***************************************************************************)
(* Whatever players come and go, however often the host's link breaks, and *)
(* in whatever bursts the host hears of it: when everything sent has been  *)
(* read, the host has a peer for every seated player's registration, and   *)
(* the player holds a peer connection.                                     *)
(***************************************************************************)
EXTENDS Session, FiniteSetTheorems, SequenceTheorems, TLAPS

-----------------------------------------------------------------------------
(* What is on its way *)

\* The messages of a queue.
In(q) == {q[i] : i \in 1 .. Len(q)}

HostMessage ==
  [type : {"joined", "left", "request", "answer"}, slot : Slots, epoch : Nat, id : Nat]
OfferMessage == [type : {"offer"}, slot : Slots, epoch : Nat, id : Nat \ {0}]
PlayerMessage == OfferMessage \cup {HostLeft}
Peer == [id : Nat, attached : Nat, offers : Nat, remote : Nat]

Is(m, type, s) == m.type = type /\ m.slot = s
News(m, s, e) == Is(m, "joined", s) /\ m.epoch >= e

\* A queue without a departure from s, from its i-th message on.
NoLeave(q, i, s) == \A j \in i .. Len(q) : ~Is(q[j], "left", s)

\* A queue that tells of a registration at s, and of no departure after it.
Tells(q, s, e) == \E i \in 1 .. Len(q) : News(q[i], s, e) /\ NoLeave(q, i, s)

-----------------------------------------------------------------------------
(* The invariant *)

\* The server's table: a player has one seat, and an epoch that was issued.
TableInv ==
  /\ seat \in [Slots -> Players \cup {None}]
  /\ joined \in [Slots -> Nat] /\ epoch \in Nat
  /\ \A s \in Seated : 0 < joined[s] /\ joined[s] <= epoch
  /\ \A s, t \in Seated : seat[s] = seat[t] => s = t

\* The host's peers: one that does not exist has no registration.
HostInv ==
  /\ inbox \in Seq(HostMessage) /\ todo \in Seq(HostMessage)
  /\ outbox \in Seq(OfferMessage)
  /\ conns \in [Slots -> Peer] /\ builds \in Nat
  /\ \A s \in Slots : conns[s].id = 0 => conns[s].attached = 0
  /\ ~started => todo = <<>> /\ \A s \in Slots : conns[s].id = 0

\* A player that is up holds a peer connection.
PlayerInv ==
  /\ toPlayer \in [Players -> Seq(PlayerMessage)]
  /\ applying \in [Players -> Seq(OfferMessage)]
  /\ pc \in [Players -> Nat] /\ up \in [Players -> BOOLEAN]
  /\ \A p \in Players : up[p] => pc[p] # 0

\* The host knows of no registration that is newer than the server's count.
EpochsInv ==
  /\ restarts \in Nat
  /\ restarts = 0 =>
       /\ \A s \in Slots : conns[s].attached <= epoch
       /\ \A m \in In(inbox) \cup In(todo) : m.type = "joined" => m.epoch <= epoch

\* The host has, or is being told to make, a peer for the registration at s, and
\* no stale departure will take it away again.
Known(s) ==
  \/ Tells(inbox, s, joined[s])
  \/ /\ NoLeave(inbox, 1, s)
     /\ \/ conns[s].attached >= joined[s]
        \/ \E m \in In(todo) : News(m, s, joined[s])

\* What the player holds when it has read what was sent to it.
WillHold(p) ==
  IF toPlayer[p] = <<>> THEN pc[p] # 0
  ELSE toPlayer[p][Len(toPlayer[p])].type = "offer"

\* Messages that make the host offer.
Newer(m, s) == Is(m, "joined", s) /\ m.epoch > conns[s].attached
Asks(m, s) == Is(m, "request", s) /\ conns[s].id # 0

OfferComes(s) ==
  \/ \E m \in In(inbox) \cup In(todo) : Newer(m, s) \/ Asks(m, s)
  \/ \E o \in In(outbox) : o.slot = s

\* A seated player is known to the host, and has a peer connection or an offer to
\* come, as long as the host is registered.
SeatInv(s) ==
  link = "live" /\ s \in Seated =>
    /\ Known(s)
    /\ restarts = 0 => WillHold(seat[s]) \/ OfferComes(s)

SessionInv ==
  TableInv /\ HostInv /\ PlayerInv /\ EpochsInv /\ \A s \in Slots : SeatInv(s)

-----------------------------------------------------------------------------
(* Queues *)

LEMMA InTyped == ASSUME NEW S, NEW q \in Seq(S) PROVE In(q) \subseteq S
BY DEF In

LEMMA InEmpty == In(<<>>) = {}
BY DEF In

LEMMA InConcat ==
  ASSUME NEW S, NEW q \in Seq(S), NEW r \in Seq(S)
  PROVE  q \o r \in Seq(S) /\ In(q \o r) = In(q) \cup In(r)
<1>1. /\ q \o r \in Seq(S) /\ Len(q \o r) = Len(q) + Len(r)
      /\ \A i \in 1 .. Len(q) + Len(r) : (q \o r)[i] = IF i <= Len(q) THEN q[i] ELSE r[i - Len(q)]
  BY ConcatProperties
<1>2. Len(q) \in Nat /\ Len(r) \in Nat
  OBVIOUS
<1>3. ASSUME NEW m \in In(q \o r) PROVE m \in In(q) \cup In(r)
  <2>1. PICK i \in 1 .. Len(q) + Len(r) : m = (q \o r)[i]
    BY <1>1 DEF In
  <2>2. CASE i <= Len(q)
    BY <1>1, <1>2, <2>1, <2>2 DEF In
  <2>3. CASE ~(i <= Len(q))
    <3>1. i - Len(q) \in 1 .. Len(r)
      BY <1>2, <2>3
    <3>2. m = r[i - Len(q)]
      BY <1>1, <2>1, <2>3
    <3>3. QED
      BY <3>1, <3>2 DEF In
  <2>4. QED
    BY <2>2, <2>3
<1>4. ASSUME NEW m \in In(q) PROVE m \in In(q \o r)
  <2>1. PICK i \in 1 .. Len(q) : m = q[i]
    BY DEF In
  <2>2. i \in 1 .. Len(q) + Len(r) /\ i <= Len(q)
    BY <1>2
  <2>3. m = (q \o r)[i]
    BY <1>1, <2>1, <2>2
  <2>4. QED
    BY <1>1, <2>2, <2>3 DEF In
<1>5. ASSUME NEW m \in In(r) PROVE m \in In(q \o r)
  <2>1. PICK i \in 1 .. Len(r) : m = r[i]
    BY DEF In
  <2>2. /\ Len(q) + i \in 1 .. Len(q) + Len(r)
        /\ ~(Len(q) + i <= Len(q)) /\ (Len(q) + i) - Len(q) = i
    BY <1>2
  <2>3. m = (q \o r)[Len(q) + i]
    BY <1>1, <2>1, <2>2
  <2>4. QED
    BY <1>1, <2>2, <2>3 DEF In
<1>6. QED
  BY <1>1, <1>3, <1>4, <1>5

LEMMA InOne == ASSUME NEW m PROVE In(<<m>>) = {m}
<1>1. Len(<<m>>) = 1 /\ <<m>>[1] = m
  OBVIOUS
<1>2. \A i : i \in 1 .. 1 <=> i = 1
  OBVIOUS
<1>3. In(<<m>>) = {<<m>>[i] : i \in 1 .. 1}
  BY <1>1 DEF In
<1>4. ASSUME NEW x PROVE x \in In(<<m>>) <=> x = m
  BY <1>1, <1>2, <1>3, Zenon
<1>5. QED
  BY <1>4

LEMMA InAppend ==
  ASSUME NEW S, NEW q \in Seq(S), NEW m \in S
  PROVE  Append(q, m) \in Seq(S) /\ In(Append(q, m)) = In(q) \cup {m}
<1> DEFINE one == <<m>>
<1>1. one \in Seq(S) /\ In(one) = {m}
  BY InOne
<1>2. Append(q, m) = q \o one
  BY AppendIsConcat
<1> HIDE DEF one
<1>3. QED
  BY <1>1, <1>2, InConcat

LEMMA InTail ==
  ASSUME NEW S, NEW q \in Seq(S), q # <<>>
  PROVE  /\ Tail(q) \in Seq(S) /\ Head(q) \in In(q)
         /\ In(q) = {Head(q)} \cup In(Tail(q))
<1>1. /\ Tail(q) \in Seq(S) /\ Len(q) \in Nat \ {0}
      /\ Len(Tail(q)) = Len(q) - 1 /\ Head(q) = q[1]
      /\ \A i \in 1 .. Len(q) - 1 : Tail(q)[i] = q[i + 1]
  BY HeadTailProperties, EmptySeq
<1>2. Head(q) \in In(q)
  BY <1>1 DEF In
<1>3. ASSUME NEW m \in In(q), m # Head(q) PROVE m \in In(Tail(q))
  <2>1. PICK i \in 1 .. Len(q) : m = q[i]
    BY DEF In
  <2>2. i # 1
    BY <1>1, <1>3, <2>1
  <2>3. i - 1 \in 1 .. Len(q) - 1 /\ (i - 1) + 1 = i
    BY <1>1, <2>2
  <2>4. m = Tail(q)[i - 1]
    BY <1>1, <2>1, <2>3
  <2>5. QED
    BY <1>1, <2>3, <2>4 DEF In
<1>4. ASSUME NEW m \in In(Tail(q)) PROVE m \in In(q)
  <2>1. PICK i \in 1 .. Len(q) - 1 : m = Tail(q)[i]
    BY <1>1 DEF In
  <2>2. i + 1 \in 1 .. Len(q) /\ m = q[i + 1]
    BY <1>1, <2>1
  <2>3. QED
    BY <2>2 DEF In
<1>5. QED
  BY <1>1, <1>2, <1>3, <1>4

\* Something is told, or kept, behind a queue.
LEMMA TellsConcat ==
  ASSUME NEW q \in Seq(HostMessage), NEW r \in Seq(HostMessage), NEW s, NEW e
  PROVE  /\ Tells(r, s, e) => Tells(q \o r, s, e)
         /\ Tells(q, s, e) /\ NoLeave(r, 1, s) => Tells(q \o r, s, e)
         /\ NoLeave(q, 1, s) /\ NoLeave(r, 1, s) => NoLeave(q \o r, 1, s)
<1>1. /\ Len(q \o r) = Len(q) + Len(r) /\ Len(q) \in Nat /\ Len(r) \in Nat
      /\ \A i \in 1 .. Len(q) + Len(r) : (q \o r)[i] = IF i <= Len(q) THEN q[i] ELSE r[i - Len(q)]
  BY ConcatProperties
<1>2. ASSUME NEW i \in 1 .. Len(r), NoLeave(r, i, s) PROVE NoLeave(q \o r, Len(q) + i, s)
  <2> SUFFICES ASSUME NEW j \in (Len(q) + i) .. Len(q \o r)
               PROVE  ~Is((q \o r)[j], "left", s)
    BY DEF NoLeave
  <2>1. j \in 1 .. Len(q) + Len(r) /\ ~(j <= Len(q)) /\ j - Len(q) \in i .. Len(r)
    BY <1>1
  <2>2. (q \o r)[j] = r[j - Len(q)]
    BY <1>1, <2>1
  <2>3. QED
    BY <1>2, <2>1, <2>2 DEF NoLeave
<1>3. ASSUME NEW i \in 1 .. Len(q) + 1, NoLeave(q, i, s), NoLeave(r, 1, s)
      PROVE  NoLeave(q \o r, i, s)
  <2> SUFFICES ASSUME NEW j \in i .. Len(q \o r) PROVE ~Is((q \o r)[j], "left", s)
    BY DEF NoLeave
  <2>1. CASE j <= Len(q)
    <3>1. j \in 1 .. Len(q) + Len(r) /\ j \in i .. Len(q)
      BY <1>1, <2>1
    <3>2. QED
      BY <1>1, <1>3, <2>1, <3>1 DEF NoLeave
  <2>2. CASE ~(j <= Len(q))
    <3>1. j \in 1 .. Len(q) + Len(r) /\ j - Len(q) \in 1 .. Len(r)
      BY <1>1, <2>2
    <3>2. QED
      BY <1>1, <1>3, <2>2, <3>1 DEF NoLeave
  <2>3. QED
    BY <2>1, <2>2
<1>4. ASSUME Tells(r, s, e) PROVE Tells(q \o r, s, e)
  <2>1. PICK i \in 1 .. Len(r) : News(r[i], s, e) /\ NoLeave(r, i, s)
    BY <1>4 DEF Tells
  <2>2. /\ Len(q) + i \in 1 .. Len(q) + Len(r) /\ ~(Len(q) + i <= Len(q))
        /\ (Len(q) + i) - Len(q) = i
    BY <1>1
  <2>3. (q \o r)[Len(q) + i] = r[i]
    BY <1>1, <2>2
  <2>4. QED
    BY <1>1, <1>2, <2>1, <2>2, <2>3 DEF Tells
<1>5. ASSUME Tells(q, s, e), NoLeave(r, 1, s) PROVE Tells(q \o r, s, e)
  <2>1. PICK i \in 1 .. Len(q) : News(q[i], s, e) /\ NoLeave(q, i, s)
    BY <1>5 DEF Tells
  <2>2. i \in 1 .. Len(q) + Len(r) /\ i <= Len(q) /\ i \in 1 .. Len(q) + 1
    BY <1>1
  <2>3. (q \o r)[i] = q[i]
    BY <1>1, <2>2
  <2>4. QED
    BY <1>1, <1>3, <1>5, <2>1, <2>2, <2>3 DEF Tells
<1>6. ASSUME NoLeave(q, 1, s), NoLeave(r, 1, s) PROVE NoLeave(q \o r, 1, s)
  <2>1. 1 \in 1 .. Len(q) + 1
    BY <1>1
  <2>2. QED
    BY <1>3, <1>6, <2>1
<1>7. QED
  BY <1>4, <1>5, <1>6

\* What a queue tells when its head has been taken.
LEMMA TellsTail ==
  ASSUME NEW q \in Seq(HostMessage), q # <<>>, NEW s, NEW e
  PROVE  /\ NoLeave(q, 1, s) => NoLeave(Tail(q), 1, s) /\ ~Is(Head(q), "left", s)
         /\ Tells(q, s, e) => \/ Tells(Tail(q), s, e)
                              \/ News(Head(q), s, e) /\ NoLeave(Tail(q), 1, s)
<1>1. /\ Len(q) \in Nat \ {0} /\ Len(Tail(q)) = Len(q) - 1 /\ Head(q) = q[1]
      /\ \A i \in 1 .. Len(q) - 1 : Tail(q)[i] = q[i + 1]
  BY HeadTailProperties, EmptySeq
<1>2. ASSUME NEW i \in 1 .. Len(q) - 1, NoLeave(q, i + 1, s) PROVE NoLeave(Tail(q), i, s)
  <2> SUFFICES ASSUME NEW j \in i .. Len(Tail(q)) PROVE ~Is(Tail(q)[j], "left", s)
    BY DEF NoLeave
  <2>1. j \in 1 .. Len(q) - 1 /\ j + 1 \in (i + 1) .. Len(q)
    BY <1>1
  <2>2. QED
    BY <1>1, <1>2, <2>1 DEF NoLeave
<1>3. ASSUME NoLeave(q, 1, s) PROVE NoLeave(Tail(q), 1, s) /\ ~Is(Head(q), "left", s)
  <2>1. NoLeave(Tail(q), 1, s)
    <3> SUFFICES ASSUME NEW j \in 1 .. Len(Tail(q)) PROVE ~Is(Tail(q)[j], "left", s)
      BY DEF NoLeave
    <3>1. j \in 1 .. Len(q) - 1 /\ j + 1 \in 1 .. Len(q)
      BY <1>1
    <3>2. QED
      BY <1>1, <1>3, <3>1 DEF NoLeave
  <2>2. 1 \in 1 .. Len(q)
    BY <1>1
  <2>3. QED
    BY <1>1, <1>3, <2>1, <2>2 DEF NoLeave
<1>4. ASSUME Tells(q, s, e)
      PROVE  Tells(Tail(q), s, e) \/ (News(Head(q), s, e) /\ NoLeave(Tail(q), 1, s))
  <2>1. PICK i \in 1 .. Len(q) : News(q[i], s, e) /\ NoLeave(q, i, s)
    BY <1>4 DEF Tells
  <2>2. CASE i = 1
    BY <1>1, <1>3, <2>1, <2>2
  <2>3. CASE i # 1
    <3>1. i - 1 \in 1 .. Len(q) - 1 /\ (i - 1) + 1 = i
      BY <1>1, <2>3
    <3>2. Tail(q)[i - 1] = q[i] /\ NoLeave(Tail(q), i - 1, s)
      BY <1>1, <1>2, <2>1, <3>1
    <3>3. QED
      BY <1>1, <2>1, <3>1, <3>2 DEF Tells
  <2>4. QED
    BY <2>2, <2>3
<1>5. QED
  BY <1>3, <1>4

LEMMA EmptyTells == ASSUME NEW s, NEW e PROVE ~Tells(<<>>, s, e) /\ NoLeave(<<>>, 1, s)
BY DEF Tells, NoLeave

\* One message.
LEMMA OneTells ==
  ASSUME NEW m, NEW s, NEW e
  PROVE  /\ News(m, s, e) => Tells(<<m>>, s, e)
         /\ ~Is(m, "left", s) => NoLeave(<<m>>, 1, s)
<1>1. Len(<<m>>) = 1 /\ <<m>>[1] = m
  OBVIOUS
<1>2. \A j \in 1 .. 1 : j = 1
  OBVIOUS
<1>3. ASSUME ~Is(m, "left", s) PROVE NoLeave(<<m>>, 1, s)
  BY <1>1, <1>2, <1>3 DEF NoLeave
<1>4. News(m, s, e) => ~Is(m, "left", s)
  BY DEF News, Is
<1>5. QED
  BY <1>1, <1>3, <1>4 DEF Tells
-----------------------------------------------------------------------------
(* Numbers in order *)

\* The place of a number among those of a set is the number of those up to it, and
\* every place is taken.
LEMMA Places ==
  ASSUME NEW ns \in SUBSET Nat, IsFiniteSet(ns)
  PROVE  /\ Cardinality(ns) \in Nat
         /\ \A n \in ns : Cardinality({m \in ns : m <= n}) \in 1 .. Cardinality(ns)
         /\ \A i \in 1 .. Cardinality(ns) : \E n \in ns : Cardinality({m \in ns : m <= n}) = i
         /\ \A k, n \in ns : Cardinality({m \in ns : m <= k}) = Cardinality({m \in ns : m <= n}) => k = n
<1> DEFINE upTo(n) == {m \in ns : m <= n}
           size == Cardinality(ns)
<1>1. size \in Nat
  BY FS_CardinalityType
<1>2. ASSUME NEW n \in ns
      PROVE  IsFiniteSet(upTo(n)) /\ Cardinality(upTo(n)) \in 1 .. size
  <2>1. IsFiniteSet(upTo(n)) /\ Cardinality(upTo(n)) <= size
    BY FS_Subset
  <2>2. Cardinality(upTo(n)) \in Nat
    BY <2>1, FS_CardinalityType
  <2>3. n \in upTo(n)
    OBVIOUS
  <2>4. Cardinality(upTo(n)) # 0
    BY <2>1, <2>3, FS_EmptySet
  <2> HIDE DEF upTo, size
  <2>5. QED
    BY <1>1, <2>1, <2>2, <2>4
<1>3. ASSUME NEW k \in ns, NEW n \in ns, k < n
      PROVE  Cardinality(upTo(k)) # Cardinality(upTo(n))
  <2>1. upTo(k) \subseteq upTo(n) /\ n \in upTo(n) /\ n \notin upTo(k)
    <3>1. \A m \in ns : m \in Nat
      OBVIOUS
    <3>2. \A m \in ns : m <= k => m <= n
      BY <1>3, <3>1
    <3>3. n <= n /\ ~(n <= k)
      BY <1>3, <3>1
    <3>4. QED
      BY <3>2, <3>3, Zenon
  <2>2. IsFiniteSet(upTo(n))
    BY <1>2
  <2> HIDE DEF upTo
  <2> DEFINE a == upTo(k)
             b == upTo(n)
  <2>3. a \in SUBSET b /\ IsFiniteSet(b) /\ a # b
    BY <2>1, <2>2
  <2> HIDE DEF a, b
  <2>4. Cardinality(a) # Cardinality(b)
    BY <2>3, FS_Subset
  <2>5. QED
    BY <2>4 DEF a, b
<1> HIDE DEF upTo
<1>4. ASSUME NEW k \in ns, NEW n \in ns, Cardinality(upTo(k)) = Cardinality(upTo(n))
      PROVE  k = n
  <2>1. k \in Nat /\ n \in Nat
    OBVIOUS
  <2>2. k < n \/ n < k \/ k = n
    BY <2>1
  <2>3. QED
    BY <1>3, <1>4, <2>2
<1> DEFINE place == [n \in ns |-> Cardinality(upTo(n))]
<1>5. place \in Injection(ns, 1 .. size)
  <2>1. place \in [ns -> 1 .. size]
    BY <1>2 DEF size
  <2>2. \A k, n \in ns : place[k] = place[n] => k = n
    BY <1>4
  <2>3. QED
    BY <2>1, <2>2 DEF Injection, IsInjective
<1>6. IsFiniteSet(1 .. size) /\ Cardinality(1 .. size) = size
  BY <1>1, FS_Interval
<1>7. place \in Surjection(ns, 1 .. size)
  BY <1>5, <1>6, FS_Injection
<1>8. \A i \in 1 .. size : \E n \in ns : Cardinality(upTo(n)) = i
  BY <1>7 DEF Surjection
<1>9. QED
  BY <1>1, <1>2, <1>4, <1>8 DEF upTo

LEMMA Ordered ==
  ASSUME NEW ns \in SUBSET Nat, IsFiniteSet(ns)
  PROVE  /\ Cardinality(ns) \in Nat
         /\ InOrder(ns) \in [1 .. Cardinality(ns) -> ns]
         /\ \A n \in ns : \E i \in 1 .. Cardinality(ns) : InOrder(ns)[i] = n
<1> DEFINE place(n) == Cardinality({m \in ns : m <= n})
           size == Cardinality(ns)
<1>1. /\ size \in Nat
      /\ \A n \in ns : place(n) \in 1 .. size
      /\ \A i \in 1 .. size : \E n \in ns : place(n) = i
      /\ \A k, n \in ns : place(k) = place(n) => k = n
  BY Places
<1>2. InOrder(ns) = [i \in 1 .. size |-> CHOOSE n \in ns : place(n) = i]
  BY DEF InOrder
<1> HIDE DEF place, size
<1>3. ASSUME NEW i \in 1 .. size PROVE InOrder(ns)[i] \in ns /\ place(InOrder(ns)[i]) = i
  BY <1>1, <1>2
<1>4. ASSUME NEW n \in ns PROVE \E i \in 1 .. size : InOrder(ns)[i] = n
  BY <1>1, <1>3
<1>5. QED
  BY <1>1, <1>2, <1>3, <1>4 DEF size

\* A finite set of numbers has a greatest one.
LEMMA Greatest ==
  ASSUME NEW ns \in SUBSET Nat, IsFiniteSet(ns), ns # {}
  PROVE  \E n \in ns : \A m \in ns : m <= n
<1>1. Cardinality(ns) \in Nat \ {0}
  BY FS_CardinalityType, FS_EmptySet
<1>2. PICK n \in ns : Cardinality({m \in ns : m <= n}) = Cardinality(ns)
  BY <1>1, Places
<1>3. {m \in ns : m <= n} = ns
  BY <1>2, FS_Subset
<1>4. QED
  BY <1>3

\* A queue holds finitely many messages.
LEMMA FewMessages == ASSUME NEW S, NEW q \in Seq(S) PROVE IsFiniteSet(In(q))
<1> DEFINE f == [i \in 1 .. Len(q) |-> q[i]]
<1>1. f \in Surjection(1 .. Len(q), In(q))
  BY DEF Surjection, In
<1>2. IsFiniteSet(1 .. Len(q))
  BY FS_Interval
<1>3. QED
  BY <1>1, <1>2, FS_Surjection

LEMMA FewSlots == IsFiniteSet(Slots) /\ Slots \in SUBSET Nat
<1>1. 1 \in Int /\ MaxPlayers \in Int
  BY SessionAssumption
<1>2. IsFiniteSet(1 .. MaxPlayers)
  BY <1>1, FS_Interval
<1>3. QED
  BY <1>2 DEF Slots

\* A queue that holds a registration, and no departure, tells of it.
LEMMA TellsAll ==
  ASSUME NEW q \in Seq(HostMessage), NEW s, NEW e
  PROVE  /\ Tells(q, s, e) => \E m \in In(q) : News(m, s, e)
         /\ (\A m \in In(q) : ~Is(m, "left", s)) => NoLeave(q, 1, s)
         /\ (\A m \in In(q) : ~Is(m, "left", s)) /\ (\E m \in In(q) : News(m, s, e))
              => Tells(q, s, e)
<1>1. \A i \in 1 .. Len(q) : q[i] \in In(q)
  BY DEF In
<1>2. ASSUME \A m \in In(q) : ~Is(m, "left", s), NEW i \in 1 .. Len(q)
      PROVE  NoLeave(q, i, s)
  <2>1. \A j \in i .. Len(q) : j \in 1 .. Len(q)
    OBVIOUS
  <2>2. QED
    BY <1>1, <1>2, <2>1, Zenon DEF NoLeave
<1>3. (\A m \in In(q) : ~Is(m, "left", s)) => NoLeave(q, 1, s)
  BY <1>1, Zenon DEF NoLeave
<1>4. ASSUME \A m \in In(q) : ~Is(m, "left", s), NEW m \in In(q), News(m, s, e)
      PROVE  Tells(q, s, e)
  <2>1. PICK i \in 1 .. Len(q) : m = q[i]
    BY DEF In
  <2>2. QED
    BY <1>2, <1>4, <2>1, Zenon DEF Tells
<1>5. Tells(q, s, e) => \E m \in In(q) : News(m, s, e)
  BY <1>1, Zenon DEF Tells
<1>6. QED
  BY <1>3, <1>4, <1>5, Zenon

\* The server tells a host that registers of every seated player, with an epoch
\* that is newer than every one before (replay_for_host).
LEMMA Replayed ==
  ASSUME TableInv
  PROVE  /\ Cardinality(Seated) \in Nat
         /\ Replay \in Seq(HostMessage)
         /\ \A m \in In(Replay) :
              m.type = "joined" /\ m.epoch <= epoch + Cardinality(Seated)
         /\ \A s \in Seated : \E m \in In(Replay) : Is(m, "joined", s) /\ m.epoch > epoch
<1> DEFINE size == Cardinality(Seated)
           place(s) == Cardinality({t \in Seated : t <= s})
<1>1. Seated \in SUBSET Nat /\ Seated \subseteq Slots /\ IsFiniteSet(Seated) /\ epoch \in Nat
  <2>1. Seated \in SUBSET Slots
    BY DEF Seated
  <2>2. QED
    BY <2>1, FewSlots, FS_Subset DEF TableInv
<1>2. size \in Nat /\ \A s \in Seated : place(s) \in 1 .. size
  BY <1>1, Places
<1>3. /\ InOrder(Seated) \in [1 .. size -> Seated]
      /\ \A s \in Seated : \E i \in 1 .. size : InOrder(Seated)[i] = s
  BY <1>1, Ordered
<1>4. Replay = [i \in 1 .. size |-> PeerJoined(InOrder(Seated)[i], epoch + place(InOrder(Seated)[i]))]
  BY DEF Replay, ReplayEpoch
<1>5. \A s \in Seated : epoch + place(s) \in Nat /\ epoch + place(s) > epoch
                        /\ epoch + place(s) <= epoch + size
  BY <1>1, <1>2
<1> HIDE DEF size, place
<1>6. ASSUME NEW s \in Seated
      PROVE  /\ PeerJoined(s, epoch + place(s)) \in HostMessage
             /\ Is(PeerJoined(s, epoch + place(s)), "joined", s)
             /\ PeerJoined(s, epoch + place(s)).type = "joined"
             /\ PeerJoined(s, epoch + place(s)).epoch = epoch + place(s)
  BY <1>1, <1>5 DEF PeerJoined, Msg, HostMessage, Is
<1>7. ASSUME NEW i \in 1 .. size PROVE Replay[i] \in HostMessage
  BY <1>3, <1>4, <1>6
<1>8. Replay \in Seq(HostMessage) /\ Len(Replay) = size
  BY <1>2, <1>4, <1>7
<1>9. ASSUME NEW m \in In(Replay) PROVE m.type = "joined" /\ m.epoch <= epoch + size
  <2>1. PICK i \in 1 .. size : m = Replay[i]
    BY <1>8 DEF In
  <2>2. InOrder(Seated)[i] \in Seated
    BY <1>3
  <2>3. QED
    BY <1>4, <1>5, <1>6, <2>1, <2>2
<1>10. ASSUME NEW s \in Seated PROVE \E m \in In(Replay) : Is(m, "joined", s) /\ m.epoch > epoch
  <2>1. PICK i \in 1 .. size : InOrder(Seated)[i] = s
    BY <1>3
  <2>2. Replay[i] = PeerJoined(s, epoch + place(s)) /\ Replay[i] \in In(Replay)
    BY <1>4, <1>8, <2>1 DEF In
  <2>3. QED
    BY <1>5, <1>6, <2>2
<1>11. QED
  BY <1>2, <1>8, <1>9, <1>10 DEF size

\* The newest registration of a slot is one, and no other is newer.
LEMMA NewestIs ==
  ASSUME inbox \in Seq(HostMessage), NEW m \in Joins
  PROVE  /\ Newest(m.slot) \in Joins /\ Newest(m.slot).slot = m.slot
         /\ m.epoch <= Newest(m.slot).epoch
<1> DEFINE s == m.slot
           heard == {n \in Joins : n.slot = s}
           epochs == {n.epoch : n \in heard}
<1>1. Joins \subseteq In(inbox) /\ In(inbox) \subseteq HostMessage
  BY InTyped DEF Joins, In
<1>2. heard \in SUBSET In(inbox) /\ m \in heard
  BY <1>1
<1>3. IsFiniteSet(heard)
  BY <1>2, FewMessages, FS_Subset
<1>4. IsFiniteSet(epochs)
  <2> DEFINE f == [n \in heard |-> n.epoch]
  <2>1. f \in Surjection(heard, epochs)
    BY DEF Surjection
  <2> HIDE DEF f, heard, epochs
  <2>2. QED
    BY <1>3, <2>1, FS_Surjection
<1>5. epochs \in SUBSET Nat /\ epochs # {}
  BY <1>1, <1>2 DEF HostMessage
<1>6. PICK e \in epochs : \A x \in epochs : x <= e
  <2> HIDE DEF epochs
  <2>1. QED
    BY <1>4, <1>5, Greatest
<1>7. PICK n \in heard : n.epoch = e
  OBVIOUS
<1>8. n \in Joins /\ n.slot = s /\ \A k \in Joins : k.slot = s => k.epoch <= n.epoch
  BY <1>6, <1>7
<1>9. /\ Newest(s) \in Joins /\ Newest(s).slot = s
      /\ \A k \in Joins : k.slot = s => k.epoch <= Newest(s).epoch
  <2> HIDE DEF s
  <2>1. QED
    BY <1>8, Zenon DEF Newest
<1>10. QED
  BY <1>9

\* A burst keeps every message that is no registration, and of the registrations of
\* a slot the newest (take_queued_joins).
LEMMA Coalesced ==
  ASSUME inbox \in Seq(HostMessage)
  PROVE  /\ Burst \in Seq(HostMessage)
         /\ In(Burst) \subseteq In(inbox)
         /\ \A m \in In(inbox) : m.type # "joined" => m \in In(Burst)
         /\ \A m \in In(inbox) : m.type = "joined" =>
              \E n \in In(Burst) : Is(n, "joined", m.slot) /\ m.epoch <= n.epoch
<1>1. In(inbox) \subseteq HostMessage /\ Joins = {m \in In(inbox) : m.type = "joined"}
  BY InTyped DEF Joins, In
<1> DEFINE slots == {m.slot : m \in Joins}
           others == {i \in 1 .. Len(inbox) : inbox[i].type # "joined"}
<1>2. slots \in SUBSET Nat /\ IsFiniteSet(slots)
  <2>1. slots \in SUBSET Slots
    BY <1>1 DEF HostMessage
  <2> HIDE DEF slots
  <2>2. QED
    BY <2>1, FewSlots, FS_Subset
<1>3. others \in SUBSET Nat /\ IsFiniteSet(others)
  <2>1. others \in SUBSET (1 .. Len(inbox)) /\ IsFiniteSet(1 .. Len(inbox))
    BY FS_Interval
  <2>2. others \in SUBSET Nat
    BY <2>1
  <2> HIDE DEF others
  <2>3. QED
    BY <2>1, <2>2, FS_Subset
<1>4. /\ Cardinality(slots) \in Nat /\ InOrder(slots) \in [1 .. Cardinality(slots) -> slots]
      /\ \A s \in slots : \E i \in 1 .. Cardinality(slots) : InOrder(slots)[i] = s
  <2> HIDE DEF slots
  <2>1. QED
    BY <1>2, Ordered
<1>5. /\ Cardinality(others) \in Nat /\ InOrder(others) \in [1 .. Cardinality(others) -> others]
      /\ \A k \in others : \E i \in 1 .. Cardinality(others) : InOrder(others)[i] = k
  <2> HIDE DEF others
  <2>1. QED
    BY <1>3, Ordered
<1>6. Newcomers = [i \in 1 .. Cardinality(slots) |-> Newest(InOrder(slots)[i])]
  BY <1>4 DEF Newcomers
<1>7. Deferred = [i \in 1 .. Cardinality(others) |-> inbox[InOrder(others)[i]]]
  BY <1>5 DEF Deferred
<1>8. ASSUME NEW s \in slots PROVE Newest(s) \in Joins /\ Newest(s).slot = s
  <2>1. PICK m \in Joins : m.slot = s
    OBVIOUS
  <2>2. QED
    BY <2>1, NewestIs
<1>9. \A m \in Joins : m.slot \in slots
  OBVIOUS
<1>10. \A k \in others : inbox[k] \in In(inbox)
  BY DEF In
<1>11. \A m \in In(inbox) : m.type # "joined" => \E k \in others : inbox[k] = m
  BY DEF In
<1> HIDE DEF slots, others
<1>12. Newcomers \in Seq(In(inbox)) /\ Len(Newcomers) = Cardinality(slots)
  <2>1. \A i \in 1 .. Cardinality(slots) : Newest(InOrder(slots)[i]) \in In(inbox)
    BY <1>1, <1>4, <1>8
  <2>2. QED
    BY <1>4, <1>6, <2>1
<1>13. Deferred \in Seq(In(inbox)) /\ Len(Deferred) = Cardinality(others)
  <2>1. \A i \in 1 .. Cardinality(others) : inbox[InOrder(others)[i]] \in In(inbox)
    BY <1>5, <1>10
  <2>2. QED
    BY <1>5, <1>7, <2>1
<1>14. /\ Burst \in Seq(In(inbox)) /\ In(Burst) = In(Newcomers) \cup In(Deferred)
  BY <1>12, <1>13, InConcat DEF Burst
<1>15. In(Burst) \subseteq In(inbox) /\ Burst \in Seq(HostMessage)
  BY <1>1, <1>14, InTyped
<1>16. ASSUME NEW m \in In(inbox), m.type # "joined" PROVE m \in In(Burst)
  <2>1. PICK k \in others : inbox[k] = m
    BY <1>11, <1>16
  <2>2. PICK i \in 1 .. Cardinality(others) : InOrder(others)[i] = k
    BY <1>5
  <2>3. Deferred[i] = m /\ i \in 1 .. Len(Deferred)
    BY <1>7, <1>13, <2>1, <2>2
  <2>4. QED
    BY <1>14, <2>3 DEF In
<1>17. ASSUME NEW m \in In(inbox), m.type = "joined"
       PROVE  \E n \in In(Burst) : Is(n, "joined", m.slot) /\ m.epoch <= n.epoch
  <2>1. m \in Joins /\ m.slot \in slots
    BY <1>1, <1>9, <1>17
  <2>2. PICK i \in 1 .. Cardinality(slots) : InOrder(slots)[i] = m.slot
    BY <1>4, <2>1
  <2>3. Newcomers[i] = Newest(m.slot) /\ Newest(m.slot) \in In(Newcomers)
    BY <1>6, <1>12, <2>2 DEF In
  <2>4. /\ Newest(m.slot) \in Joins /\ Newest(m.slot).slot = m.slot
        /\ m.epoch <= Newest(m.slot).epoch
    BY <2>1, NewestIs
  <2>5. Newest(m.slot).type = "joined"
    BY <1>1, <2>4
  <2>6. QED
    BY <1>14, <2>3, <2>4, <2>5 DEF Is
<1>18. QED
  BY <1>15, <1>16, <1>17

-----------------------------------------------------------------------------
(* The server's table *)

LEMMA TableStep == ASSUME TableInv, [Next]_vars PROVE TableInv'
<1> USE DEF TableInv
<1>1. ASSUME NEW p \in Players, PlayerJoins(p) PROVE TableInv'
  <2>1. PICK s \in Slots :
          /\ seat[s] = None
          /\ seat' = [seat EXCEPT ![s] = p]
          /\ joined' = [joined EXCEPT ![s] = epoch + 1]
    BY <1>1 DEF PlayerJoins
  <2>2. epoch' = epoch + 1 /\ \A t \in Slots : seat[t] # p
    BY <1>1 DEF PlayerJoins, Seats
  <2>3. p # None
    BY SessionAssumption
  <2>4. \A t \in Seated' : 0 < joined'[t] /\ joined'[t] <= epoch'
    BY <2>1, <2>2 DEF Seated
  <2>5. \A t, u \in Seated' : seat'[t] = seat'[u] => t = u
    BY <2>1, <2>2 DEF Seated
  <2>6. QED
    BY <2>1, <2>2, <2>4, <2>5
<1>2. ASSUME NEW p \in Players, PlayerLeaves(p) PROVE TableInv'
  <2>1. PICK s \in Slots :
          seat' = [seat EXCEPT ![s] = None] /\ joined' = [joined EXCEPT ![s] = 0]
    BY <1>2 DEF PlayerLeaves, Seats
  <2>2. epoch' = epoch
    BY <1>2 DEF PlayerLeaves
  <2>3. \A t \in Seated' : t \in Seated /\ joined'[t] = joined[t] /\ seat'[t] = seat[t]
    BY <2>1 DEF Seated
  <2>4. QED
    BY <2>1, <2>2, <2>3
<1>3. ASSUME HostRegisters PROVE TableInv'
  <2>1. Cardinality(Seated) \in Nat
    BY Replayed
  <2>2. /\ epoch' = epoch + Cardinality(Seated) /\ seat' = seat /\ joined' = joined
        /\ Seated' = Seated
    BY <1>3 DEF HostRegisters, Seated
  <2>3. \A s \in Seated : s \in Slots
    BY DEF Seated
  <2>4. QED
    BY <2>1, <2>2, <2>3
<1>4. ASSUME ServerRestarts PROVE TableInv'
  BY <1>4 DEF ServerRestarts, Seated
<1>5. ASSUME UNCHANGED <<seat, joined, epoch>> PROVE TableInv'
  BY <1>5 DEF Seated
<1>6. CASE LinkBreaks
  BY <1>5, <1>6 DEF LinkBreaks
<1>7. CASE ServerNotices
  BY <1>5, <1>7 DEF ServerNotices
<1>8. CASE Relay
  BY <1>5, <1>8 DEF Relay, server
<1>9. CASE Host
  BY <1>5, <1>9 DEF Host, HostWaits, HostHandles, HostCoalesces, HostCatchesUp, server
<1>10. ASSUME NEW p \in Players, Player(p) PROVE TableInv'
  BY <1>5, <1>10
  DEF Player, PlayerReads, AnswersOffer, MediaUp, MediaFails, MediaRecover, server
<1>11. CASE UNCHANGED vars
  BY <1>5, <1>11 DEF vars, server
<1>12. QED
  BY <1>1, <1>2, <1>3, <1>4, <1>6, <1>7, <1>8, <1>9, <1>10, <1>11 DEF Next, Environment

-----------------------------------------------------------------------------
(* The host *)

\* A message for the host goes to the end of its inbound channel, or nowhere.
LEMMA Heard ==
  ASSUME inbox \in Seq(HostMessage), NEW m \in HostMessage, ToHost(<<m>>)
  PROVE  /\ inbox' \in Seq(HostMessage)
         /\ In(inbox) \subseteq In(inbox') /\ In(inbox') \subseteq In(inbox) \cup {m}
         /\ link = "live" => m \in In(inbox')
         /\ \A s, e : /\ link = "live" /\ News(m, s, e) => Tells(inbox', s, e)
                      /\ ~Is(m, "left", s) =>
                           /\ Tells(inbox, s, e) => Tells(inbox', s, e)
                           /\ NoLeave(inbox, 1, s) => NoLeave(inbox', 1, s)
<1> DEFINE one == <<m>>
<1>1. one \in Seq(HostMessage) /\ In(one) = {m}
  BY InOne
<1>2. inbox' = IF link = "live" THEN inbox \o one ELSE inbox
  BY DEF ToHost
<1>3. \A s, e : /\ News(m, s, e) => Tells(one, s, e)
                /\ ~Is(m, "left", s) => NoLeave(one, 1, s)
  BY OneTells
<1> HIDE DEF one
<1>4. inbox \o one \in Seq(HostMessage) /\ In(inbox \o one) = In(inbox) \cup {m}
  BY <1>1, InConcat
<1>5. \A s, e : /\ Tells(one, s, e) => Tells(inbox \o one, s, e)
                /\ Tells(inbox, s, e) /\ NoLeave(one, 1, s) => Tells(inbox \o one, s, e)
                /\ NoLeave(inbox, 1, s) /\ NoLeave(one, 1, s) => NoLeave(inbox \o one, 1, s)
  BY <1>1, TellsConcat
<1>6. QED
  BY <1>2, <1>3, <1>4, <1>5, Zenon

\* What the host does with a message it takes: it forgets no peer, and a
\* registration newer than the peer, or a request to a peer, is answered by an offer.
Handled(m) ==
  /\ conns' \in [Slots -> Peer] /\ builds' \in Nat /\ outbox' \in Seq(OfferMessage)
  /\ In(outbox) \subseteq In(outbox')
  /\ \A s \in Slots : conns'[s].id = 0 => conns'[s].attached = 0
  /\ \A s \in Slots :
       /\ \/ conns'[s].attached = conns[s].attached /\ (conns'[s].id = 0 <=> conns[s].id = 0)
          \/ \E o \in In(outbox') : o.slot = s
       /\ \/ conns'[s].attached = conns[s].attached
          \/ /\ Is(m, "joined", s) /\ conns'[s].attached = m.epoch
             /\ m.epoch > conns[s].attached
       /\ Is(m, "joined", s) => conns'[s].attached >= m.epoch
       /\ Newer(m, s) \/ Asks(m, s) => \E o \in In(outbox') : o.slot = s

\* An offer is queued behind the others.
LEMMA Offered ==
  ASSUME outbox \in Seq(OfferMessage), NEW s \in Slots, NEW e \in Nat, NEW id \in Nat \ {0},
         outbox' = Append(outbox, Offer(s, e, id))
  PROVE  /\ outbox' \in Seq(OfferMessage) /\ In(outbox) \subseteq In(outbox')
         /\ \E o \in In(outbox') : o.slot = s
<1> DEFINE o == Offer(s, e, id)
<1>1. o \in OfferMessage /\ o.slot = s
  BY DEF Offer, Msg, OfferMessage
<1> HIDE DEF o
<1>2. Append(outbox, o) \in Seq(OfferMessage) /\ In(Append(outbox, o)) = In(outbox) \cup {o}
  BY <1>1, InAppend
<1>3. outbox' = Append(outbox, o)
  BY DEF o
<1>4. QED
  BY <1>1, <1>2, <1>3

LEMMA JoinHandled ==
  ASSUME HostInv, NEW m \in HostMessage, m.type = "joined", SlotJoin(m.slot, m.epoch)
  PROVE  Handled(m)
<1> USE DEF HostInv
<1>1. m.slot \in Slots /\ m.epoch \in Nat /\ \A s \in Slots : conns[s] \in Peer
  BY DEF HostMessage
<1>2. \A s \in Slots : conns[s].attached \in Nat /\ conns[s].id \in Nat
  BY <1>1 DEF Peer
<1>3. CASE conns[m.slot].attached >= m.epoch
  <2>1. conns' = conns /\ builds' = builds /\ outbox' = outbox
    BY <1>3 DEF SlotJoin
  <2>2. \A s \in Slots : ~Newer(m, s) /\ ~Asks(m, s)
    BY <1>1, <1>2, <1>3 DEF Newer, Asks, Is
  <2>3. QED
    BY <1>2, <1>3, <2>1, <2>2 DEF Handled, Is
<1>4. CASE ~(conns[m.slot].attached >= m.epoch)
  <2> DEFINE c == [id |-> builds + 1, attached |-> m.epoch, offers |-> 1, remote |-> 0]
  <2>1. /\ conns' = [conns EXCEPT ![m.slot] = c] /\ builds' = builds + 1
        /\ outbox' = Append(outbox, Offer(m.slot, 1, builds + 1))
    BY <1>4 DEF SlotJoin
  <2>2. c \in Peer /\ c.attached = m.epoch /\ c.id # 0
    BY <1>1 DEF Peer
  <2>3. builds + 1 \in Nat \ {0} /\ 1 \in Nat
    OBVIOUS
  <2>4. /\ outbox' \in Seq(OfferMessage) /\ In(outbox) \subseteq In(outbox')
        /\ \E o \in In(outbox') : o.slot = m.slot
    BY <1>1, <2>1, <2>3, Offered
  <2> HIDE DEF c
  <2>5. conns'[m.slot] = c /\ \A s \in Slots : s # m.slot => conns'[s] = conns[s]
    BY <1>1, <2>1
  <2>6. conns' \in [Slots -> Peer]
    BY <1>1, <2>1, <2>2
  <2>7. m.epoch > conns[m.slot].attached
    BY <1>1, <1>2, <1>4
  <2>8. ASSUME NEW s \in Slots
        PROVE  /\ conns'[s].id = 0 => conns'[s].attached = 0
               /\ \/ conns'[s].attached = conns[s].attached /\ (conns'[s].id = 0 <=> conns[s].id = 0)
                  \/ \E o \in In(outbox') : o.slot = s
               /\ \/ conns'[s].attached = conns[s].attached
                  \/ /\ Is(m, "joined", s) /\ conns'[s].attached = m.epoch
                     /\ m.epoch > conns[s].attached
               /\ Is(m, "joined", s) => conns'[s].attached >= m.epoch
               /\ Newer(m, s) \/ Asks(m, s) => \E o \in In(outbox') : o.slot = s
    <3>1. CASE s = m.slot
      <4>1. conns'[s].attached = m.epoch /\ conns'[s].id # 0 /\ m.epoch >= m.epoch
        BY <1>1, <2>2, <2>5, <3>1
      <4>2. QED
        BY <1>4, <2>4, <2>7, <3>1, <4>1 DEF Is
    <3>2. CASE s # m.slot
      BY <2>5, <3>2 DEF Is, Newer, Asks
    <3>3. QED
      BY <3>1, <3>2
  <2>9. builds' \in Nat
    BY <2>1
  <2>10. QED
    BY <2>4, <2>6, <2>8, <2>9 DEF Handled
<1>5. QED
  BY <1>3, <1>4

LEMMA RouteHandled ==
  ASSUME HostInv, NEW m \in HostMessage, Route(m)
  PROVE  Handled(m) /\ m.type \in {"answer", "request"}
<1> USE DEF HostInv
<1>1. /\ m.slot \in Slots /\ m.epoch \in Nat /\ m.id \in Nat
      /\ \A s \in Slots : conns[s] \in Peer
  BY DEF HostMessage
<1>2. CASE m.type = "answer" /\ RouteAnswer(m)
  <2>1. /\ conns' = conns \/ conns' = [conns EXCEPT ![m.slot].remote = m.id]
        /\ builds' = builds /\ outbox' = outbox
    BY <1>2 DEF RouteAnswer
  <2>2. /\ conns' \in [Slots -> Peer]
        /\ \A s \in Slots : conns'[s].attached = conns[s].attached /\ conns'[s].id = conns[s].id
    <3> DEFINE c == [conns[m.slot] EXCEPT !.remote = m.id]
    <3>1. c \in Peer /\ c.attached = conns[m.slot].attached /\ c.id = conns[m.slot].id
      BY <1>1 DEF Peer
    <3>2. conns' = conns \/ conns' = [conns EXCEPT ![m.slot] = c]
      BY <2>1
    <3> HIDE DEF c
    <3>3. QED
      BY <1>1, <3>1, <3>2
  <2>3. \A s \in Slots : ~Is(m, "joined", s) /\ ~Newer(m, s) /\ ~Asks(m, s)
    BY <1>2 DEF Newer, Asks, Is
  <2>4. QED
    BY <1>2, <2>1, <2>2, <2>3 DEF Handled
<1>3. CASE m.type = "request" /\ RouteRequest(m) /\ conns[m.slot].id = 0
  <2>1. conns' = conns /\ builds' = builds /\ outbox' = outbox
    BY <1>3 DEF RouteRequest
  <2>2. \A s \in Slots : ~Is(m, "joined", s) /\ ~Newer(m, s) /\ ~Asks(m, s)
    BY <1>3 DEF Newer, Asks, Is
  <2>3. QED
    BY <1>3, <2>1, <2>2 DEF Handled
<1>4. CASE m.type = "request" /\ RouteRequest(m) /\ conns[m.slot].id # 0
  <2> DEFINE n == conns[m.slot].offers + 1
             id == conns[m.slot].id
  <2>1. /\ conns' = [conns EXCEPT ![m.slot].remote = 0, ![m.slot].offers = n]
        /\ builds' = builds /\ outbox' = Append(outbox, Offer(m.slot, n, id))
    BY <1>4 DEF RouteRequest
  <2>2. n \in Nat /\ id \in Nat \ {0}
    BY <1>1, <1>4 DEF Peer
  <2> HIDE DEF n, id
  <2>3. /\ outbox' \in Seq(OfferMessage) /\ In(outbox) \subseteq In(outbox')
        /\ \E o \in In(outbox') : o.slot = m.slot
    BY <1>1, <2>1, <2>2, Offered
  <2>4. /\ conns' \in [Slots -> Peer]
        /\ \A s \in Slots : conns'[s].attached = conns[s].attached /\ conns'[s].id = conns[s].id
    <3> DEFINE c == [conns[m.slot] EXCEPT !.remote = 0, !.offers = n]
    <3>1. c \in Peer /\ c.attached = conns[m.slot].attached /\ c.id = conns[m.slot].id
      BY <1>1, <2>2 DEF Peer
    <3>2. conns' = [conns EXCEPT ![m.slot] = c]
      BY <1>1, <2>1 DEF Peer
    <3> HIDE DEF c
    <3>3. QED
      BY <1>1, <3>1, <3>2
  <2>5. \A s \in Slots : ~Is(m, "joined", s) /\ ~Newer(m, s) /\ (Asks(m, s) => s = m.slot)
    BY <1>4 DEF Newer, Asks, Is
  <2>6. QED
    BY <1>4, <2>1, <2>3, <2>4, <2>5 DEF Handled
<1>5. QED
  BY <1>2, <1>3, <1>4 DEF Route

\* Nothing is lost with a message that is neither.
LEMMA IgnoredHandled ==
  ASSUME HostInv, NEW m, UNCHANGED <<conns, builds, outbox>>,
         \A s \in Slots : ~Is(m, "joined", s) /\ ~Asks(m, s)
  PROVE  Handled(m)
BY DEF Handled, HostInv, Newer, Asks

\* What a player does touches the host only by a message to it.
LEMMA PlayerSends ==
  ASSUME TableInv, PlayerInv, NEW p \in Players, Player(p)
  PROVE  /\ UNCHANGED <<server, bounds, todo, started, conns, builds, outbox>>
         /\ \/ inbox' = inbox
            \/ \E m \in HostMessage : m.type \in {"answer", "request"} /\ ToHost(<<m>>)
<1>1. CASE PlayerReads(p) \/ MediaUp(p) \/ MediaFails(p)
  BY <1>1 DEF PlayerReads, MediaUp, MediaFails, host
<1>2. CASE AnswersOffer(p)
  <2>1. applying[p] # <<>> /\ applying[p] \in Seq(OfferMessage)
    BY <1>2 DEF AnswersOffer, PlayerInv
  <2> DEFINE o == Head(applying[p])
  <2>2. o \in OfferMessage
    BY <2>1, InTail, InTyped
  <2>3. PICK id \in {o.id, pc[p]}, s \in Seats(p) : ToHost(<<Answer(s, o.epoch, id)>>)
    BY <1>2 DEF AnswersOffer
  <2>4. id \in Nat /\ s \in Slots /\ o.epoch \in Nat
    BY <2>2, <2>3 DEF OfferMessage, PlayerInv, Seats
  <2>5. Answer(s, o.epoch, id) \in HostMessage /\ Answer(s, o.epoch, id).type = "answer"
    BY <2>4 DEF Answer, Msg, HostMessage
  <2>6. UNCHANGED <<server, bounds, todo, started, conns, builds, outbox>>
    BY <1>2 DEF AnswersOffer
  <2>7. QED
    BY <2>3, <2>5, <2>6
<1>3. CASE MediaRecover(p)
  <2>1. PICK s \in Seats(p) : ToHost(<<RequestOffer(s)>>)
    BY <1>3 DEF MediaRecover
  <2>2. RequestOffer(s) \in HostMessage /\ RequestOffer(s).type = "request"
    BY <2>1 DEF RequestOffer, Msg, HostMessage, Seats
  <2>3. QED
    BY <1>3, <2>1, <2>2 DEF MediaRecover
<1>4. QED
  BY <1>1, <1>2, <1>3 DEF Player

\* The messages that the server sends to the host.
LEMMA ServerSays ==
  ASSUME TableInv, NEW s \in Slots
  PROVE  /\ PeerJoined(s, epoch + 1) \in HostMessage /\ PeerLeft(s) \in HostMessage
         /\ PeerJoined(s, epoch + 1).epoch = epoch + 1 /\ PeerLeft(s).type = "left"
         /\ PeerLeft(s).slot = s /\ Is(PeerJoined(s, epoch + 1), "joined", s)
BY DEF TableInv, PeerJoined, PeerLeft, Msg, HostMessage, Is

LEMMA HostStep == ASSUME TableInv, HostInv, PlayerInv, [Next]_vars PROVE HostInv'
<1> USE DEF HostInv
<1>1. ASSUME inbox' \in Seq(HostMessage), UNCHANGED <<todo, started, conns, builds, outbox>>
      PROVE  HostInv'
  BY <1>1
<1>2. CASE UNCHANGED host
  BY <1>1, <1>2 DEF host
<1>3. ASSUME outbox' = outbox \/ (outbox # <<>> /\ outbox' = Tail(outbox)),
             UNCHANGED <<inbox, todo, started, conns, builds>>
      PROVE  HostInv'
  <2>1. outbox' \in Seq(OfferMessage)
    BY <1>3, InTail
  <2>2. QED
    BY <1>3, <2>1
<1>4. ASSUME NEW p \in Players, PlayerJoins(p) PROVE HostInv'
  <2>1. PICK s \in Slots : ToHost(<<PeerJoined(s, epoch + 1)>>)
    BY <1>4 DEF PlayerJoins
  <2>2. inbox' \in Seq(HostMessage)
    BY <2>1, ServerSays, Heard
  <2>3. QED
    BY <1>1, <1>4, <2>2 DEF PlayerJoins
<1>5. ASSUME NEW p \in Players, PlayerLeaves(p) PROVE HostInv'
  <2>1. PICK s \in Slots : ToHost(<<PeerLeft(s)>>)
    BY <1>5 DEF PlayerLeaves, Seats
  <2>2. inbox' \in Seq(HostMessage)
    BY <2>1, ServerSays, Heard
  <2>3. QED
    BY <1>1, <1>5, <2>2 DEF PlayerLeaves
<1>6. CASE LinkBreaks
  BY <1>3, <1>6 DEF LinkBreaks
<1>7. CASE ServerRestarts \/ ServerNotices
  BY <1>2, <1>7 DEF ServerRestarts, ServerNotices
<1>8. CASE HostRegisters
  <2>1. inbox \o Replay \in Seq(HostMessage)
    BY Replayed, InConcat
  <2>2. QED
    BY <1>1, <1>8, <2>1 DEF HostRegisters
<1>9. CASE Relay
  BY <1>3, <1>9 DEF Relay
<1>10. ASSUME NEW q \in Seq(HostMessage), q # <<>>
       PROVE  Tail(q) \in Seq(HostMessage) /\ Head(q) \in HostMessage
  BY <1>10, InTail, InTyped
<1>11. CASE HostWaits
  <2> DEFINE m == Head(inbox)
  <2>1. inbox' \in Seq(HostMessage) /\ m \in HostMessage /\ todo' = todo
    BY <1>10, <1>11 DEF HostWaits
  <2>2. CASE m.type = "joined"
    <3>1. started' = TRUE /\ SlotJoin(m.slot, m.epoch)
      BY <1>11, <2>2 DEF HostWaits
    <3> HIDE DEF m
    <3>2. Handled(m)
      BY <2>1, <2>2, <3>1, JoinHandled
    <3>3. QED
      BY <2>1, <3>1, <3>2 DEF Handled
  <2>3. CASE m.type # "joined"
    BY <1>1, <1>11, <2>1, <2>3 DEF HostWaits
  <2>4. QED
    BY <2>2, <2>3
<1>12. CASE HostHandles
  <2> DEFINE m == Head(inbox)
  <2>1. /\ inbox' \in Seq(HostMessage) /\ m \in HostMessage /\ todo' = todo
        /\ started /\ started' = started
    BY <1>10, <1>12 DEF HostHandles
  <2>2. CASE Route(m)
    <3> HIDE DEF m
    <3>1. Handled(m)
      BY <2>1, <2>2, RouteHandled
    <3>2. QED
      BY <2>1, <3>1 DEF Handled
  <2>3. CASE DropPeer(m.slot)
    <3>1. NoConn \in Peer /\ NoConn.attached = 0
      BY DEF NoConn, Peer
    <3>2. conns' = [conns EXCEPT ![m.slot] = NoConn] /\ builds' = builds /\ outbox' = outbox
      BY <2>3 DEF DropPeer
    <3> HIDE DEF m
    <3>3. QED
      BY <2>1, <3>1, <3>2
  <2>4. QED
    BY <1>12, <2>2, <2>3 DEF HostHandles
<1>13. CASE HostCoalesces
  <2>1. Burst \in Seq(HostMessage)
    BY Coalesced
  <2>2. QED
    BY <1>13, <2>1 DEF HostCoalesces
<1>14. CASE HostCatchesUp
  <2> DEFINE m == Head(todo)
  <2>1. /\ todo' \in Seq(HostMessage) /\ m \in HostMessage /\ inbox' = inbox
        /\ started /\ started' = started
    BY <1>10, <1>14 DEF HostCatchesUp
  <2>2. CASE m.type = "joined" /\ SlotJoin(m.slot, m.epoch)
    <3> HIDE DEF m
    <3>1. Handled(m)
      BY <2>1, <2>2, JoinHandled
    <3>2. QED
      BY <2>1, <3>1 DEF Handled
  <2>3. CASE Route(m)
    <3> HIDE DEF m
    <3>1. Handled(m)
      BY <2>1, <2>3, RouteHandled
    <3>2. QED
      BY <2>1, <3>1 DEF Handled
  <2>4. CASE UNCHANGED <<conns, builds, outbox>>
    BY <2>1, <2>4
  <2>5. QED
    BY <1>14, <2>2, <2>3, <2>4 DEF HostCatchesUp
<1>15. ASSUME NEW p \in Players, Player(p) PROVE HostInv'
  <2>1. UNCHANGED <<todo, started, conns, builds, outbox>>
    BY <1>15, PlayerSends
  <2>2. inbox' \in Seq(HostMessage)
    BY <1>15, PlayerSends, Heard
  <2>3. QED
    BY <1>1, <2>1, <2>2
<1>16. CASE UNCHANGED vars
  BY <1>2, <1>16 DEF vars
<1>17. QED
  BY <1>4, <1>5, <1>6, <1>7, <1>8, <1>9, <1>11, <1>12, <1>13, <1>14, <1>15, <1>16
  DEF Next, Environment, Host

-----------------------------------------------------------------------------
(* The players *)

LEMMA PlayerStep == ASSUME TableInv, HostInv, PlayerInv, [Next]_vars PROVE PlayerInv'
<1> USE DEF PlayerInv
<1>1. ASSUME UNCHANGED <<toPlayer, applying, pc, up>> PROVE PlayerInv'
  BY <1>1
<1>2. ASSUME NEW ps, Forget(ps) PROVE PlayerInv'
  <2>1. <<>> \in Seq(PlayerMessage) /\ <<>> \in Seq(OfferMessage) /\ 0 \in Nat
    OBVIOUS
  <2>2. toPlayer' \in [Players -> Seq(PlayerMessage)] /\ applying' \in [Players -> Seq(OfferMessage)]
    BY <1>2, <2>1 DEF Forget
  <2>3. pc' \in [Players -> Nat] /\ up' \in [Players -> BOOLEAN]
    BY <1>2 DEF Forget
  <2>4. \A p \in Players : up'[p] => pc'[p] # 0
    BY <1>2 DEF Forget
  <2>5. QED
    BY <2>2, <2>3, <2>4
<1>3. ASSUME NEW p \in Players, NEW m \in PlayerMessage
      PROVE  Append(toPlayer[p], m) \in Seq(PlayerMessage)
  <2>1. toPlayer[p] \in Seq(PlayerMessage)
    OBVIOUS
  <2>2. QED
    BY <2>1, InAppend
<1>4. ASSUME NEW p \in Players, PlayerJoins(p) PROVE PlayerInv'
  BY <1>1, <1>4 DEF PlayerJoins, player
<1>5. ASSUME NEW p \in Players, PlayerLeaves(p) PROVE PlayerInv'
  BY <1>2, <1>5 DEF PlayerLeaves
<1>6. CASE ServerRestarts
  BY <1>2, <1>6 DEF ServerRestarts
<1>7. CASE LinkBreaks \/ HostRegisters
  BY <1>1, <1>7 DEF LinkBreaks, HostRegisters, player
<1>8. CASE ServerNotices
  <2>1. /\ toPlayer' = [p \in Players |->
                          IF Seats(p) = {} THEN toPlayer[p] ELSE Append(toPlayer[p], HostLeft)]
        /\ UNCHANGED <<applying, pc, up>>
    BY <1>8 DEF ServerNotices
  <2>2. HostLeft \in PlayerMessage
    BY DEF PlayerMessage
  <2>3. toPlayer' \in [Players -> Seq(PlayerMessage)]
    BY <1>3, <2>1, <2>2
  <2>4. QED
    BY <2>1, <2>3
<1>9. CASE Relay
  <2> DEFINE o == Head(outbox)
             q == seat[o.slot]
  <2>1. UNCHANGED <<applying, pc, up>> /\ outbox # <<>>
    BY <1>9 DEF Relay
  <2>2. o \in OfferMessage
    BY <2>1, InTail, InTyped DEF HostInv
  <2>3. o \in PlayerMessage /\ q \in Players \cup {None}
    BY <2>2 DEF PlayerMessage, OfferMessage, TableInv
  <2>4. toPlayer' = IF q = None THEN toPlayer ELSE [toPlayer EXCEPT ![q] = Append(@, o)]
    BY <1>9 DEF Relay, Holder
  <2> HIDE DEF o, q
  <2>5. toPlayer' \in [Players -> Seq(PlayerMessage)]
    BY <1>3, <2>3, <2>4
  <2>6. QED
    BY <2>1, <2>5
<1>10. CASE Host
  BY <1>1, <1>10 DEF Host, HostWaits, HostHandles, HostCoalesces, HostCatchesUp, player
<1>11. ASSUME NEW p \in Players, Player(p) PROVE PlayerInv'
  <2>1. toPlayer[p] \in Seq(PlayerMessage) /\ applying[p] \in Seq(OfferMessage)
    OBVIOUS
  <2>2. CASE ResetPeer(p) /\ toPlayer' \in [Players -> Seq(PlayerMessage)]
    <3>1. applying' = [applying EXCEPT ![p] = <<>>] /\ <<>> \in Seq(OfferMessage)
      BY <2>2 DEF ResetPeer
    <3>2. pc' = [pc EXCEPT ![p] = 0] /\ up' = [up EXCEPT ![p] = FALSE]
      BY <2>2 DEF ResetPeer
    <3>3. applying' \in [Players -> Seq(OfferMessage)]
      BY <3>1
    <3>4. QED
      BY <2>2, <3>2, <3>3
  <2>3. CASE PlayerReads(p)
    <3> DEFINE o == Head(toPlayer[p])
    <3>1. /\ toPlayer' = [toPlayer EXCEPT ![p] = Tail(toPlayer[p])]
          /\ toPlayer[p] # <<>>
          /\ IF o.type = "offer" THEN TakesOffer(p, o) ELSE ResetPeer(p)
      BY <2>3 DEF PlayerReads
    <3>2. Tail(toPlayer[p]) \in Seq(PlayerMessage) /\ o \in PlayerMessage
      BY <2>1, <3>1, InTail, InTyped
    <3>3. toPlayer' \in [Players -> Seq(PlayerMessage)]
      BY <3>1, <3>2
    <3> HIDE DEF o
    <3>4. CASE o.type = "offer"
      <4>1. o \in OfferMessage /\ o.id \in Nat \ {0}
        BY <3>2, <3>4 DEF PlayerMessage, OfferMessage, HostLeft, PeerLeft, Msg
      <4>2. CASE UNCHANGED <<pc, up, applying>>
        BY <3>3, <4>2
      <4>3. ASSUME NEW new \in BOOLEAN,
                   pc' = [pc EXCEPT ![p] = o.id],
                   up' = [up EXCEPT ![p] = up[p] /\ ~new /\ pc[p] = o.id],
                   applying' = [applying EXCEPT ![p] =
                                  IF new THEN <<o>> ELSE Append(applying[p], o)]
            PROVE  PlayerInv'
        <5>1. <<o>> \in Seq(OfferMessage) /\ Append(applying[p], o) \in Seq(OfferMessage)
          BY <2>1, <4>1, InAppend
        <5>2. applying' \in [Players -> Seq(OfferMessage)]
          BY <4>3, <5>1
        <5>3. pc' \in [Players -> Nat] /\ up' \in [Players -> BOOLEAN]
          BY <4>1, <4>3
        <5>4. \A r \in Players : up'[r] => pc'[r] # 0
          BY <4>1, <4>3
        <5>5. QED
          BY <3>3, <5>2, <5>3, <5>4
      <4>4. QED
        BY <3>1, <3>4, <4>2, <4>3 DEF TakesOffer
    <3>5. QED
      BY <2>2, <3>1, <3>3, <3>4
  <2>4. CASE AnswersOffer(p)
    <3>1. /\ applying[p] # <<>> /\ UNCHANGED <<toPlayer, pc, up>>
          /\ \E left \in {Tail(applying[p]), <<>>} : applying' = [applying EXCEPT ![p] = left]
      BY <2>4 DEF AnswersOffer
    <3>2. Tail(applying[p]) \in Seq(OfferMessage) /\ <<>> \in Seq(OfferMessage)
      BY <2>1, <3>1, InTail
    <3>3. applying' \in [Players -> Seq(OfferMessage)]
      BY <3>1, <3>2
    <3>4. QED
      BY <3>1, <3>3
  <2>5. CASE MediaUp(p)
    BY <2>5 DEF MediaUp, Agreed
  <2>6. CASE MediaFails(p)
    BY <2>6 DEF MediaFails
  <2>7. CASE MediaRecover(p)
    BY <2>2, <2>7 DEF MediaRecover
  <2>8. QED
    BY <1>11, <2>3, <2>4, <2>5, <2>6, <2>7 DEF Player
<1>12. CASE UNCHANGED vars
  BY <1>1, <1>12 DEF vars, player
<1>13. QED
  BY <1>4, <1>5, <1>6, <1>7, <1>8, <1>9, <1>10, <1>11, <1>12 DEF Next, Environment

-----------------------------------------------------------------------------
(* Epochs *)

LEMMA EpochsStep ==
  ASSUME TableInv, HostInv, PlayerInv, EpochsInv, [Next]_vars
  PROVE  EpochsInv'
<1> DEFINE Told == In(inbox) \cup In(todo)
<1>1. /\ epoch \in Nat /\ restarts \in Nat
      /\ \A s \in Slots : conns[s].attached \in Nat
      /\ \A m \in Told : m \in HostMessage /\ m.epoch \in Nat
  <2>1. \A s \in Slots : conns[s] \in Peer
    BY DEF HostInv
  <2>2. \A m \in Told : m \in HostMessage
    BY InTyped DEF HostInv
  <2>3. QED
    BY <2>1, <2>2 DEF TableInv, EpochsInv, Peer, HostMessage
<1>2. epoch' \in Nat
  BY TableStep DEF TableInv
<1>3. ASSUME restarts' = restarts, epoch <= epoch',
             \A s \in Slots :
               \/ conns'[s].attached = conns[s].attached \/ conns'[s].attached = 0
               \/ \E m \in Told : m.type = "joined" /\ conns'[s].attached = m.epoch,
             \A m \in In(inbox') \cup In(todo') :
               m.type = "joined" => m \in Told \/ m.epoch <= epoch'
      PROVE  EpochsInv'
  <2> SUFFICES ASSUME restarts = 0
               PROVE  /\ \A s \in Slots : conns'[s].attached <= epoch'
                      /\ \A m \in In(inbox') \cup In(todo') :
                           m.type = "joined" => m.epoch <= epoch'
    BY <1>1, <1>3 DEF EpochsInv
  <2>1. \A e \in Nat : e <= epoch => e <= epoch'
    BY <1>1, <1>2, <1>3
  <2>2. /\ \A s \in Slots : conns[s].attached <= epoch'
        /\ \A m \in Told : m.type = "joined" => m.epoch <= epoch'
        /\ 0 <= epoch'
    BY <1>1, <1>2, <2>1 DEF EpochsInv
  <2> HIDE DEF Told
  <2>3. QED
    BY <1>3, <2>2
<1>4. ASSUME restarts' = restarts, epoch <= epoch', UNCHANGED <<conns, todo>>,
             \A m \in In(inbox') : m.type = "joined" => m \in In(inbox) \/ m.epoch <= epoch'
      PROVE  EpochsInv'
  BY <1>3, <1>4
<1>5. epoch <= epoch /\ epoch <= epoch + 1
  BY <1>1
<1>6. ASSUME restarts' = restarts, epoch' = epoch, UNCHANGED <<conns, todo, inbox>>
      PROVE  EpochsInv'
  BY <1>4, <1>5, <1>6
<1>7. ASSUME NEW p \in Players, PlayerJoins(p) PROVE EpochsInv'
  <2>1. PICK s \in Slots : ToHost(<<PeerJoined(s, epoch + 1)>>)
    BY <1>7 DEF PlayerJoins
  <2>2. /\ PeerJoined(s, epoch + 1) \in HostMessage
        /\ PeerJoined(s, epoch + 1).epoch = epoch + 1
    BY ServerSays
  <2>3. In(inbox') \subseteq In(inbox) \cup {PeerJoined(s, epoch + 1)}
    BY <2>1, <2>2, Heard DEF HostInv
  <2>4. epoch' = epoch + 1 /\ restarts' = restarts /\ UNCHANGED <<conns, todo>>
    BY <1>7 DEF PlayerJoins
  <2>5. epoch + 1 <= epoch'
    BY <1>1, <2>4
  <2>6. QED
    BY <1>4, <1>5, <2>2, <2>3, <2>4, <2>5
<1>8. ASSUME NEW p \in Players, PlayerLeaves(p) PROVE EpochsInv'
  <2>1. PICK s \in Slots : ToHost(<<PeerLeft(s)>>)
    BY <1>8 DEF PlayerLeaves, Seats
  <2>2. PeerLeft(s) \in HostMessage /\ PeerLeft(s).type = "left"
    BY ServerSays
  <2>3. In(inbox') \subseteq In(inbox) \cup {PeerLeft(s)}
    BY <2>1, <2>2, Heard DEF HostInv
  <2>4. epoch' = epoch /\ restarts' = restarts /\ UNCHANGED <<conns, todo>>
    BY <1>8 DEF PlayerLeaves
  <2>5. QED
    BY <1>4, <1>5, <2>2, <2>3, <2>4
<1>9. CASE ServerRestarts
  BY <1>1, <1>9 DEF ServerRestarts, EpochsInv
<1>10. CASE LinkBreaks \/ ServerNotices \/ Relay
  BY <1>6, <1>10 DEF LinkBreaks, ServerNotices, Relay, bounds, host, server
<1>11. CASE HostRegisters
  <2>1. /\ Cardinality(Seated) \in Nat /\ Replay \in Seq(HostMessage)
        /\ \A m \in In(Replay) : m.epoch <= epoch + Cardinality(Seated)
    BY Replayed
  <2>2. /\ epoch' = epoch + Cardinality(Seated) /\ restarts' = restarts
        /\ UNCHANGED <<conns, todo>> /\ inbox' = inbox \o Replay
    BY <1>11 DEF HostRegisters, bounds
  <2>3. In(inbox') = In(inbox) \cup In(Replay)
    BY <2>1, <2>2, InConcat DEF HostInv
  <2>4. epoch <= epoch'
    BY <1>1, <2>1, <2>2
  <2>5. QED
    BY <1>4, <2>1, <2>2, <2>3, <2>4
<1>12. ASSUME NEW m \in Told, Handled(m), restarts' = restarts, epoch' = epoch,
              In(inbox') \cup In(todo') \subseteq Told
       PROVE  EpochsInv'
  <2>1. \A s \in Slots :
          \/ conns'[s].attached = conns[s].attached
          \/ m.type = "joined" /\ conns'[s].attached = m.epoch
    BY <1>12 DEF Handled, Is
  <2>2. QED
    BY <1>3, <1>5, <1>12, <2>1
<1>13. CASE HostWaits
  <2> DEFINE m == Head(inbox)
  <2>1. /\ inbox # <<>> /\ inbox' = Tail(inbox) /\ todo' = todo
        /\ restarts' = restarts /\ epoch' = epoch
    BY <1>13 DEF HostWaits, bounds, server
  <2>2. m \in In(inbox) /\ m \in HostMessage /\ In(inbox') \subseteq In(inbox)
    BY <2>1, InTail, InTyped DEF HostInv
  <2>3. CASE m.type = "joined"
    <3>1. SlotJoin(m.slot, m.epoch)
      BY <1>13, <2>3 DEF HostWaits
    <3> HIDE DEF m
    <3>2. Handled(m)
      BY <2>2, <2>3, <3>1, JoinHandled
    <3>3. QED
      BY <1>12, <2>1, <2>2, <3>2
  <2>4. CASE m.type # "joined"
    <3>1. UNCHANGED conns
      BY <1>13, <2>4 DEF HostWaits
    <3>2. QED
      BY <1>4, <1>5, <2>1, <2>2, <3>1
  <2>5. QED
    BY <2>3, <2>4
<1>14. CASE HostHandles
  <2> DEFINE m == Head(inbox)
  <2>1. /\ inbox # <<>> /\ inbox' = Tail(inbox) /\ todo' = todo
        /\ restarts' = restarts /\ epoch' = epoch
    BY <1>14 DEF HostHandles, bounds, server
  <2>2. m \in In(inbox) /\ m \in HostMessage /\ In(inbox') \subseteq In(inbox)
    BY <2>1, InTail, InTyped DEF HostInv
  <2>3. CASE Route(m)
    <3> HIDE DEF m
    <3>1. Handled(m)
      BY <2>2, <2>3, RouteHandled
    <3>2. QED
      BY <1>12, <2>1, <2>2, <3>1
  <2>4. CASE DropPeer(m.slot)
    <3>1. \A s \in Slots : conns'[s].attached = conns[s].attached \/ conns'[s].attached = 0
      BY <2>4 DEF DropPeer, NoConn, HostInv
    <3>2. QED
      BY <1>3, <1>5, <2>1, <2>2, <3>1
  <2>5. QED
    BY <1>14, <2>3, <2>4 DEF HostHandles
<1>15. CASE HostCoalesces
  <2>1. In(todo') \subseteq In(inbox) /\ In(inbox') = {}
    BY <1>15, Coalesced, InEmpty DEF HostCoalesces, HostInv
  <2>2. restarts' = restarts /\ epoch' = epoch /\ UNCHANGED conns
    BY <1>15 DEF HostCoalesces, bounds, server
  <2>3. QED
    BY <1>3, <1>5, <2>1, <2>2
<1>16. CASE HostCatchesUp
  <2> DEFINE m == Head(todo)
  <2>1. /\ todo # <<>> /\ todo' = Tail(todo) /\ inbox' = inbox
        /\ restarts' = restarts /\ epoch' = epoch
    BY <1>16 DEF HostCatchesUp, bounds, server
  <2>2. m \in In(todo) /\ m \in HostMessage /\ In(todo') \subseteq In(todo)
    BY <2>1, InTail, InTyped DEF HostInv
  <2>3. CASE (m.type = "joined" /\ SlotJoin(m.slot, m.epoch)) \/ Route(m)
    <3> HIDE DEF m
    <3>1. Handled(m)
      BY <2>2, <2>3, JoinHandled, RouteHandled
    <3>2. QED
      BY <1>12, <2>1, <2>2, <3>1
  <2>4. CASE UNCHANGED conns
    BY <1>3, <1>5, <2>1, <2>2, <2>4
  <2>5. QED
    BY <1>16, <2>3, <2>4 DEF HostCatchesUp
<1>17. ASSUME NEW p \in Players, Player(p) PROVE EpochsInv'
  <2>1. restarts' = restarts /\ epoch' = epoch /\ UNCHANGED <<conns, todo>>
    BY <1>17, PlayerSends DEF server, bounds
  <2>2. CASE inbox' = inbox
    BY <1>6, <2>1, <2>2
  <2>3. ASSUME NEW m \in HostMessage, m.type \in {"answer", "request"}, ToHost(<<m>>)
        PROVE  EpochsInv'
    <3>1. In(inbox') \subseteq In(inbox) \cup {m}
      BY <2>3, Heard DEF HostInv
    <3>2. QED
      BY <1>4, <1>5, <2>1, <2>3, <3>1
  <2>4. QED
    BY <1>17, <2>2, <2>3, PlayerSends
<1>18. CASE UNCHANGED vars
  BY <1>6, <1>18 DEF vars, server, bounds, host
<1>19. QED
  BY <1>7, <1>8, <1>9, <1>10, <1>11, <1>13, <1>14, <1>15, <1>16, <1>17, <1>18
  DEF Next, Environment, Host

-----------------------------------------------------------------------------
(* The seats *)

\* What holds of a seat.
LEMMA SeatFacts ==
  ASSUME TableInv, HostInv, NEW s \in Seated
  PROVE  /\ s \in Slots /\ seat[s] \in Players
         /\ joined[s] \in Nat /\ 0 < joined[s] /\ joined[s] <= epoch /\ epoch \in Nat
         /\ conns[s].attached \in Nat /\ (conns[s].id = 0 => conns[s].attached = 0)
         /\ \A m \in In(inbox) \cup In(todo) : m.epoch \in Nat
<1>1. s \in Slots /\ seat[s] # None
  BY DEF Seated
<1>2. \A m \in In(inbox) \cup In(todo) : m \in HostMessage
  BY InTyped DEF HostInv
<1>3. conns[s] \in Peer
  BY <1>1 DEF HostInv
<1>4. QED
  BY <1>1, <1>2, <1>3 DEF TableInv, HostInv, Peer, HostMessage

\* What a step leaves to a seat.
LEMMA KnownKept ==
  ASSUME NEW s, Known(s), joined'[s] = joined[s], conns'[s] = conns[s], todo' = todo,
         Tells(inbox, s, joined[s]) => Tells(inbox', s, joined[s]),
         NoLeave(inbox, 1, s) => NoLeave(inbox', 1, s)
  PROVE  Known(s)'
BY Zenon DEF Known

LEMMA OfferKept ==
  ASSUME NEW s, OfferComes(s), conns'[s] = conns[s], todo' = todo, outbox' = outbox,
         In(inbox) \subseteq In(inbox')
  PROVE  OfferComes(s)'
<1>1. CASE \E o \in In(outbox) : o.slot = s
  BY <1>1 DEF OfferComes
<1>2. CASE \E m \in In(inbox) \cup In(todo) : Newer(m, s) \/ Asks(m, s)
  <2>1. PICK m \in In(inbox) \cup In(todo) : Newer(m, s) \/ Asks(m, s)
    BY <1>2
  <2>2. m \in In(inbox') \cup In(todo')
    BY <2>1
  <2>3. Newer(m, s)' \/ Asks(m, s)'
    BY <2>1 DEF Newer, Asks
  <2>4. QED
    BY <2>2, <2>3 DEF OfferComes
<1>3. QED
  BY <1>1, <1>2 DEF OfferComes

\* A step that sends the host a message, if any, which is no departure from s.
LEMMA SeatKeeps ==
  ASSUME HostInv, NEW s \in Seated, SeatInv(s), link = "live", seat'[s] = seat[s],
         joined'[s] = joined[s], restarts' = restarts, UNCHANGED <<conns, todo, outbox>>,
         \/ inbox' = inbox
         \/ \E m \in HostMessage : ToHost(<<m>>) /\ ~Is(m, "left", s)
  PROVE  /\ Known(s)'
         /\ restarts' = 0 => WillHold(seat[s]) \/ OfferComes(s)'
<1>1. /\ In(inbox) \subseteq In(inbox')
      /\ Tells(inbox, s, joined[s]) => Tells(inbox', s, joined[s])
      /\ NoLeave(inbox, 1, s) => NoLeave(inbox', 1, s)
  <2>1. CASE inbox' = inbox
    BY <2>1
  <2>2. ASSUME NEW m \in HostMessage, ToHost(<<m>>), ~Is(m, "left", s)
        PROVE  /\ In(inbox) \subseteq In(inbox')
               /\ Tells(inbox, s, joined[s]) => Tells(inbox', s, joined[s])
               /\ NoLeave(inbox, 1, s) => NoLeave(inbox', 1, s)
    BY <2>2, Heard DEF HostInv
  <2>3. QED
    BY <2>1, <2>2
<1>2. Known(s) /\ (restarts = 0 => WillHold(seat[s]) \/ OfferComes(s))
  BY DEF SeatInv
<1>3. QED
  BY <1>1, <1>2, KnownKept, OfferKept

\* A player that nothing happens to holds what it held.
LEMMA HoldsOn ==
  ASSUME NEW s, WillHold(seat[s]), seat'[s] = seat[s],
         toPlayer'[seat[s]] = toPlayer[seat[s]], pc'[seat[s]] = pc[seat[s]]
  PROVE  WillHold(seat[s])'
BY DEF WillHold

LEMMA JoinSeats ==
  ASSUME SessionInv, NEW p \in Players, PlayerJoins(p), NEW s \in Slots
  PROVE  SeatInv(s)'
<1> USE DEF SessionInv
<1> SUFFICES ASSUME link = "live", s \in Seated'
             PROVE  Known(s)' /\ (restarts' = 0 => WillHold(seat[s])' \/ OfferComes(s)')
  BY DEF PlayerJoins, SeatInv
<1>1. PICK n \in Slots :
        /\ seat[n] = None
        /\ seat' = [seat EXCEPT ![n] = p] /\ joined' = [joined EXCEPT ![n] = epoch + 1]
        /\ ToHost(<<PeerJoined(n, epoch + 1)>>)
  BY DEF PlayerJoins
<1>2. PICK m \in HostMessage : m = PeerJoined(n, epoch + 1)
  BY ServerSays
<1>3. Is(m, "joined", n) /\ m.epoch = epoch + 1 /\ epoch \in Nat /\ ToHost(<<m>>)
  BY <1>1, <1>2, ServerSays DEF TableInv
<1>4. restarts' = restarts /\ UNCHANGED <<conns, todo, outbox, toPlayer, pc>>
  BY DEF PlayerJoins, player
<1>5. CASE s = n
  <2>1. joined'[s] = epoch + 1
    BY <1>1, <1>5 DEF TableInv
  <2>2. News(m, s, epoch + 1)
    BY <1>3, <1>5 DEF News
  <2>3. Tells(inbox', s, epoch + 1) /\ m \in In(inbox')
    BY <1>3, <2>2, Heard DEF HostInv
  <2>4. Known(s)'
    BY <2>1, <2>3 DEF Known
  <2>5. ASSUME restarts' = 0 PROVE OfferComes(s)'
    <3>1. conns[s].attached <= epoch /\ conns[s].attached \in Nat
      BY <1>4, <2>5 DEF EpochsInv, HostInv, Peer
    <3>2. m.epoch > conns'[s].attached
      BY <1>3, <1>4, <3>1
    <3>3. Newer(m, s)'
      BY <1>3, <1>5, <3>2 DEF Newer
    <3>4. QED
      BY <2>3, <3>3 DEF OfferComes
  <2>6. QED
    BY <2>4, <2>5
<1>6. CASE s # n
  <2>1. s \in Seated /\ seat'[s] = seat[s] /\ joined'[s] = joined[s]
    BY <1>1, <1>6 DEF Seated, TableInv
  <2>2. ~Is(m, "left", s)
    BY <1>3 DEF Is
  <2>3. Known(s)' /\ (restarts' = 0 => WillHold(seat[s]) \/ OfferComes(s)')
    BY <1>3, <1>4, <2>1, <2>2, SeatKeeps
  <2>4. QED
    BY <1>4, <2>1, <2>3, HoldsOn
<1>7. QED
  BY <1>5, <1>6

LEMMA LeaveSeats ==
  ASSUME SessionInv, NEW p \in Players, PlayerLeaves(p), NEW s \in Slots
  PROVE  SeatInv(s)'
<1> USE DEF SessionInv
<1> SUFFICES ASSUME link = "live", s \in Seated'
             PROVE  Known(s)' /\ (restarts' = 0 => WillHold(seat[s])' \/ OfferComes(s)')
  BY DEF PlayerLeaves, SeatInv
<1>1. PICK n \in Slots :
        /\ seat[n] = p
        /\ seat' = [seat EXCEPT ![n] = None] /\ joined' = [joined EXCEPT ![n] = 0]
        /\ ToHost(<<PeerLeft(n)>>)
  BY DEF PlayerLeaves, Seats
<1>2. PICK m \in HostMessage : m = PeerLeft(n)
  BY ServerSays
<1>3. m.slot = n /\ ToHost(<<m>>)
  BY <1>1, <1>2, ServerSays
<1>4. restarts' = restarts /\ UNCHANGED <<conns, todo, outbox>>
  BY DEF PlayerLeaves
<1>5. s # n /\ s \in Seated /\ seat'[s] = seat[s] /\ joined'[s] = joined[s]
  BY <1>1 DEF Seated, TableInv
<1>6. n \in Seated /\ seat[s] # p
  <2>1. n \in Seated
    BY <1>1, SessionAssumption DEF Seated
  <2>2. QED
    BY <1>1, <1>5, <2>1 DEF TableInv
<1>7. ~Is(m, "left", s)
  BY <1>3, <1>5 DEF Is
<1>8. Known(s)' /\ (restarts' = 0 => WillHold(seat[s]) \/ OfferComes(s)')
  BY <1>3, <1>4, <1>5, <1>7, SeatKeeps
<1>9. toPlayer'[seat[s]] = toPlayer[seat[s]] /\ pc'[seat[s]] = pc[seat[s]]
  <2>1. seat[s] \in Players
    BY <1>5, SeatFacts
  <2>2. QED
    BY <1>6, <2>1 DEF PlayerLeaves, Forget
<1>10. QED
  BY <1>5, <1>8, <1>9, HoldsOn

LEMMA RegisterSeats ==
  ASSUME SessionInv, HostRegisters, NEW s \in Slots
  PROVE  SeatInv(s)'
<1> USE DEF SessionInv
<1> SUFFICES ASSUME s \in Seated
             PROVE  Known(s)' /\ (restarts' = 0 => OfferComes(s)')
  BY DEF HostRegisters, SeatInv, Seated
<1>1. /\ inbox' = inbox \o Replay
      /\ UNCHANGED <<joined, restarts, conns>>
  BY DEF HostRegisters, bounds
<1>2. /\ Replay \in Seq(HostMessage)
      /\ \A m \in In(Replay) : m.type = "joined"
      /\ \E m \in In(Replay) : Is(m, "joined", s) /\ m.epoch > epoch
  BY Replayed
<1>3. PICK m \in In(Replay) : Is(m, "joined", s) /\ m.epoch > epoch
  BY <1>2
<1>4. m.epoch \in Nat
  <2>1. m \in HostMessage
    BY <1>2, <1>3, InTyped
  <2>2. QED
    BY <2>1 DEF HostMessage
<1>5. joined[s] \in Nat /\ joined[s] <= epoch /\ epoch \in Nat /\ conns[s].attached \in Nat
  BY SeatFacts
<1>6. News(m, s, joined[s])
  BY <1>3, <1>4, <1>5 DEF News
<1>7. Tells(Replay, s, joined[s])
  BY <1>2, <1>6, TellsAll DEF Is
<1>8. Tells(inbox', s, joined[s]) /\ In(inbox') = In(inbox) \cup In(Replay)
  BY <1>1, <1>2, <1>7, TellsConcat, InConcat DEF HostInv
<1>9. Known(s)'
  BY <1>1, <1>8 DEF Known
<1>10. ASSUME restarts' = 0 PROVE OfferComes(s)'
  <2>1. conns[s].attached <= epoch
    BY <1>1, <1>10 DEF EpochsInv
  <2>2. m.epoch > conns'[s].attached
    BY <1>1, <1>3, <1>4, <1>5, <2>1
  <2>3. Newer(m, s)'
    BY <1>3, <2>2 DEF Newer
  <2>4. QED
    BY <1>8, <2>3 DEF OfferComes
<1>11. QED
  BY <1>9, <1>10

LEMMA RelaySeats ==
  ASSUME SessionInv, Relay, NEW s \in Slots
  PROVE  SeatInv(s)'
<1> USE DEF SessionInv
<1>1. /\ UNCHANGED <<seat, joined, restarts, inbox, todo, conns, pc>>
      /\ outbox # <<>> /\ outbox' = Tail(outbox) /\ link = "live"
  BY DEF Relay, server, bounds
<1> SUFFICES ASSUME s \in Seated
             PROVE  Known(s)' /\ (restarts' = 0 => WillHold(seat[s])' \/ OfferComes(s)')
  BY <1>1 DEF SeatInv, Seated
<1>2. Known(s) /\ (restarts = 0 => WillHold(seat[s]) \/ OfferComes(s))
  BY <1>1 DEF SeatInv
<1>3. Known(s)'
  BY <1>1, <1>2, KnownKept
<1>4. PICK o \in OfferMessage : o = Head(outbox)
  BY <1>1, InTail, InTyped DEF HostInv
<1>5. In(outbox) = {o} \cup In(outbox')
  BY <1>1, <1>4, InTail DEF HostInv
<1>6. PICK p \in Players : p = seat[s]
  BY SeatFacts
<1>7. toPlayer[p] \in Seq(PlayerMessage) /\ p # None
  BY SessionAssumption DEF PlayerInv
<1>8. toPlayer' = IF seat[o.slot] = None THEN toPlayer
                  ELSE [toPlayer EXCEPT ![seat[o.slot]] = Append(toPlayer[seat[o.slot]], o)]
  BY <1>4 DEF Relay, Holder
<1>9. /\ toPlayer'[p] = toPlayer[p] \/ toPlayer'[p] = Append(toPlayer[p], o)
      /\ o.slot = s => toPlayer'[p] = Append(toPlayer[p], o)
  BY <1>6, <1>7, <1>8 DEF PlayerInv
<1>10. ASSUME toPlayer'[p] = Append(toPlayer[p], o) PROVE WillHold(seat[s])'
  <2>1. /\ Append(toPlayer[p], o) # <<>>
        /\ Append(toPlayer[p], o)[Len(Append(toPlayer[p], o))] = o
    <3>1. o \in PlayerMessage
      BY DEF PlayerMessage
    <3>2. QED
      BY <1>7, <3>1, AppendProperties
  <2>2. o.type = "offer"
    BY DEF OfferMessage
  <2>3. seat'[s] = p
    BY <1>1, <1>6
  <2>4. QED
    BY <1>10, <2>1, <2>2, <2>3, Zenon DEF WillHold
<1>11. WillHold(seat[s]) => WillHold(seat[s])'
  BY <1>1, <1>6, <1>9, <1>10, HoldsOn
<1>12. CASE o.slot = s
  BY <1>3, <1>9, <1>10, <1>12
<1>13. CASE o.slot # s
  <2>1. OfferComes(s) => OfferComes(s)'
    BY <1>1, <1>5, <1>13 DEF OfferComes, Newer, Asks
  <2>2. QED
    BY <1>1, <1>2, <1>3, <1>11, <2>1
<1>14. QED
  BY <1>12, <1>13

\* The host takes a message and does with it what it should.
LEMMA HandledSeats ==
  ASSUME SessionInv, NEW s \in Slots, NEW m \in HostMessage, Handled(m),
         UNCHANGED <<seat, joined, link, restarts, toPlayer, pc>>,
         \/ inbox # <<>> /\ m = Head(inbox) /\ inbox' = Tail(inbox) /\ todo' = todo
         \/ todo # <<>> /\ m = Head(todo) /\ todo' = Tail(todo) /\ inbox' = inbox
  PROVE  SeatInv(s)'
<1> USE DEF SessionInv
<1> SUFFICES ASSUME link = "live", s \in Seated
             PROVE  Known(s)' /\ (restarts' = 0 => WillHold(seat[s])' \/ OfferComes(s)')
  BY DEF SeatInv, Seated
<1>1. Known(s) /\ (restarts = 0 => WillHold(seat[s]) \/ OfferComes(s))
  BY DEF SeatInv
<1>2. WillHold(seat[s]) => WillHold(seat[s])'
  BY HoldsOn
<1>3. /\ joined[s] \in Nat /\ conns[s].attached \in Nat
      /\ \A n \in In(inbox) \cup In(todo) : n.epoch \in Nat
  BY SeatFacts
<1>4. m.epoch \in Nat
  BY DEF HostMessage
<1>5. /\ \/ conns'[s].attached = conns[s].attached /\ (conns'[s].id = 0 <=> conns[s].id = 0)
         \/ \E o \in In(outbox') : o.slot = s
      /\ \/ conns'[s].attached = conns[s].attached
         \/ conns'[s].attached = m.epoch /\ m.epoch > conns[s].attached
      /\ Is(m, "joined", s) => conns'[s].attached >= m.epoch
      /\ Newer(m, s) \/ Asks(m, s) => \E o \in In(outbox') : o.slot = s
      /\ In(outbox) \subseteq In(outbox')
  BY DEF Handled
<1>6. conns'[s].attached \in Nat
  BY <1>3, <1>4, <1>5
<1>7. /\ In(inbox) \cup In(todo) = {m} \cup In(inbox') \cup In(todo')
      /\ In(todo) \subseteq {m} \cup In(todo')
  <2>1. CASE inbox # <<>> /\ m = Head(inbox) /\ inbox' = Tail(inbox) /\ todo' = todo
    <3>1. In(inbox) = {m} \cup In(inbox')
      BY <2>1, InTail DEF HostInv
    <3>2. QED
      BY <2>1, <3>1
  <2>2. CASE todo # <<>> /\ m = Head(todo) /\ todo' = Tail(todo) /\ inbox' = inbox
    <3>1. In(todo) = {m} \cup In(todo')
      BY <2>2, InTail DEF HostInv
    <3>2. QED
      BY <2>2, <3>1
  <2>3. QED
    BY <2>1, <2>2
<1>8. News(m, s, joined[s]) => conns'[s].attached >= joined[s]
  BY <1>3, <1>4, <1>5, <1>6 DEF News
<1>9. conns[s].attached >= joined[s] => conns'[s].attached >= joined[s]
  BY <1>3, <1>4, <1>5, <1>6
<1>10. Known(s)'
  <2>1. /\ Tells(inbox, s, joined[s]) =>
             \/ Tells(inbox', s, joined[s])
             \/ News(m, s, joined[s]) /\ NoLeave(inbox', 1, s)
        /\ NoLeave(inbox, 1, s) => NoLeave(inbox', 1, s)
    BY TellsTail DEF HostInv
  <2>2. CASE Tells(inbox, s, joined[s])
    BY <1>8, <2>1, <2>2, Zenon DEF Known
  <2>3. ASSUME NoLeave(inbox, 1, s), conns[s].attached >= joined[s] PROVE Known(s)'
    BY <1>9, <2>1, <2>3, Zenon DEF Known
  <2>4. ASSUME NoLeave(inbox, 1, s), NEW n \in In(todo), News(n, s, joined[s])
        PROVE  Known(s)'
    <3>1. CASE n = m
      BY <1>8, <2>1, <2>4, <3>1, Zenon DEF Known
    <3>2. CASE n \in In(todo')
      BY <2>1, <2>4, <3>2, Zenon DEF Known
    <3>3. QED
      BY <1>7, <2>4, <3>1, <3>2
  <2>5. QED
    BY <1>1, <2>2, <2>3, <2>4, Zenon DEF Known
<1>11. ASSUME OfferComes(s) PROVE OfferComes(s)'
  <2>1. CASE \E o \in In(outbox') : o.slot = s
    BY <2>1, Zenon DEF OfferComes
  <2>2. CASE \E o \in In(outbox) : o.slot = s
    BY <1>5, <2>1, <2>2
  <2>3. ASSUME NEW n \in In(inbox) \cup In(todo), Newer(n, s) \/ Asks(n, s)
        PROVE  OfferComes(s)'
    <3>1. CASE n = m
      BY <1>5, <2>1, <2>3, <3>1
    <3>2. CASE /\ n \in In(inbox') \cup In(todo')
               /\ conns'[s].attached = conns[s].attached /\ (conns'[s].id = 0 <=> conns[s].id = 0)
      <4>1. Newer(n, s)' \/ Asks(n, s)'
        BY <2>3, <3>2 DEF Newer, Asks
      <4>2. QED
        BY <3>2, <4>1, Zenon DEF OfferComes
    <3>3. QED
      BY <1>5, <1>7, <2>1, <2>3, <3>1, <3>2
  <2>4. QED
    BY <1>11, <2>2, <2>3, Zenon DEF OfferComes
<1>12. QED
  BY <1>1, <1>2, <1>10, <1>11

\* The peer of a slot that is dropped is missed by the player that has taken the
\* slot since: the host is still to hear of it.
LEMMA DropSeats ==
  ASSUME SessionInv, NEW s \in Slots, NEW m \in HostMessage, DropPeer(m.slot),
         m.type = "left", UNCHANGED <<seat, joined, link, restarts, toPlayer, pc, todo>>,
         inbox # <<>>, m = Head(inbox), inbox' = Tail(inbox)
  PROVE  SeatInv(s)'
<1> USE DEF SessionInv
<1> SUFFICES ASSUME link = "live", s \in Seated
             PROVE  Known(s)' /\ (restarts' = 0 => WillHold(seat[s])' \/ OfferComes(s)')
  BY DEF SeatInv, Seated
<1>1. Known(s) /\ (restarts = 0 => WillHold(seat[s]) \/ OfferComes(s))
  BY DEF SeatInv
<1>2. WillHold(seat[s]) => WillHold(seat[s])'
  BY HoldsOn
<1>3. /\ NoLeave(inbox, 1, s) => NoLeave(inbox', 1, s) /\ ~Is(m, "left", s)
      /\ Tells(inbox, s, joined[s]) => Tells(inbox', s, joined[s])
  <2>1. ~News(m, s, joined[s])
    BY DEF News, Is
  <2>2. QED
    BY <2>1, TellsTail DEF HostInv
<1>4. In(inbox) = {m} \cup In(inbox') /\ inbox' \in Seq(HostMessage)
  BY InTail DEF HostInv
<1>5. conns' = [conns EXCEPT ![m.slot] = NoConn] /\ outbox' = outbox
  BY DEF DropPeer
<1>6. CASE m.slot = s
  <2>1. Tells(inbox', s, joined[s])
    BY <1>1, <1>3, <1>6 DEF Known, Is
  <2>2. PICK n \in In(inbox') : News(n, s, joined[s])
    BY <1>4, <2>1, TellsAll
  <2>3. n.epoch \in Nat /\ joined[s] \in Nat /\ 0 < joined[s]
    BY <1>4, SeatFacts
  <2>4. conns'[s].attached = 0
    BY <1>5, <1>6 DEF HostInv, NoConn
  <2>5. Newer(n, s)'
    BY <2>2, <2>3, <2>4 DEF Newer, News
  <2>6. QED
    BY <2>1, <2>2, <2>5, Zenon DEF Known, OfferComes
<1>7. CASE m.slot # s
  <2>1. conns'[s] = conns[s]
    BY <1>5, <1>7 DEF HostInv
  <2>2. Known(s)'
    BY <1>1, <1>3, <2>1, KnownKept
  <2>3. ~Newer(m, s) /\ ~Asks(m, s)
    BY DEF Newer, Asks, Is
  <2>4. OfferComes(s) => OfferComes(s)'
    <3>1. \A n : (Newer(n, s)' <=> Newer(n, s)) /\ (Asks(n, s)' <=> Asks(n, s))
      BY <2>1 DEF Newer, Asks
    <3>2. QED
      BY <1>4, <1>5, <2>3, <3>1, Zenon DEF OfferComes
  <2>5. QED
    BY <1>1, <1>2, <2>2, <2>4
<1>8. QED
  BY <1>6, <1>7

\* A burst loses nothing that matters to a seat.
LEMMA CoalesceSeats ==
  ASSUME SessionInv, HostCoalesces, NEW s \in Slots
  PROVE  SeatInv(s)'
<1> USE DEF SessionInv
<1>1. /\ UNCHANGED <<seat, joined, link, restarts, toPlayer, pc, conns, outbox>>
      /\ todo = <<>> /\ todo' = Burst /\ inbox' = <<>>
  BY DEF HostCoalesces, server, bounds, player
<1> SUFFICES ASSUME link = "live", s \in Seated
             PROVE  Known(s)' /\ (restarts' = 0 => WillHold(seat[s])' \/ OfferComes(s)')
  BY <1>1 DEF SeatInv, Seated
<1>2. Known(s) /\ (restarts = 0 => WillHold(seat[s]) \/ OfferComes(s))
  BY DEF SeatInv
<1>3. WillHold(seat[s]) => WillHold(seat[s])'
  BY <1>1, HoldsOn
<1>4. /\ In(todo') \subseteq In(inbox) /\ In(todo) = {} /\ NoLeave(inbox', 1, s)
      /\ \A m \in In(inbox) : m.type # "joined" => m \in In(todo')
      /\ \A m \in In(inbox) : m.type = "joined" =>
           \E n \in In(todo') : Is(n, "joined", m.slot) /\ m.epoch <= n.epoch
  BY <1>1, Coalesced, InEmpty, EmptyTells DEF HostInv
<1>5. /\ joined[s] \in Nat /\ conns[s].attached \in Nat
      /\ \A m \in In(inbox) : m.epoch \in Nat
  BY SeatFacts
<1>6. ASSUME NEW m \in In(inbox), Is(m, "joined", s)
      PROVE  \E n \in In(todo') : /\ Is(n, "joined", s) /\ m.epoch <= n.epoch
                                  /\ m.epoch \in Nat /\ n.epoch \in Nat
  BY <1>4, <1>5, <1>6 DEF Is
<1>7. Known(s)'
  <2>1. CASE Tells(inbox, s, joined[s])
    <3>1. PICK m \in In(inbox) : News(m, s, joined[s])
      BY <2>1, TellsAll DEF HostInv
    <3>2. PICK n \in In(todo') : /\ Is(n, "joined", s) /\ m.epoch <= n.epoch
                                 /\ m.epoch \in Nat /\ n.epoch \in Nat
      BY <1>6, <3>1 DEF News
    <3>3. News(n, s, joined'[s])
      BY <1>1, <1>5, <3>1, <3>2 DEF News
    <3>4. QED
      BY <1>4, <3>3, Zenon DEF Known
  <2>2. CASE conns[s].attached >= joined[s]
    BY <1>1, <1>4, <2>2, Zenon DEF Known
  <2>3. QED
    BY <1>2, <1>4, <2>1, <2>2 DEF Known
<1>8. ASSUME OfferComes(s) PROVE OfferComes(s)'
  <2>1. CASE \E o \in In(outbox) : o.slot = s
    BY <1>1, <2>1, Zenon DEF OfferComes
  <2>2. ASSUME NEW m \in In(inbox), Newer(m, s) PROVE OfferComes(s)'
    <3>1. PICK n \in In(todo') : /\ Is(n, "joined", s) /\ m.epoch <= n.epoch
                                 /\ m.epoch \in Nat /\ n.epoch \in Nat
      BY <1>6, <2>2 DEF Newer
    <3>2. Newer(n, s)'
      BY <1>1, <1>5, <2>2, <3>1 DEF Newer
    <3>3. QED
      BY <3>2, Zenon DEF OfferComes
  <2>3. ASSUME NEW m \in In(inbox), Asks(m, s) PROVE OfferComes(s)'
    <3>1. m \in In(todo') /\ Asks(m, s)'
      BY <1>1, <1>4, <2>3 DEF Asks, Is
    <3>2. QED
      BY <3>1, Zenon DEF OfferComes
  <2>4. QED
    BY <1>4, <1>8, <2>1, <2>2, <2>3 DEF OfferComes
<1>9. QED
  BY <1>1, <1>2, <1>3, <1>7, <1>8

LEMMA HostSeats ==
  ASSUME SessionInv, Host, NEW s \in Slots
  PROVE  SeatInv(s)'
<1> USE DEF SessionInv
<1>1. ASSUME NEW q \in Seq(HostMessage), q # <<>> PROVE Head(q) \in HostMessage
  BY <1>1, InTail, InTyped
<1>2. CASE HostWaits
  <2>1. inbox # <<>> /\ Head(inbox) \in HostMessage
    BY <1>1, <1>2 DEF HostWaits, HostInv
  <2>2. PICK m \in HostMessage : m = Head(inbox)
    BY <2>1
  <2>3. /\ UNCHANGED <<seat, joined, link, restarts, toPlayer, pc, todo>>
        /\ inbox' = Tail(inbox)
    BY <1>2 DEF HostWaits, server, bounds, player
  <2>4. Handled(m)
    <3>1. CASE m.type = "joined"
      BY <1>2, <2>2, <3>1, JoinHandled DEF HostWaits
    <3>2. CASE m.type # "joined"
      <4>1. UNCHANGED <<conns, builds, outbox>> /\ \A t \in Slots : conns[t].id = 0
        BY <1>2, <2>2, <3>2 DEF HostWaits, HostInv
      <4>2. \A t \in Slots : ~Is(m, "joined", t) /\ ~Asks(m, t)
        BY <3>2, <4>1 DEF Is, Asks
      <4>3. QED
        BY <4>1, <4>2, IgnoredHandled
    <3>3. QED
      BY <3>1, <3>2
  <2>5. QED
    BY <2>1, <2>2, <2>3, <2>4, HandledSeats
<1>3. CASE HostHandles
  <2>1. inbox # <<>> /\ Head(inbox) \in HostMessage
    BY <1>1, <1>3 DEF HostHandles, HostInv
  <2>2. PICK m \in HostMessage : m = Head(inbox)
    BY <2>1
  <2>3. /\ UNCHANGED <<seat, joined, link, restarts, toPlayer, pc, todo>>
        /\ inbox' = Tail(inbox)
    BY <1>3 DEF HostHandles, server, bounds, player
  <2>4. CASE Route(m)
    BY <2>1, <2>2, <2>3, <2>4, RouteHandled, HandledSeats
  <2>5. CASE m.type = "left" /\ DropPeer(m.slot)
    BY <2>1, <2>2, <2>3, <2>5, DropSeats
  <2>6. QED
    BY <1>3, <2>2, <2>4, <2>5 DEF HostHandles
<1>4. CASE HostCatchesUp
  <2>1. todo # <<>> /\ Head(todo) \in HostMessage
    BY <1>1, <1>4 DEF HostCatchesUp, HostInv
  <2>2. PICK m \in HostMessage : m = Head(todo)
    BY <2>1
  <2>3. /\ UNCHANGED <<seat, joined, link, restarts, toPlayer, pc, inbox>>
        /\ todo' = Tail(todo)
    BY <1>4 DEF HostCatchesUp, server, bounds, player
  <2>4. Handled(m)
    <3>1. CASE m.type = "joined" /\ SlotJoin(m.slot, m.epoch)
      BY <3>1, JoinHandled
    <3>2. CASE Route(m)
      BY <3>2, RouteHandled
    <3>3. CASE m.type = "left" /\ UNCHANGED <<conns, builds, outbox>>
      <4>1. \A t \in Slots : ~Is(m, "joined", t) /\ ~Asks(m, t)
        BY <3>3 DEF Is, Asks
      <4>2. QED
        BY <3>3, <4>1, IgnoredHandled
    <3>4. QED
      BY <1>4, <2>2, <3>1, <3>2, <3>3 DEF HostCatchesUp
  <2>5. QED
    BY <2>1, <2>2, <2>3, <2>4, HandledSeats
<1>5. QED
  BY <1>2, <1>3, <1>4, CoalesceSeats DEF Host

\* Reading a message takes nothing away from a player that will hold a connection.
LEMMA ReadHolds ==
  ASSUME PlayerInv, NEW p \in Players, PlayerReads(p), WillHold(p)
  PROVE  WillHold(p)'
<1> DEFINE q == toPlayer[p]
           o == Head(q)
<1>1. /\ q \in Seq(PlayerMessage) /\ q # <<>>
      /\ toPlayer' = [toPlayer EXCEPT ![p] = Tail(q)]
      /\ IF o.type = "offer" THEN TakesOffer(p, o) ELSE ResetPeer(p)
  BY DEF PlayerReads, PlayerInv
<1>2. q[Len(q)].type = "offer"
  BY <1>1 DEF WillHold
<1>3. /\ Len(q) \in Nat \ {0} /\ Len(Tail(q)) = Len(q) - 1 /\ o = q[1]
      /\ \A i \in 1 .. Len(q) - 1 : Tail(q)[i] = q[i + 1]
      /\ Tail(q) \in Seq(PlayerMessage)
  BY <1>1, HeadTailProperties, EmptySeq
<1>4. toPlayer'[p] = Tail(q)
  BY <1>1 DEF PlayerInv
<1> HIDE DEF q, o
<1>5. CASE Tail(q) = <<>>
  <2>1. Len(Tail(q)) = 0
    BY <1>3, <1>5, EmptySeq
  <2>2. Len(q) = 1
    <3> DEFINE n == Len(q)
    <3>1. n \in Nat \ {0} /\ n - 1 = 0
      BY <1>3, <2>1
    <3> HIDE DEF n
    <3>2. n = 1
      BY <3>1
    <3>3. QED
      BY <3>2 DEF n
  <2>3. o.type = "offer" /\ o \in PlayerMessage
    BY <1>1, <1>2, <1>3, <2>2, InTail, InTyped
  <2>4. o.id # 0
    BY <2>3 DEF PlayerMessage, OfferMessage, HostLeft, PeerLeft, Msg
  <2>5. TakesOffer(p, o)
    BY <1>1, <2>3
  <2>6. \/ up[p] /\ pc' = pc
        \/ pc' = [pc EXCEPT ![p] = o.id]
    BY <2>5 DEF TakesOffer
  <2>7. pc'[p] # 0
    BY <2>4, <2>6 DEF PlayerInv
  <2>8. QED
    BY <1>4, <1>5, <2>7 DEF WillHold
<1>6. CASE Tail(q) # <<>>
  <2>1. Len(Tail(q)) # 0
    BY <1>3, <1>6, EmptySeq
  <2> DEFINE n == Len(q)
  <2>2. n \in Nat \ {0} /\ n - 1 # 0
    BY <1>3, <2>1
  <2> HIDE DEF n
  <2>3. n - 1 \in 1 .. n - 1 /\ (n - 1) + 1 = n
    BY <2>2
  <2>4. Tail(q)[Len(Tail(q))] = q[Len(q)]
    BY <1>3, <2>3 DEF n
  <2>5. QED
    BY <1>2, <1>4, <1>6, <2>4 DEF WillHold
<1>7. QED
  BY <1>5, <1>6

LEMMA PlayerSeats ==
  ASSUME SessionInv, NEW p \in Players, Player(p), NEW s \in Slots
  PROVE  SeatInv(s)'
<1> USE DEF SessionInv
<1>1. /\ UNCHANGED <<seat, joined, link, restarts, conns, todo, outbox>>
      /\ \/ inbox' = inbox
         \/ \E m \in HostMessage : m.type \in {"answer", "request"} /\ ToHost(<<m>>)
  BY PlayerSends DEF server, bounds
<1> SUFFICES ASSUME link = "live", s \in Seated
             PROVE  Known(s)' /\ (restarts' = 0 => WillHold(seat[s])' \/ OfferComes(s)')
  BY <1>1 DEF SeatInv, Seated
<1>2. /\ Known(s)'
      /\ restarts' = 0 => WillHold(seat[s]) \/ OfferComes(s)'
  <2>1. \A m : m.type \in {"answer", "request"} => ~Is(m, "left", s)
    BY DEF Is
  <2>2. QED
    BY <1>1, <2>1, SeatKeeps
<1>3. seat[s] \in Players
  BY SeatFacts
<1>4. CASE seat[s] # p
  <2>1. toPlayer'[seat[s]] = toPlayer[seat[s]] /\ pc'[seat[s]] = pc[seat[s]]
    BY <1>3, <1>4
    DEF Player, PlayerReads, TakesOffer, ResetPeer, AnswersOffer, MediaUp, MediaFails,
        MediaRecover, PlayerInv
  <2>2. QED
    BY <1>1, <1>2, <2>1, HoldsOn
<1>5. CASE seat[s] = p /\ PlayerReads(p)
  <2>1. WillHold(seat[s]) => WillHold(p)'
    BY <1>5, ReadHolds
  <2>2. seat'[s] = p
    BY <1>1, <1>5
  <2>3. WillHold(p)' => WillHold(seat[s])'
    BY <2>2 DEF WillHold
  <2>4. QED
    BY <1>2, <2>1, <2>3
<1>6. CASE AnswersOffer(p) \/ MediaUp(p) \/ MediaFails(p)
  <2>1. UNCHANGED <<toPlayer, pc>>
    BY <1>6 DEF AnswersOffer, MediaUp, MediaFails
  <2>2. QED
    BY <1>1, <1>2, <2>1, HoldsOn
<1>7. CASE seat[s] = p /\ MediaRecover(p)
  <2>1. PICK t \in Slots : seat[t] = p /\ ToHost(<<RequestOffer(t)>>)
    BY <1>7 DEF MediaRecover, Seats
  <2>2. t = s
    BY <1>3, <1>7, <2>1, SessionAssumption DEF TableInv, Seated
  <2>3. PICK m \in HostMessage : m = RequestOffer(s)
    BY <2>1, <2>2 DEF RequestOffer, Msg, HostMessage
  <2>4. Is(m, "request", s) /\ m \in In(inbox')
    BY <2>1, <2>2, <2>3, Heard DEF HostInv, RequestOffer, Msg, Is
  <2>5. CASE conns[s].id # 0
    <3>1. Asks(m, s)'
      BY <1>1, <2>4, <2>5 DEF Asks
    <3>2. OfferComes(s)'
      BY <2>4, <3>1, Zenon DEF OfferComes
    <3>3. QED
      BY <1>2, <3>2
  <2>6. CASE conns[s].id = 0
    <3>1. /\ conns'[s].attached = 0 /\ joined'[s] \in Nat /\ 0 < joined'[s]
      BY <1>1, <2>6, SeatFacts
    <3>2. inbox' \in Seq(HostMessage) /\ todo' \in Seq(HostMessage)
      BY HostStep DEF HostInv, Next
    <3>3. PICK n \in In(inbox') \cup In(todo') : News(n, s, joined'[s])
      <4>1. ~(conns'[s].attached >= joined'[s])
        BY <3>1
      <4>2. CASE Tells(inbox', s, joined'[s])
        BY <3>2, <4>2, TellsAll
      <4>3. CASE ~Tells(inbox', s, joined'[s])
        BY <1>2, <4>1, <4>3, Zenon DEF Known
      <4>4. QED
        BY <4>2, <4>3
    <3>4. n.epoch \in Nat
      <4>1. n \in HostMessage
        BY <3>2, InTyped
      <4>2. QED
        BY <4>1 DEF HostMessage
    <3>5. Newer(n, s)'
      BY <3>1, <3>3, <3>4 DEF Newer, News
    <3>6. QED
      BY <1>2, <3>5, Zenon DEF OfferComes
  <2>7. QED
    BY <2>5, <2>6
<1>8. QED
  BY <1>4, <1>5, <1>6, <1>7 DEF Player

-----------------------------------------------------------------------------
(* Every seat is served *)

LEMMA SessionInit == Init => SessionInv
<1> SUFFICES ASSUME Init PROVE SessionInv
  OBVIOUS
<1> USE DEF Init
<1>1. TableInv
  BY DEF TableInv, Seated
<1>2. HostInv
  <2>1. NoConn \in Peer /\ NoConn.id = 0 /\ NoConn.attached = 0
    BY DEF NoConn, Peer
  <2>2. <<>> \in Seq(HostMessage) /\ <<>> \in Seq(OfferMessage)
    OBVIOUS
  <2>3. QED
    BY <2>1, <2>2 DEF HostInv
<1>3. PlayerInv
  <2>1. <<>> \in Seq(PlayerMessage) /\ <<>> \in Seq(OfferMessage)
    OBVIOUS
  <2>2. QED
    BY <2>1 DEF PlayerInv
<1>4. EpochsInv
  BY InEmpty DEF EpochsInv, NoConn
<1>5. \A s \in Slots : SeatInv(s)
  BY DEF SeatInv
<1>6. QED
  BY <1>1, <1>2, <1>3, <1>4, <1>5 DEF SessionInv

LEMMA SessionStep == SessionInv /\ [Next]_vars => SessionInv'
<1> SUFFICES ASSUME SessionInv, [Next]_vars PROVE SessionInv'
  OBVIOUS
<1>1. TableInv' /\ HostInv' /\ PlayerInv' /\ EpochsInv'
  BY TableStep, HostStep, PlayerStep, EpochsStep DEF SessionInv
<1>2. ASSUME NEW s \in Slots PROVE SeatInv(s)'
  <2>1. CASE LinkBreaks \/ ServerNotices \/ ServerRestarts
    BY <2>1 DEF LinkBreaks, ServerNotices, ServerRestarts, SeatInv
  <2>2. CASE UNCHANGED vars
    <3>1. UNCHANGED <<seat, joined, link, restarts, inbox, todo, conns, outbox, toPlayer, pc>>
      BY <2>2 DEF vars, server, bounds, host, player
    <3>2. SeatInv(s)
      BY DEF SessionInv
    <3>3. QED
      BY <3>1, <3>2 DEF SeatInv, Seated, Known, WillHold, OfferComes, Newer, Asks
  <2>3. QED
    BY <2>1, <2>2, JoinSeats, LeaveSeats, RegisterSeats, RelaySeats, HostSeats, PlayerSeats
    DEF Next, Environment
<1>3. QED
  BY <1>1, <1>2 DEF SessionInv

\* While everything sent has been read, the invariant leaves only what was reached.
LEMMA QuietServed == SessionInv => Served
<1> SUFFICES ASSUME SessionInv, restarts = 0, Quiet, NEW s \in Seated
             PROVE  conns[s].attached >= joined[s] /\ pc[seat[s]] # 0
  BY DEF Served
<1> USE DEF SessionInv
<1>1. s \in Slots /\ seat[s] \in Players
  BY SeatFacts
<1>2. /\ In(inbox) = {} /\ In(todo) = {} /\ In(outbox) = {}
      /\ toPlayer[seat[s]] = <<>> /\ ~Tells(inbox, s, joined[s])
  BY <1>1, InEmpty, EmptyTells DEF Quiet
<1>3. Known(s) /\ (WillHold(seat[s]) \/ OfferComes(s))
  BY <1>1 DEF SeatInv, Quiet
<1>4. QED
  BY <1>2, <1>3 DEF Known, WillHold, OfferComes

\* For any players and seats, any number of registrations, departures and faults:
\* once everything sent has been read and the server stayed up, the host's peer of
\* every seat is one built for the registration that holds it, and the player has a
\* peer connection (handle_slot_join, take_queued_joins, replay_for_host,
\* applyRemoteOffer, mediaRecover).
THEOREM EverySeatIsServed == Spec => []Served
<1>1. Init => SessionInv
  BY SessionInit
<1>2. SessionInv /\ [Next]_vars => SessionInv'
  BY SessionStep
<1>3. SessionInv => Served
  BY QuietServed
<1>4. QED
  BY <1>1, <1>2, <1>3, PTL DEF Spec
=============================================================================
