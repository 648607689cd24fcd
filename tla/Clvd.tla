-------------------------------- MODULE Clvd --------------------------------
(***************************************************************************)
(* Video access units on the data channel (proto/src/video_frame.rs, and   *)
(* its twin web/src/clvd.ts): an access unit is cut into fragments, with   *)
(* one more that is their XOR when parity is on, every fragment is written *)
(* with a header whose version depends on what it carries, the channel     *)
(* loses and reorders them, and the assembler holds the parts of one       *)
(* access unit at a time.                                                  *)
(*                                                                         *)
(* A payload is a sequence of bits, Chunk of them to a fragment. A header  *)
(* is a sequence of words, one per field.                                  *)
(***************************************************************************)
EXTENDS Naturals, FiniteSets, SequencesExt

CONSTANTS Chunk,      \* VIDEO_MAX_FRAGMENT_PAYLOAD
          Pictures,   \* the access units the encoder may give, without their seq
          Units,      \* bound: access units sent
          MaxLost     \* bound: fragments lost

ASSUME ClvdAssumption ==
    /\ Chunk \in Nat \ {0} /\ Units \in Nat /\ MaxLost \in Nat
    /\ \A p \in Pictures : /\ p.annex_b \in Seq({0, 1}) /\ p.keyframe \in BOOLEAN
                           /\ p.stamp \in Nat /\ p.wm \in Nat

\* VideoAccessUnit: the size stands for width and height.
AccessUnit(q, p) == [seq |-> q, size |-> p.size, keyframe |-> p.keyframe,
                     annex_b |-> p.annex_b, stamp |-> p.stamp, wm |-> p.wm]

VARIABLES fec,       \* whether the sender adds parity
          sent,      \* the access units sent so far
          flight,    \* messages on the channel
          asm,       \* FragmentAssembler
          out,       \* the access units it returned
          run,       \* the indices it was given since the access unit last changed
          lost       \* fragments lost so far

vars == <<fec, sent, flight, asm, out, run, lost>>

-----------------------------------------------------------------------------
(* The header *)

V2 == 2
V3 == 3
V4 == 4

\* wire_version: the oldest one that holds what the fragment carries.
WireVersion(f) == IF f.wm # 0 \/ f.stamp # 0 THEN V4 ELSE V2

HeaderWords(ver) == IF ver = V4 THEN 10 ELSE IF ver = V3 THEN 9 ELSE 8

EncodeFragment(f) ==
    LET ver == WireVersion(f)
        key == IF f.keyframe THEN 1 ELSE 0
    IN  IF ver = V4
        THEN <<"CLVD", ver, key, f.size, f.seq, f.idx, f.count, f.stamp, f.wm, f.payload>>
        ELSE <<"CLVD", ver, key, f.size, f.seq, f.idx, f.count, f.payload>>

Failed == [ok |-> FALSE]

\* The payload is what follows the header. An index equal to the count is the
\* parity fragment's.
DecodeFragment(m) ==
    LET ver == m[2]
    IN  IF Len(m) < 8 \/ m[1] # "CLVD" \/ ver \notin {V2, V3, V4} THEN Failed
        ELSE IF Len(m) < HeaderWords(ver) THEN Failed
        ELSE IF m[7] = 0 \/ m[6] > m[7] THEN Failed
        ELSE [ok |-> TRUE, seq |-> m[5], size |-> m[4], keyframe |-> m[3] = 1,
              idx |-> m[6], count |-> m[7],
              stamp |-> IF ver \in {V3, V4} THEN m[8] ELSE 0,
              wm |-> IF ver = V4 THEN m[9] ELSE 0,
              payload |-> m[HeaderWords(ver)]]

-----------------------------------------------------------------------------
(* Cutting and parity *)

CountOf(payload) == IF payload = <<>> THEN 1 ELSE (Len(payload) + Chunk - 1) \div Chunk

PieceOf(payload, i) ==
    SubSeq(payload, i * Chunk + 1,
           IF (i + 1) * Chunk <= Len(payload) THEN (i + 1) * Chunk ELSE Len(payload))

\* The bit of a piece at j, zero past its end.
At(piece, j) == IF j <= Len(piece) THEN piece[j] ELSE 0

\* XOR of a set of pieces, each as long as a whole chunk.
XorOf(pieces, I) ==
    [j \in 1..Chunk |-> Cardinality({i \in I : At(pieces[i], j) = 1}) % 2]

\* The parity payload: the length of the last piece, and the XOR of all.
ParityOf(payload) ==
    LET n == CountOf(payload)
    IN  [last |-> Len(PieceOf(payload, n - 1)),
         xor |-> XorOf([i \in 0..(n - 1) |-> PieceOf(payload, i)], 0..(n - 1))]

\* encode_fragments: parity only when there are two fragments or more.
Fragments(au, parity) ==
    LET n == CountOf(au.annex_b)
        Frag(i, p) == [seq |-> au.seq, size |-> au.size, keyframe |-> au.keyframe,
                       idx |-> i, count |-> n, stamp |-> au.stamp, wm |-> au.wm,
                       payload |-> p]
    IN  {Frag(i, PieceOf(au.annex_b, i)) : i \in 0..(n - 1)}
          \cup (IF parity /\ n > 1 THEN {Frag(n, ParityOf(au.annex_b))} ELSE {})

\* Mutant: the length of the last piece is not restored.
RecoveredUncut(parts, missing, n, parity) ==
    LET x == XorOf(parts, DOMAIN parts) IN [j \in 1..Chunk |-> (parity.xor[j] + x[j]) % 2]

\* recover_fragment: the XOR of the parity and the pieces that are there, cut to
\* the length of the last piece where the last one is missing.
Recovered(parts, missing, n, parity) ==
    LET x == XorOf(parts, DOMAIN parts)
        acc == [j \in 1..Chunk |-> (parity.xor[j] + x[j]) % 2]
    IN  IF missing = n - 1 THEN SubSeq(acc, 1, parity.last) ELSE acc

-----------------------------------------------------------------------------
(* The assembler: the parts it has, by index, and its parity, if any *)

Idle == [seq |-> 0, size |-> 0, keyframe |-> FALSE, count |-> 0, stamp |-> 0, wm |-> 0,
         parts |-> <<>>, parity |-> {}]

\* A fragment of another access unit starts over.
Adopt(a, f) ==
    IF a.seq = f.seq THEN a
    ELSE [seq |-> f.seq, size |-> f.size, keyframe |-> f.keyframe, count |-> f.count,
          stamp |-> f.stamp, wm |-> f.wm, parts |-> <<>>, parity |-> {}]

Stored(a, f) ==
    IF f.idx = f.count THEN [a EXCEPT !.parity = {f.payload}]
    ELSE [a EXCEPT !.parts = [i \in DOMAIN a.parts \cup {f.idx} |->
                                IF i = f.idx THEN f.payload ELSE a.parts[i]]]

Missing(a) == (0..(a.count - 1)) \ DOMAIN a.parts

\* Mutant: parity is never used.
WholeOnly(a) == Missing(a) = {}

\* All parts are there, or one is missing and parity gives it.
Whole(a) == Missing(a) = {} \/ (Cardinality(Missing(a)) = 1 /\ a.parity # {})
Piece(a, i) == IF i \in DOMAIN a.parts THEN a.parts[i]
               ELSE Recovered(a.parts, i, a.count, CHOOSE p \in a.parity : TRUE)
Joined(a) == FlattenSeq([i \in 1..a.count |-> Piece(a, i - 1)])

\* Mutant: an access unit stays in the assembler after it was returned.
PushFragmentKeeps(f) ==
    LET a == Stored(Adopt(asm, f), f)
    IN  IF Whole(a)
        THEN /\ out' = Append(out, [seq |-> f.seq, size |-> a.size, keyframe |-> a.keyframe,
                                    annex_b |-> Joined(a), stamp |-> a.stamp, wm |-> a.wm])
             /\ asm' = a
        ELSE asm' = a /\ UNCHANGED out

\* FragmentAssembler::push: what it is left with, and what it returns.
PushFragment(f) ==
    LET a == Stored(Adopt(asm, f), f)
    IN  IF f.count # Adopt(asm, f).count
        THEN asm' = Adopt(asm, f) /\ UNCHANGED out
        ELSE IF Whole(a)
        THEN /\ out' = Append(out, [seq |-> f.seq, size |-> a.size, keyframe |-> a.keyframe,
                                    annex_b |-> Joined(a), stamp |-> a.stamp,
                                    wm |-> a.wm])
             /\ asm' = [a EXCEPT !.seq = 0, !.parts = <<>>, !.parity = {}]
        ELSE asm' = a /\ UNCHANGED out

-----------------------------------------------------------------------------
Init ==
    /\ fec \in BOOLEAN
    /\ sent = <<>> /\ flight = {} /\ asm = Idle /\ out = <<>> /\ run = {} /\ lost = 0

\* The host sends one access unit; the channel holds every fragment of it.
Send ==
    /\ Len(sent) < Units
    /\ \E p \in Pictures :
          LET au == AccessUnit(Len(sent) + 1, p)
          IN  /\ sent' = Append(sent, au)
              /\ flight' = flight \cup {EncodeFragment(f) : f \in Fragments(au, fec)}
    /\ UNCHANGED <<fec, asm, out, run, lost>>

Lose == /\ lost < MaxLost
        /\ \E m \in flight : flight' = flight \ {m}
        /\ lost' = lost + 1
        /\ UNCHANGED <<fec, sent, asm, out, run>>

\* A message arrives, in any order: what does not parse is dropped.
Receive ==
    \E m \in flight :
       LET f == DecodeFragment(m)
       IN  /\ flight' = flight \ {m}
           /\ IF f.ok
              THEN /\ PushFragment(f)
                   /\ run' = {r \in run : r[1] = f.seq} \cup {<<f.seq, f.idx>>}
              ELSE UNCHANGED <<asm, out, run>>
           /\ UNCHANGED <<fec, sent, lost>>

\* Everything was sent, and arrived or was lost.
Done == Len(sent) = Units /\ flight = {} /\ UNCHANGED vars

Next == Send \/ Lose \/ Receive \/ Done
Spec == Init /\ [][Next]_vars

-----------------------------------------------------------------------------
(* Properties *)

Promise == INSTANCE FrameChannel WITH
    AccessUnits <- {AccessUnit(q, p) : q \in 1..Units, p \in Pictures},
    pushed <- ToSet(sent), delivered <- out

\* What the assembler returns is an access unit that was sent, field for field and
\* bit for bit, and returned once, whatever was lost, recovered or mixed up on
\* the way, and whatever of it still arrives afterwards.
ImplementsFrameChannel == Promise!Spec

\* As many fragments of one access unit, with none of another in between, as
\* carry all of its bits are enough: all pieces, or all but one and the parity.
EnoughIsEnough == \A u \in DOMAIN sent :
    LET n == CountOf(sent[u].annex_b)
        got == {r[2] : r \in {q \in run : q[1] = u}}
    IN  Cardinality(got) >= n => \E i \in DOMAIN out : out[i].seq = u
=============================================================================
