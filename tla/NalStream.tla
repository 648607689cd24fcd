----------------------------- MODULE NalStream -----------------------------
(***************************************************************************)
(* What the Windows encoder's output becomes (capture-bridge               *)
(* mf_encoder.rs): a sample is Annex-B (start codes) or AVCC (four-byte    *)
(* lengths), told apart by its first bytes; AVCC is rewritten; parameter   *)
(* sets are taken from the media type and then from the stream, and put in *)
(* front of a keyframe that has none. A viewer may join at any keyframe:   *)
(* the host looks for a slice of type 5 (proto video_frame.rs), the native *)
(* client for an SPS (client webrtc_player.rs).                            *)
(*                                                                         *)
(* A byte is a number below Base, so that lengths and start codes can be   *)
(* confused as they are with 256. The encoder's emulation prevention is    *)
(* external: a unit's payload is Filler and never looks like a start code. *)
(***************************************************************************)
EXTENDS Integers, FiniteSets, SequencesExt

CONSTANTS Base,        \* values of a byte
          Lengths,     \* lengths of a unit
          Formats,     \* subset of {"long", "short", "avcc"}: what the encoder emits
          Blobs,       \* subset of {"sets", "avcc", "none"}: the first media type's header
          NewBlobs,    \* the same, for the type after a stream change
          MaxChanges,  \* bound: times the encoder changes its stream
          MaxSamples   \* bound: samples read

\* A unit's length fits three of the four bytes.
ASSUME NalAssumption ==
    /\ Base \in Nat /\ Base > 10
    /\ Lengths \subseteq 1..(Base * Base * Base - 1)
    /\ MaxChanges \in Nat /\ 2 + MaxChanges < Base

VARIABLES header,   \* sequence_header
          learned,  \* learned_parameter_sets
          version,  \* external: which parameter sets the encoder's stream uses
          known,    \* history: a sample or the media type has shown them
          outdated, \* history: the sets learned are an earlier stream's, and the
                    \* new media type hides its own
          last,     \* the last sample: what the encoder meant and what was sent
          samples   \* samples read

nalVars == <<header, learned, version, known, outdated, last, samples>>

-----------------------------------------------------------------------------
(* Bytes *)

Slice == 1
Idr == 5
Sps == 7
Pps == 8
Filler == 9

\* The version stands for the contents of a parameter set.
Unit(type, length, ver) ==
    <<type>> \o [i \in 1..(length - 1) |-> IF i = 1 /\ type \in {Sps, Pps} THEN 2 + ver ELSE Filler]

Code4 == <<0, 0, 0, 1>>
Code3 == <<0, 0, 1>>

AnnexB(units, code) == FlattenSeq([i \in DOMAIN units |-> code \o units[i]])
Length4(n) == <<0, (n \div Base) \div Base, (n \div Base) % Base, n % Base>>
Avcc(units) == FlattenSeq([i \in DOMAIN units |-> Length4(Len(units[i])) \o units[i]])

\* Mutant: three-byte codes are taken for lengths.
StartsWithLongCode(d) == IsPrefix(Code4, d)

StartsWithCode(d) == IsPrefix(Code4, d) \/ IsPrefix(Code3, d)

\* avcc_to_annex_b: the units the lengths say, or an error.
AvccUnits[d \in Seq(0..(Base - 1))] ==
    IF Len(d) < 4 THEN [ok |-> TRUE, data |-> <<>>]
    ELSE LET n == d[2] * Base * Base + d[3] * Base + d[4]
         IN  IF d[1] # 0 \/ n = 0 \/ 4 + n > Len(d) THEN [ok |-> FALSE, data |-> <<>>]
             ELSE LET rest == AvccUnits[SubSeq(d, 5 + n, Len(d))]
                  IN  [ok |-> rest.ok, data |-> Code4 \o SubSeq(d, 5, 4 + n) \o rest.data]

\* nal_ranges: the positions after each start code, and each unit up to the
\* next code, without the zero that makes that one a long code.
Starts(d) == {i \in 4..(Len(d) + 1) : d[i - 3] = 0 /\ d[i - 2] = 0 /\ d[i - 1] = 1}
UnitEnd(d, i) ==
    LET later == {j \in Starts(d) : j > i}
        next == Min(later)
    IN  IF later = {} THEN Len(d)
        ELSE IF next > 4 /\ d[next - 4] = 0 THEN next - 5 ELSE next - 4
NonEmpty(d) == {i \in Starts(d) : i <= UnitEnd(d, i)}

\* The units that begin at some of the positions, in order.
Nth(S, n) == CHOOSE i \in S : Cardinality({j \in S : j < i}) = n - 1
UnitsAt(d, S) ==
    [n \in 1..Cardinality(S) |-> SubSeq(d, Nth(S, n), UnitEnd(d, Nth(S, n)))]
Units(d) == UnitsAt(d, NonEmpty(d))

Types(d) == {d[i] : i \in {j \in Starts(d) : j <= Len(d)}}
ContainsSps(d) == Sps \in Types(d)

\* extract_parameter_sets: both kinds or nothing.
ParameterSets(d) ==
    LET sets == {i \in NonEmpty(d) : d[i] \in {Sps, Pps}}
    IN  IF {d[i] : i \in sets} = {Sps, Pps} THEN AnnexB(UnitsAt(d, sets), Code4) ELSE <<>>

\* annex_b_is_keyframe, and the native client's starts_a_stream.
IsKeyframe(d) == Idr \in Types(d)
StartsAStream(d) == ContainsSps(d)

-----------------------------------------------------------------------------
(* The encoder object *)

SetsOf(ver) == <<Unit(Sps, 3, ver), Unit(Pps, 2, ver)>>

\* read_sequence_header: the media type's blob, when it is Annex-B.
BlobOf(kind, ver) == IF kind = "sets" THEN AnnexB(SetsOf(ver), Code4)
                     ELSE IF kind = "avcc" THEN Avcc(SetsOf(ver)) ELSE <<>>
ReadHeader(blob) == IF StartsWithCode(blob) THEN blob ELSE <<>>

NoSample == [units |-> <<>>, format |-> "none", key |-> FALSE, sent |-> <<>>, ok |-> FALSE]

NalInit ==
    /\ version = 0 /\ learned = FALSE /\ outdated = FALSE /\ samples = 0 /\ last = NoSample
    /\ \E b \in Blobs : header = ReadHeader(BlobOf(b, 0)) /\ known = (b = "sets")

\* A sample: slices, with or without parameter sets in front when a keyframe.
Samples(key) ==
    {<<Unit(IF key THEN Idr ELSE Slice, l, 0)>> : l \in Lengths}
    \cup (IF key THEN {SetsOf(version) \o <<Unit(Idr, l, 0)>> : l \in Lengths} ELSE {})

\* read_sample: told apart, rewritten, learned from, completed.
Rewritten(d) == IF StartsWithCode(d) THEN [ok |-> TRUE, data |-> d] ELSE AvccUnits[d]
Learn(d) == IF ~learned /\ ParameterSets(d) # <<>> THEN ParameterSets(d) ELSE header

\* Mutant: the header goes behind the keyframe.
CompletedBehind(d, key) == IF key /\ Learn(d) # <<>> /\ ~ContainsSps(d) THEN d \o Learn(d) ELSE d

Completed(d, key) == IF key /\ Learn(d) # <<>> /\ ~ContainsSps(d) THEN Learn(d) \o d ELSE d

ReadSample ==
    /\ samples < MaxSamples /\ samples' = samples + 1
    /\ \E key \in BOOLEAN, f \in Formats : \E units \in Samples(key) :
          LET raw == IF f = "avcc" THEN Avcc(units)
                     ELSE AnnexB(units, IF f = "long" THEN Code4 ELSE Code3)
              r == Rewritten(raw)
          IN  IF ~r.ok
              THEN /\ last' = [units |-> units, format |-> f, key |-> key,
                               sent |-> <<>>, ok |-> FALSE]
                   /\ UNCHANGED <<header, learned, known>>
              ELSE /\ last' = [units |-> units, format |-> f, key |-> key,
                               sent |-> Completed(r.data, key), ok |-> TRUE]
                   /\ header' = Learn(r.data)
                   /\ learned' = (learned \/ ParameterSets(r.data) # <<>>)
                   /\ known' = (known \/ Len(units) = 3)
    /\ UNCHANGED <<version, outdated>>

\* renegotiate_output: the stream changes, the header is read from the new type;
\* what was learned is not forgotten, and nothing is learned again.
Renegotiate ==
    /\ version < MaxChanges /\ version' = version + 1
    /\ \E b \in NewBlobs : /\ header' = ReadHeader(BlobOf(b, version + 1))
                           /\ known' = (b = "sets") /\ outdated' = (learned /\ b # "sets")
    /\ last' = NoSample
    /\ UNCHANGED <<learned, samples>>

Done == samples = MaxSamples /\ UNCHANGED nalVars

NalNext == ReadSample \/ Renegotiate \/ Done
NalSpec == NalInit /\ [][NalNext]_nalVars

-----------------------------------------------------------------------------
(* Properties *)

\* The units of the last sample that a viewer finds in what was sent.
Got == Units(last.sent)

\* A first length whose bytes are 0, 0, 1 and another is taken for a start code,
\* and the sample for Annex-B.
Mistaken == last.format = "avcc" /\ Len(last.units[1]) \in Base..(2 * Base - 1)

\* Every unit the encoder emitted arrives, in order and unchanged, behind nothing
\* but parameter sets, whatever the format, code or length: only a sample that is
\* taken for another format is garbled, and no sample after it.
Unchanged ==
    last.units # <<>> /\ ~Mistaken =>
       /\ last.ok
       /\ IsSuffix(last.units, Got)
       /\ \A i \in 1..(Len(Got) - Len(last.units)) : Got[i][1] \in {Sps, Pps}

\* A keyframe starts a stream for whoever joins at it: once the parameter sets
\* in use have been seen, every keyframe carries them, and no other version. Not
\* so when those of an earlier stream were learned and the new type hides its own.
JoinsAtKeyframe ==
    (last.key /\ last.ok /\ known /\ ~outdated /\ ~Mistaken) =>
       /\ StartsAStream(last.sent) /\ IsKeyframe(last.sent)
       /\ IsPrefix(SetsOf(version), Got)
=============================================================================
