-------------------------- MODULE MCCaptureEncoder --------------------------
(* A model-checking instance of CaptureEncoder: machines that differ in     *)
(* what their encoders can do, and on them commands of keyframes, rates and *)
(* sizes, with and without failures.                                        *)
EXTENDS CaptureEncoder

CONSTANTS narrow, wide, short, tall, slow, fast, low, high

MCCliTarget == [width |-> narrow, height |-> short, fps |-> fast, kbps |-> low]
MCCapable == [accepts |-> Rates, canConvert |-> TRUE, takesDevice |-> TRUE,
              runtimeRate |-> TRUE, forces |-> TRUE, spacing |-> 0, requests |-> 3]

MCPixels == [MCCapable EXCEPT !.takesDevice = FALSE, !.canConvert = FALSE]
MCRefused == [MCCapable EXCEPT !.takesDevice = FALSE]
MCRebuilt(m, rates) == [m EXCEPT !.runtimeRate = FALSE, !.accepts = rates]
MCAt(f, k) == [MCCliTarget EXCEPT !.fps = f, !.kbps = k]

\* A keyframe is commanded and something goes wrong, where a capable machine's means
\* are missing: the conversion, the device, the forced keyframe (the schedule must do),
\* the encoder.
MCFaults ==
  [machine : {MCCapable, MCPixels, MCRefused, MCRebuilt(MCRefused, {}),
              [MCRefused EXCEPT !.forces = FALSE, !.spacing = 2]},
   orders : {<<RequestIdr>>}, faults : {1}]

\* Encoders fed with textures are rebuilt for another bitrate, or refuse it.
MCRebuilds ==
  [machine : {MCRebuilt(MCCapable, Rates), MCRebuilt(MCRefused, {<<fast, low>>})},
   orders : {<<MCAt(fast, high)>>}, faults : {0}]

\* Rates back and forth, with both mixtures on the way, for encoders fed with pixels,
\* each picture a keyframe, that refuse none, a mixture, the one commanded, or all but
\* the first.
MCRates ==
  LET m == [MCPixels EXCEPT !.spacing = 1, !.requests = 1]
  IN  [machine : {m, [m EXCEPT !.accepts = Rates \ {<<slow, high>>}],
                  MCRebuilt(m, Rates \ {<<slow, low>>}), MCRebuilt(m, {<<fast, low>>})},
       orders : {<<MCAt(slow, high), MCCliTarget, MCAt(slow, high)>>}, faults : {0}]
      \cup
      [machine : {MCRebuilt(m, Rates \ {<<slow, high>>})},
       orders : {<<MCAt(slow, high), MCAt(slow, low), MCAt(slow, high)>>}, faults : {0}]

\* A target of another size.
MCSizes ==
  LET m == [MCCapable EXCEPT !.spacing = 1]
  IN  [machine : {m, [m EXCEPT !.takesDevice = FALSE],
                  [MCPixels EXCEPT !.spacing = 1, !.requests = 1]},
       orders : {<<[MCCliTarget EXCEPT !.width = wide, !.height = tall]>>}, faults : {0}]

MCScenarios == MCFaults \cup MCRebuilds \cup MCRates \cup MCSizes
=============================================================================
