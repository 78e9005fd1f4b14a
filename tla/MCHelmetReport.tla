--------------------------- MODULE MCHelmetReport ---------------------------
(* HelmetReport with a three-sample ring and six samples: at rest in two   *)
(* poses, two that make a swing without crossing a limit, an impact and a  *)
(* free fall.                                                              *)
EXTENDS HelmetReport

On(axis, mg) == [axis |-> axis, mg |-> mg]

MCSamples == {On("x", 1000), On("z", 1000), On("x", 880), On("x", 1290),
              On("x", 1400), On("x", 600)}
=============================================================================
