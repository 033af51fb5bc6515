----------------------------- MODULE MCHandoff ------------------------------
(* A small instance of Handoff for TLC.                                    *)
EXTENDS Handoff

\* coarsen and identity are lenient, interpolate and julia are not; shell
\* stands for a sandbox: command.
MCPlans ==
  {<<"identity", "interpolate", "interpolate">>, <<"interpolate", "coarsen">>,
   <<"interpolate", "julia">>, <<"identity">>, <<"shell">>}

\* Nothing, or a first step with the command of some plans and not of others.
MCEarlier == {<<>>, <<"interpolate">>}
=============================================================================
