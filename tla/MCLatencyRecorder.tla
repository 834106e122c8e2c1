-------------------------- MODULE MCLatencyRecorder --------------------------
(***************************************************************************)
(* The recorders for TLC, with the percentiles of summary(), its quartile  *)
(* counterparts that few samples tell apart, and the ends of the range;    *)
(* calibrations of several rates, one slower than a tick a nanosecond, and *)
(* every degenerate one: a counter that stands still, goes backwards or    *)
(* hardly moves, and no time elapsed.                                      *)
(***************************************************************************)
EXTENDS LatencyRecorder

MCPercentiles ==
    {<<0, 1>>, <<1, 4>>, <<50, 100>>, <<3, 4>>, <<90, 100>>, <<99, 100>>, <<999, 1000>>, <<1, 1>>}

MCReadings ==
    {<<0, 5, 3>>, <<2, 6, 3>>, <<9, 12, 3>>, <<0, 2, 6>>,
     <<5, 5, 3>>, <<7, 4, 1>>, <<0, 1, 4>>, <<0, 4, 0>>}
=============================================================================
