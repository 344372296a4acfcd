---------------------------- MODULE StreamGuardMC ----------------------------
(****************************************************************************)
(* One stream of up to two chunks under configurations that differ in the   *)
(* budget, the action on a match, the interception switch and the allow     *)
(* list.  Streams meet only in the configuration, replaced at any time, and *)
(* in the counters.                                                         *)
(****************************************************************************)
EXTENDS StreamGuard, GuardMC

MCStreams     == {"s"}
MCStreamModel == [s \in MCStreams |-> "GPT-5.5"]

Text       == <<Malformed, Silent>>      \* an event line and an empty report
Harmless   == <<Doc(2, 777), Malformed>>
BadUsage   == <<Doc(4, 516)>>
\* Two reports in one chunk: the last one counts.
Overridden == <<Doc(1, 516), Doc(1, 777)>>

\* A report that the end of a chunk cuts in two.
Opening == <<Malformed, <<Doc(4, 516), 1>>>>
Closing == <<<<Doc(4, 516), 2>>, Silent>>

MCSources     == {<<Text>>, <<Text, BadUsage>>, <<BadUsage, Text>>, <<Overridden, BadUsage>>,
                  <<Opening, Closing>>}
MCRetryChunks == {Text, Harmless, BadUsage, Overridden}
MCCutChunks   == {Opening, Closing}

MCConfigs ==
    {Base(2),
     [Base(1) EXCEPT !.StreamAction = "disconnect"],
     [Base(1) EXCEPT !.InterceptStreaming = FALSE],
     [Base(2) EXCEPT !.Models = {"o3"}, !.StreamAction = "disconnect"]}
=============================================================================
