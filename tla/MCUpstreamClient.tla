-------------------------- MODULE MCUpstreamClient ---------------------------
(* Small instances of UpstreamClient.                                        *)
EXTENDS UpstreamClient

CONSTANTS a, b

EverySymbol == {CR, LF, DoneMark, Text, Garbage, a, b}
LongSymbols == {CR, LF, Garbage, a, b}

EveryConfiguration == [streamed : BOOLEAN, retry : BOOLEAN, stream_options : BOOLEAN]
PlainConfiguration == {[streamed |-> TRUE, retry |-> FALSE, stream_options |-> FALSE]}
=============================================================================
