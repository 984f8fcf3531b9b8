--------------------------- MODULE MCSensorStreams ---------------------------
(* Readings for the streams of 02-streaming-rpc, in tenths of a degree.    *)
EXTENDS SensorStreams, TLC

\* The client sends 28.5, 29.5, 30.5, 31.0, 27.0; here with one of exactly
\* 30.0 among them.
MCReadings == <<285, 305, 300, 310, 270>>
=============================================================================
