---------------------------- MODULE MCCodecStream ----------------------------
(* Small instances of CodecStream for TLC. *)
EXTENDS CodecStream

\* The firmware's own build, and the edges of each range of the clock.
EdgeBuilds ==
    [rate : {44100, 48000}, clock : {10001, 20000, 50000, 50001, 100000, 100001,
                                     200000, 200001}]

===============================================================================
