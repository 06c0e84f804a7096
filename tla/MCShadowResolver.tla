-------------------------- MODULE MCShadowResolver --------------------------
(* Bars of two minutes, a signal in the first minute of bar 0, an entry    *)
(* window of one bar and a horizon of two.  A minute touches the entry     *)
(* zone only, the target only, or everything.                              *)
EXTENDS ShadowResolver

MinuteRanges == {<<3, 4>>, <<4, 5>>, <<1, 5>>}

=============================================================================
