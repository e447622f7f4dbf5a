---------------------------- MODULE MCKLineCache ----------------------------
(* A small market: two-candle preload into a three-candle buffer, averages over
   two and three candles, so that the buffer wraps and averages are adjusted,
   missed and recomputed within the bounds. *)
EXTENDS KLineCache
=============================================================================
