----------------------------- MODULE MCSimCompile -----------------------------
(* compile() with no time limit, an invalid one (0) and a limit of two   *)
(* ticks; the clock runs one tick past the limit, so a compiler can end   *)
(* before it, at it, or be killed.                                        *)
EXTENDS SimCompile

MCTimeLimits == {NoLimit, 0, 2}
MCMaxElapsed == 3
=============================================================================
