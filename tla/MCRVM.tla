------------------------------- MODULE MCRVM -------------------------------
(***************************************************************************)
(* The instance of RVM that TLC checks.                                    *)
(***************************************************************************)
EXTENDS RVMRefinement

CONSTANTS s1, s2

\* Overlapping ranges in one segment; in the other a range that begins after
\* the end of the new file.
MCSegs == {s1, s2}
MCUses == {<<s1, {1}>>, <<s1, {2}>>, <<s1, {1, 2}>>, <<s2, {2}>>}
=============================================================================
