------------------------- MODULE MCStringPredicates -------------------------
EXTENDS ProcessPaths

(* Each class boundary with its outside neighbours: '/' '0' '9' ':',     *)
(* '@' 'A' 'Z' '[', '`' 'a' 'z' '{', and '-' '.' '_' '^'.                *)
MCBoundaryChars == {47, 48, 57, 58, 64, 65, 90, 91, 96, 97, 122, 123, 45, 46, 95, 94}
MCShortLen == 2

(* The characters the number grammar tells apart ('-', '.', two digits)  *)
(* and one outside it ('a'); strings up to "-0.9".                       *)
MCNumberChars == {45, 46, 48, 57, 97}
MCNumberLen == 4
(* Patterns of up to two characters over '0' and 'a'.                    *)
MCPatterns == Strings({48, 97}, 2)
(* The inputs: every string of the two families above.                   *)
MCInputs == Strings(MCBoundaryChars, MCShortLen) \cup Strings(MCNumberChars, MCNumberLen)
(* Buffers of 2 and 3 bytes with targets of up to four: each side of both *)
(* boundaries.  " (deleted)" is scaled to "." so exec + suffix and a      *)
(* longer, truncated target both occur among the inputs.                  *)
MCExeBuf == 2
MCExeBigBuf == 3
MCDeletedSuffix == <<46>>
=============================================================================
