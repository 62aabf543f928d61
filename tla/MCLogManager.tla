---------------------------- MODULE MCLogManager ----------------------------
(* Small instances of LogManager.                                          *)
EXTENDS LogManager

CONSTANTS r1, r2

\* The second leader overwrites the end of the log of the first.
TwoTerms == << <<1, 1, 1>>, <<1, 2, 2>> >>
\* The third leader overwrites what the second wrote with older entries.
ThreeTerms == << <<1, 1>>, <<1, 2>>, <<1, 1, 3>> >>
=============================================================================
