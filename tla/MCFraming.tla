------------------------------ MODULE MCFraming ------------------------------
(***************************************************************************)
(* A small instance of Framing for TLC.                                    *)
(***************************************************************************)
EXTENDS Framing

\* The defaults; one character each, as in README.md; two that overlap at an end,
\* so that a delimiter can appear where none was written; one that begins like the
\* other; one that overlaps itself; and those that the constructor refuses.
SomeDelimiters ==
  {<< <<" ">>, <<"CR", "LF">> >>, << <<",">>, <<"LF">> >>,
   << <<"LF", "CR">>, <<"CR", "LF">> >>, << <<"CR">>, <<"CR", "LF">> >>,
   << <<" ">>, <<"LF", "LF">> >>,
   << <<>>, <<"LF">> >>, << <<" ">>, <<>> >>, << <<"CR", "LF">>, <<"LF">> >>}

\* Values for SetValue, one of them with a delimiter.
SomeValues == {<<"CR">>, <<"CR", "LF">>}

\* Messages with the times 1 s, 10 s and 7 ns, and -1 s, with an empty value and
\* values that look like half a delimiter; one whose time is too large; one
\* without a header.
SomePackets ==
  {<< <<"1">>, <<"0">>, <<"LF">> >>,
   << <<"1", "0">>, <<"7">>, <<>>, <<"CR">> >>,
   << <<"-", "1">>, <<"0">> >>,
   << <<"1", "1">>, <<"0">> >>,
   << <<"1">> >>}
=============================================================================
