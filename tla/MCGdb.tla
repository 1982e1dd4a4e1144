-------------------------------- MODULE MCGdb --------------------------------
(* Sessions for TLC.                                                       *)
EXTENDS GdbSession

Texts == {<<"?">>, <<"g">>, <<"G", "1">>, <<"p", "1">>, <<"p", "99">>, <<"P", "1">>, <<"P", "SR">>,
          <<"P", "99">>, <<"m">>, <<"M", "1">>, <<"c">>, <<"s">>, <<"q">>}

\* a session of one command with two mishaps, of two or three with one
SmallScenarios ==
  [commands : {<<a>> : a \in Texts}, mishaps : {2}, syscalls : {0}]
  \cup [commands : {<<a, b>> : a \in Texts, b \in {<<"g">>, <<"m">>, <<"s">>, <<"q">>}}, mishaps : {1}, syscalls : {0}]
  \cup [commands : {<<<<"M", "1">>, <<"s">>, <<"m">>>>, <<<<"P", "1">>, <<"c">>, <<"g">>>>,
                    <<<<"c">>, <<"s">>, <<"m">>>>},
        mishaps : {1}, syscalls : {1}]
=============================================================================
