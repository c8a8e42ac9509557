------------------------------- MODULE MCArgv -------------------------------
(* Strings of at most three characters, one of which is the delimiter.     *)
EXTENDS Argv

MCArguments == {<<>>, <<"a">>}
MCStrings == UNION {[1 .. n -> {"a", ";"}] : n \in 0 .. 3}
=============================================================================
