-------------------------- MODULE MCAppendOnlyFile --------------------------
(***************************************************************************)
(* The commands that are logged, for model checking AppendOnlyFile.        *)
(***************************************************************************)
EXTENDS AppendOnlyFile

\* A word that looks like the beginning of another, and one that is an end of line.
MCCommands == {<< <<"S">>, <<"$">> >>, << <<"\r", "\n">> >>}
=============================================================================
