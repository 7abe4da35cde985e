-------------------------- MODULE MCExpectConsole --------------------------
(* ExpectConsole as it is: its constants are numbers and sets of strings.   *)
EXTENDS ExpectConsole
=============================================================================
