------------------------------ MODULE MCFtrace ------------------------------
(* An instance of Ftrace for TLC. *)
EXTENDS Ftrace

\* The usual order, another string table ahead of the right one, a stripped file.
MCSections == {<<"NULL", "SYMTAB", "STRTAB", "SHSTRTAB">>,
               <<"SHSTRTAB", "NULL", "SYMTAB", "STRTAB">>, <<"NULL", "SHSTRTAB">>}
\* Up to three symbols over the addresses 0 to 2; one of a table is an object.
MCSymbol  == [func : {TRUE}, value : 0 .. 2, size : 0 .. 2]
MCSymbols == UNION {[1 .. n -> MCSymbol] : n \in 0 .. 3}
             \cup {<<[func |-> FALSE, value |-> 1, size |-> 2], s>> : s \in MCSymbol}
=============================================================================
