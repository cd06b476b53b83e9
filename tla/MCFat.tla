------------------------------ MODULE MCFat --------------------------------
EXTENDS Fat

\* A file in the root, and a name there that may also be a directory with one
\* file in it.
MCPaths == {<<"hello">>, <<"a">>, <<"a", "hello">>}

\* Programs that open a file to write it either cut it or append to it, but for
\* touch, which does not write.
MCModes == {{"read"}, {"write", "create", "trunc"}, {"write", "create", "append"}}

\* Several descriptors, one of which writes, are used only before a power cut and
\* where there is no directory: two that write, or one beside a reader of HELLO.TXT.
\* After a cut programs make, remove and open, and do no more with what they opened.
Used == {i \in Fds : fdt[i].used}
Writers == {i \in Used : Writable(fdt[i])}

NoFolder == \A slot \in Named(0) : ~CellAt(slot).dir

Sparing ==
    /\ Intact
    /\ Cardinality(Used) > 1 =>
          /\ cuts = 0 /\ NoFolder
          /\ \/ Writers = Used
             \/ Writers # {} /\ \A i \in Used : fdt[i].path = <<Hello>>
    /\ cuts > 0 => Used = {}
=============================================================================
