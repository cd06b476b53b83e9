------------------------------- MODULE MCVfs -------------------------------
EXTENDS Vfs

\* A mount point and a name below it, another name in the root and the same name
\* below that one, and one more for which the root has no room.
MCPaths == {<<"sys">>, <<"sys", "a">>, <<"b">>, <<"b", "a">>, <<"c">>}

\* Programs that open a file to write it either cut it or append to it, but for
\* touch, which does not write.
MCModes == {{"read"}, {"write", "create", "trunc"}, {"write", "create", "append"}}
=============================================================================
