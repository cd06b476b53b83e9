-------------------------------- MODULE MCPy --------------------------------
(* Sessions for Py: four kinds of lines to type in any order. *)
EXTENDS Py, TLC
L(ind, ws) == [ind |-> ind, ws |-> ws]
MCNumerals == [w \in {"0", "1", "2", "5"} |-> CASE w = "0" -> 0 [] w = "1" -> 1
                                               [] w = "2" -> 2 [] w = "5" -> 5]
MCLiterals == ("'f'" :> <<"f">>) @@ ("'m.py'" :> <<"m", ".py">>) @@ ("'w'" :> <<"w">>)
              @@ ("'a'" :> <<"a">>) @@ ("'12'" :> <<"1", "2">>)
\* A module that defines g and has no newline at its end.
MCSources == (<<"1", "2">> :> [lines |-> <<L(0, <<"x", "=", "5">>)>>, nl |-> FALSE])
Blocks == { L(0, <<"if", "x", "==", "1", ":">>), L(1, <<"y", "=", "x", "*", "2", "+", "1">>),
            L(0, <<>>), L(0, <<"else", ":">>), L(0, <<"x", "=", "1">>),
            L(1, <<"for", "i", "in", "range", "(", "x", ")", ":", "x", "=", "x", "+", "i">>),
            L(0, <<"while", "x", "<", "5", ":", "x", "=", "x", "+", "2">>),
            L(1, <<"#">>), L(2, <<"print", "(", "-", "x", ")">>) }
Calls == { L(0, <<"def", "f", "(", "a", ",", "b", ")", ":">>),
           L(1, <<"if", "b", ">", "0", ":", "return", "f", "(", "a", "+", "b", ",", "b", "-", "1", ")">>),
           L(1, <<"if", "b", "==", "1", ":", "b", "=", "a", "-", "f", "(", "b", ",", "0", ")">>),
           L(1, <<"a", "=", "2">>),
           L(1, <<"return", "a", "+", "b">>),
           L(0, <<"a", "=", "5">>), L(0, <<"f", "(", "1", ",", "a", ")">>),
           L(0, <<"f", "(", "2", ",", "1", ")", "+", "a">>) }
Objects == { L(0, <<"l", "=", "[", "1", ",", "'a'", "]">>), L(0, <<"m", "=", "l">>),
             L(0, <<"append", "(", "l", ",", "m", ")">>), L(0, <<"l", "=", "l", "+", "m">>),
             L(0, <<"print", "(", "len", "(", "l", ")", ",", "l", "[", "-", "1", "]", ")">>),
             L(0, <<"for", "x", "in", "l", ":", "append", "(", "m", ",", "x", ")">>),
             L(0, <<"not", "l", "==", "m", "or", "str", "(", "int", "(", "'12'", ")", ")">>) }
Disk == { L(0, <<"f", "=", "open", "(", "'m.py'", ",", "'w'", ")">>),
          L(0, <<"g", "=", "open", "(", "'m.py'", ")">>),
          L(0, <<"write", "(", "f", ",", "'12'", ")">>), L(0, <<"close", "(", "f", ")">>),
          L(0, <<"f", "=", "g">>), L(0, <<"x", "=", "read", "(", "g", ",", "1", ")">>),
          L(0, <<"close", "(", "g", ")">>), L(0, <<"remove", "(", "'m.py'", ")">>),
          L(0, <<"import", "m">>), L(0, <<"d", "=", "listdir", "(", ")">>) }
MCMenus == {Blocks, Calls, Objects, Disk \cup {L(0, <<"format", "(", ")">>)}}
=============================================================================
