------------------------------- MODULE PyEval -------------------------------
(***************************************************************************)
(* The evaluator of the Python interpreter (py/eval.c), its objects        *)
(* (py/object.c) and the little file system its programs use (py/fs.c).    *)
(*                                                                         *)
(* A context c is MpEvalCtx with what the program can change: the table of *)
(* names, the objects, the output and mpfs.  Values are records [t, n, s]; *)
(* a list, a function and a file are references to objects, as pointers    *)
(* are.  Evaluating a node answers [c, v].  Running out of the heap and of *)
(* the stack is left out.                                                  *)
(***************************************************************************)
EXTENDS PyLang
LOCAL INSTANCE SequencesExt
CONSTANTS WhileMax,    \* rounds of a while loop (100000)
          ListMax,     \* MP_LIST_MAX
          EnvSlots,    \* MP_ENV_SLOTS
          FuncArgs,    \* MP_FUNC_ARGS
          MaxFiles,    \* MPFS_MAX_FILES
          MaxFd,       \* MPFS_MAX_FD
          FileMax,     \* MPFS_FILE_MAX
          Sources      \* [contents of a file -> its lines]: what an import reads

None       == [t |-> "none", n |-> 0, s |-> <<>>]
Num(x)     == [t |-> "int", n |-> Wrap(x), s |-> <<>>]
Bool(b)    == [t |-> "bool", n |-> IF b THEN 1 ELSE 0, s |-> <<>>]
Str(s)     == [t |-> "str", n |-> 0, s |-> s]
Ref(t, i)  == [t |-> t, n |-> i, s |-> <<>>]
Object     == [items |-> <<>>, node |-> <<>>, fd |-> 0]

\* mp_as_int: integers and booleans are numbers.
IsInt(v) == v.t \in {"int", "bool"}
mp_is_truthy(c, v) ==
    CASE v.t = "none"            -> FALSE
      [] v.t \in {"int", "bool"} -> v.n # 0
      [] v.t = "str"             -> v.s # <<>>
      [] v.t = "list"            -> c.heap[v.n].items # <<>>
      [] OTHER                   -> TRUE

Is(c, v)     == [c |-> c, v |-> v]
set_err(c, e) == Is([c EXCEPT !.err = e], None)
\* A new object and the reference to it.
New(c, t, o) == Is([c EXCEPT !.heap = Append(@, o)], Ref(t, Len(c.heap) + 1))

mp_env_set(c, name, v) ==
    IF name \in DOMAIN c.env \/ Cardinality(DOMAIN c.env) < EnvSlots
    THEN Is([c EXCEPT !.env = [x \in DOMAIN c.env \cup {name} |->
                                 IF x = name THEN v ELSE c.env[x]]], v)
    ELSE set_err(c, "env full")

-----------------------------------------------------------------------------
(* Text of values *)

Digit == <<"0", "1", "2", "3", "4", "5", "6", "7", "8", "9">>
RECURSIVE Decimal(_)
Decimal(x) == IF x < 10 THEN <<Digit[x + 1]>> ELSE Append(Decimal(x \div 10), Digit[(x % 10) + 1])

\* obj_to_buf.  The least integer has no digits: v = -v is still negative.
obj_to_buf(v) ==
    CASE v.t = "none" -> <<"None">>
      [] v.t = "bool" -> IF v.n = 1 THEN <<"True">> ELSE <<"False">>
      [] v.t = "str"  -> v.s
      [] v.t = "list" -> <<"[list]">>
      [] v.t = "func" -> <<"<function>">>
      [] v.t = "file" -> <<"?">>
      [] v.t = "int"  -> LET x == IF v.n < 0 THEN Wrap(-v.n) ELSE v.n IN
                         (IF v.n < 0 THEN <<"-">> ELSE <<>>)
                         \o (IF x >= 0 THEN Decimal(x) ELSE <<>>)

-----------------------------------------------------------------------------
(* Operators *)

\* C's division: toward zero.
Quotient(a, b) == LET q == (IF a < 0 THEN -a ELSE a) \div (IF b < 0 THEN -b ELSE b)
                  IN  IF (a < 0) # (b < 0) THEN -q ELSE q

RECURSIVE Copies(_, _)
Copies(s, k) == IF k <= 0 THEN <<>> ELSE s \o Copies(s, k - 1)

\* eval_binop after both sides are there.  -Half / -1 does not return (the
\* processor traps); no program of the model does it.
Arithmetic(c, op, a, b) ==
    CASE op = "+" /\ a.t = "str" /\ b.t = "str"   -> Is(c, Str(a.s \o b.s))
      [] op = "+" /\ a.t = "list" /\ b.t = "list" ->
           LET all == c.heap[a.n].items \o c.heap[b.n].items IN
           New(c, "list", [Object EXCEPT !.items =
                              IF Len(all) > ListMax THEN SubSeq(all, 1, ListMax) ELSE all])
      [] op = "*" /\ a.t = "str" /\ IsInt(b)      -> Is(c, Str(Copies(a.s, b.n)))
      [] OTHER ->
           IF ~IsInt(a) \/ ~IsInt(b) THEN set_err(c, "TypeError")
           ELSE CASE op = "+" -> Is(c, Num(a.n + b.n))
                  [] op = "-" -> Is(c, Num(a.n - b.n))
                  [] op = "*" -> Is(c, Num(a.n * b.n))
                  [] op \in {"/", "%"} /\ b.n = 0 -> set_err(c, "ZeroDivisionError")
                  [] op = "/" /\ b.n # 0 -> Is(c, Num(Quotient(a.n, b.n)))
                  [] op = "%" /\ b.n # 0 -> Is(c, Num(a.n - b.n * Quotient(a.n, b.n)))

\* mp_strcmp through the order of the characters.
Rank(ch) == IF ch \in ToSet(Digit) THEN SelectInSeq(Digit, LAMBDA d : d = ch) ELSE 11
RECURSIVE StrLess(_, _)
StrLess(a, b) == /\ b # <<>>
                 /\ \/ a = <<>>
                    \/ Rank(a[1]) < Rank(b[1])
                    \/ a[1] = b[1] /\ StrLess(Tail(a), Tail(b))
Compare(op, lt, eq) ==
    CASE op = "==" -> eq [] op = "!=" -> ~eq [] op = "<" -> lt
      [] op = ">" -> ~lt /\ ~eq [] op = "<=" -> lt \/ eq [] op = ">=" -> ~lt

\* Objects that are no numbers are equal if they are the same object.
eval_compare(c, op, a, b) ==
    CASE a.t = "str" /\ b.t = "str" -> Is(c, Bool(Compare(op, StrLess(a.s, b.s), a.s = b.s)))
      [] IsInt(a) /\ IsInt(b)       -> Is(c, Bool(Compare(op, a.n < b.n, a.n = b.n)))
      [] OTHER -> IF op \in {"==", "!="}
                  THEN Is(c, Bool((op = "==") = (a.t = b.t /\ a.n = b.n /\ a.t # "str")))
                  ELSE set_err(c, "TypeError")

\* mp_list_get and the same for strings: -1 is the last one.
Element(c, base, i) ==
    LET seq == IF base.t = "list" THEN c.heap[base.n].items ELSE base.s
        k   == IF i < 0 THEN i + Len(seq) ELSE i IN
    IF base.t \notin {"list", "str"} THEN set_err(c, "TypeError")
    ELSE IF k < 0 \/ k >= Len(seq) THEN set_err(c, "IndexError")
    ELSE Is(c, IF base.t = "list" THEN seq[k + 1] ELSE Str(<<seq[k + 1]>>))

-----------------------------------------------------------------------------
(* fs.c: files by slot, descriptors by number from 1 (0 is the code's -1). *)

NoFile == [used |-> FALSE, name |-> <<>>, data |-> <<>>]
NoFd   == [used |-> FALSE, ino |-> 0, flags |-> {}, off |-> 0]
Formatted == [files |-> [i \in 1..MaxFiles |-> NoFile], fds |-> [f \in 1..MaxFd |-> NoFd]]

find_inode(c, name) == {i \in 1..MaxFiles : c.fs.files[i].used /\ c.fs.files[i].name = name}
mpfs_exists(c, name) == find_inode(c, name) # {}
First(S) == CHOOSE x \in S : \A y \in S : x <= y
Good(c, fd, flag) == fd \in 1..MaxFd /\ c.fs.fds[fd].used /\ flag \in c.fs.fds[fd].flags

mpfs_unlink(c, name) ==
    LET i == find_inode(c, name) IN
    IF i = {} THEN set_err(c, "No such file")
    ELSE IF \E f \in 1..MaxFd : c.fs.fds[f].used /\ c.fs.fds[f].ino \in i
    THEN set_err(c, "Permission denied")
    ELSE Is([c EXCEPT !.fs.files[First(i)] = NoFile], None)

\* The file is made and cut before a descriptor is looked for.
mpfs_open(c, name, flags) ==
    LET found == find_inode(c, name)
        room  == {i \in 1..MaxFiles : ~c.fs.files[i].used}
        ino   == IF found # {} THEN First(found) ELSE First(room)
        file  == IF found = {} THEN [NoFile EXCEPT !.used = TRUE, !.name = name]
                 ELSE IF {"trunc", "write"} \subseteq flags
                 THEN [c.fs.files[ino] EXCEPT !.data = <<>>]
                 ELSE c.fs.files[ino]
        free  == {f \in 1..MaxFd : ~c.fs.fds[f].used}
        d     == [c EXCEPT !.fs.files[ino] = file] IN
    IF found = {} /\ "create" \notin flags THEN set_err(c, "No such file")
    ELSE IF found = {} /\ room = {} THEN set_err(c, "No space left")
    ELSE IF free = {} THEN set_err(d, "No space left")
    ELSE New([d EXCEPT !.fs.fds[First(free)] =
                 [used |-> TRUE, ino |-> ino, flags |-> flags,
                  off |-> IF "append" \in flags THEN Len(file.data) ELSE 0]],
             "file", [Object EXCEPT !.fd = First(free)])

\* mpfs_close does not ask whether the descriptor is in use.
mpfs_close(c, fd) ==
    IF fd \notin 1..MaxFd THEN set_err(c, "Bad file descriptor")
    ELSE Is([c EXCEPT !.fs.fds[fd].used = FALSE], None)

mpfs_read(c, fd, want) ==
    LET f == c.fs.fds[fd]
        data == c.fs.files[f.ino].data
        left == IF f.off >= Len(data) THEN 0 ELSE Len(data) - f.off
        n    == IF want < left THEN want ELSE left IN
    IF ~Good(c, fd, "read") THEN set_err(c, "Bad file descriptor")
    ELSE Is([c EXCEPT !.fs.fds[fd].off = @ + n], Str(SubSeq(data, f.off + 1, f.off + n)))

\* Behind the end there is what the bytes held before the file was cut: the
\* model writes "old" there.
mpfs_write(c, fd, s) ==
    LET f    == c.fs.fds[fd]
        data == c.fs.files[f.ino].data
        off  == IF "append" \in f.flags THEN Len(data) ELSE f.off
        upto == off + Len(s)
        byte(i) == IF i > off /\ i <= upto THEN s[i - off]
                   ELSE IF i <= Len(data) THEN data[i] ELSE "old"
        size == IF upto > Len(data) THEN upto ELSE Len(data) IN
    IF ~Good(c, fd, "write") THEN set_err(c, "Bad file descriptor")
    ELSE IF upto > FileMax THEN set_err([c EXCEPT !.fs.fds[fd].off = off], "No space left")
    ELSE Is([c EXCEPT !.fs.fds[fd].off = upto,
                      !.fs.files[f.ino].data = [i \in 1..size |-> byte(i)]], Num(Len(s)))

mpfs_listdir(c) ==
    LET names == FlattenSeq([i \in 1..MaxFiles |-> IF c.fs.files[i].used
                                THEN Append(c.fs.files[i].name, "\n") ELSE <<>>])
    IN  Str(IF names = <<>> THEN <<>> ELSE Front(names))

-----------------------------------------------------------------------------
(* eval.c: nodes *)

RECURSIVE eval_node(_, _)

\* One element after the other, each evaluated before the next is looked at.
Steps(Op(_, _), v, seq) ==
    LET after[i \in 0..Len(seq)] ==
            IF i = 0 THEN v ELSE CHOOSE r \in {Op(x, seq[i]) : x \in {after[i - 1]}} : TRUE
    IN  after[Len(seq)]

\* What each function wants: the types of its arguments and how many there
\* may be.  Where range, append and write look at types, the next argument
\* has been evaluated already.
AnyType == {"none", "int", "bool", "str", "list", "func", "file"}
Number  == {"int", "bool"}
Wants == [range |-> <<Number, Number, Number>>, append |-> <<{"list"}, AnyType>>,
          len |-> <<{"str", "list"}>>, int |-> <<{"int", "bool", "str"}>>,
          str |-> <<AnyType>>, type |-> <<AnyType>>, open |-> <<{"str"}, {"str"}>>,
          read |-> <<{"file"}, Number>>, write |-> <<{"file"}, {"str"}>>,
          close |-> <<{"file"}>>, remove |-> <<{"str"}>>, exists |-> <<{"str"}>>,
          listdir |-> <<>>, format |-> <<>>]
Arity(name) == IF name = "range" THEN 1..3
               ELSE IF name \in {"open", "read"} THEN 1..2 ELSE {Len(Wants[name])}
Due(name, i, n) == name \in {"range", "append", "write"} => i # 1 \/ n = 1

Taken(e, name, ws, n) ==
    IF e.c.err # "" THEN [c |-> e.c, vs |-> ws]
    ELSE IF Due(name, Len(ws), n) /\ \E i \in DOMAIN ws : ws[i].t \notin Wants[name][i]
    THEN [c |-> [e.c EXCEPT !.err = "TypeError"], vs |-> ws]
    ELSE [c |-> e.c, vs |-> ws]
TakeArg(r, e, name, n) == Taken(e, name, Append(r.vs, e.v), n)
EvalArgs(c, name, args) ==
    Steps(LAMBDA r, arg : IF r.c.err # "" THEN r
                          ELSE TakeArg(r, eval_node(r.c, arg), name, Len(args)),
          [c |-> c, vs |-> <<>>], args)

\* print: every value is written as soon as it is there.
Put(e, end) ==
    IF e.c.err # "" THEN Is(e.c, None)
    ELSE Is([e.c EXCEPT !.out = @ \o obj_to_buf(e.v) \o <<end>>], None)
print(c, args) ==
    IF args = <<>> THEN Is([c EXCEPT !.out = Append(@, "\n")], None)
    ELSE Steps(LAMBDA r, i : IF r.c.err # "" THEN r
                             ELSE Put(eval_node(r.c, args[i]), IF i < Len(args) THEN " " ELSE "\n"),
               Is(c, None), [i \in DOMAIN args |-> i])

\* range: the numbers, as many as a list holds.
range(c, vs) ==
    LET lo   == IF Len(vs) = 1 THEN 0 ELSE vs[1].n
        hi   == IF Len(vs) = 1 THEN vs[1].n ELSE vs[2].n
        step == IF Len(vs) = 3 THEN vs[3].n ELSE 1
        size == IF step > 0 /\ lo < hi THEN (hi - lo + step - 1) \div step
                ELSE IF step < 0 /\ lo > hi THEN (lo - hi - step - 1) \div (-step) ELSE 0
        kept == IF size > ListMax THEN ListMax ELSE size IN
    IF step = 0 THEN set_err(c, "ValueError")
    ELSE New(c, "list", [Object EXCEPT !.items = [i \in 1..kept |-> Num(lo + (i - 1) * step)]])

append(c, vs) ==
    IF Len(c.heap[vs[1].n].items) >= ListMax THEN set_err(c, "RuntimeError")
    ELSE Is([c EXCEPT !.heap[vs[1].n].items = Append(@, vs[2])], None)

len(c, v) == Num(IF v.t = "str" THEN Len(v.s) ELSE Len(c.heap[v.n].items))

\* int of a string: a sign and digits, in wrapping arithmetic.
int(c, v) ==
    LET neg    == v.s # <<>> /\ v.s[1] = "-"
        digits == IF neg THEN Tail(v.s) ELSE v.s
        x == FoldLeft(LAMBDA a, d : Wrap(a * 10 + Rank(d) - 1), 0, digits) IN
    IF v.t # "str" THEN Is(c, Num(v.n))
    ELSE IF digits = <<>> \/ ~(ToSet(digits) \subseteq ToSet(Digit)) THEN set_err(c, "ValueError")
    ELSE Is(c, Num(IF neg THEN -x ELSE x))

open(c, vs) ==
    LET mode == IF Len(vs) = 2 THEN vs[2].s ELSE <<"r">>
        plus == Len(mode) > 1 /\ mode[2] = "+"
        main == CASE mode = <<>>    -> {}
                  [] mode # <<>> /\ mode[1] = "r" -> {"read"} \cup IF plus THEN {"write"} ELSE {}
                  [] mode # <<>> /\ mode[1] = "w" ->
                       {"write", "create", "trunc"} \cup IF plus THEN {"read"} ELSE {}
                  [] mode # <<>> /\ mode[1] = "a" ->
                       {"write", "create", "append"} \cup IF plus THEN {"read"} ELSE {}
                  [] OTHER -> {} IN
    IF main = {} THEN set_err(c, "ValueError") ELSE mpfs_open(c, vs[1].s, main)

\* read, write and close through a file object; closing forgets the number.
read(c, vs) ==
    mpfs_read(c, c.heap[vs[1].n].fd,
              IF Len(vs) = 2 /\ vs[2].n \in 0..FileMax THEN vs[2].n ELSE FileMax)
write(c, vs) == mpfs_write(c, c.heap[vs[1].n].fd, vs[2].s)
close(c, v) ==
    LET r == mpfs_close(c, c.heap[v.n].fd) IN
    IF r.c.err # "" THEN r ELSE Is([r.c EXCEPT !.heap[v.n].fd = 0], None)

Builtin(name, d, vs) ==
    LET v == vs[1] IN
    CASE name = "range"   -> range(d, vs)
      [] name = "append"  -> append(d, vs)
      [] name = "len"     -> Is(d, len(d, v))
      [] name = "int"     -> int(d, v)
      [] name = "str"     -> Is(d, Str(obj_to_buf(v)))
      [] name = "type"    -> Is(d, Str(<<v.t>>))
      [] name = "open"    -> open(d, vs)
      [] name = "read"    -> read(d, vs)
      [] name = "write"   -> write(d, vs)
      [] name = "close"   -> close(d, v)
      [] name = "remove"  -> mpfs_unlink(d, v.s)
      [] name = "exists"  -> Is(d, Bool(mpfs_exists(d, v.s)))
      [] name = "listdir" -> Is(d, mpfs_listdir(d))
      [] name = "format"  -> Is([d EXCEPT !.fs = Formatted], None)

WithArgs(name, e) == IF e.c.err # "" THEN Is(e.c, None) ELSE Builtin(name, e.c, e.vs)
call_builtin(c, name, args) ==
    IF name = "print" THEN print(c, args)
    ELSE IF name \notin DOMAIN Wants THEN set_err(c, "NameError")
    ELSE IF Len(args) \notin Arity(name) THEN set_err(c, "TypeError")
    ELSE WithArgs(name, EvalArgs(c, name, args))

\* The parameters are bound one by one: each argument is evaluated with the
\* ones before it bound already.  saved: what the names meant before.
BindOne(r, x, e) ==
    LET set == mp_env_set(e.c, x, e.v) IN
    IF e.c.err # "" \/ set.c.err # ""
    THEN [r EXCEPT !.c = IF e.c.err # "" THEN e.c ELSE set.c]
    ELSE [c |-> set.c, saved |-> Append(r.saved, IF x \in DOMAIN r.c.env THEN <<r.c.env[x]>>
                                                 ELSE <<>>)]
Bind(c, ps, args) ==
    Steps(LAMBDA r, i : IF r.c.err # "" THEN r
                        ELSE BindOne(r, ps[i].s[1], eval_node(r.c, args[i])),
          [c |-> c, saved |-> <<>>], [i \in DOMAIN ps |-> i])

NewOnly(env, ps, saved) ==           \* mutant: old meanings are lost
    [y \in DOMAIN env \ {ps[i].s[1] : i \in {j \in DOMAIN ps : saved[j] = <<>>}} |-> env[y]]

\* After the call each parameter means again what it meant, or nothing.
Restore(env, ps, saved) ==
    FoldLeftDomain(LAMBDA f, i :
        LET x == ps[i].s[1] IN
        IF saved[i] = <<>> THEN [y \in DOMAIN f \ {x} |-> f[y]]
        ELSE [y \in DOMAIN f \cup {x} |-> IF y = x THEN saved[i][1] ELSE f[y]], env, ps)

\* The result of a body that was run: what it returned.
Returned(e) == Is([e.c EXCEPT !.returning = FALSE], IF e.c.returning THEN e.c.retval ELSE e.v)

After(r, ps, saved) == Is([r.c EXCEPT !.env = Restore(@, ps, saved)], r.v)
CallBound(def, b) ==
    IF b.c.err # "" THEN Is(b.c, None)
    ELSE After(Returned(eval_node([b.c EXCEPT !.retval = None], def.body[1])), def.a, b.saved)
call_user(c, def, args) ==
    IF Len(def.a) # Len(args) \/ Len(def.a) > FuncArgs THEN set_err(c, "TypeError")
    ELSE CallBound(def, Bind(c, def.a, args))

\* What a call should be, for comparison: all arguments are evaluated by the
\* caller, then the parameters get their values together.
Valued(r, e) == [c |-> e.c, vs |-> Append(r.vs, e.v)]
Values(c, args) ==
    Steps(LAMBDA r, arg : IF r.c.err # "" THEN r ELSE Valued(r, eval_node(r.c, arg)),
          [c |-> c, vs |-> <<>>], args)
ReferenceBack(r, env, names) ==
    LET kept == (DOMAIN r.c.env \ names) \cup (names \cap DOMAIN env) IN
    Is([r.c EXCEPT !.env = [x \in kept |-> IF x \in names THEN env[x] ELSE r.c.env[x]]], r.v)
ReferenceBody(def, e, names) ==
    LET val(x) == e.vs[CHOOSE i \in DOMAIN def.a : def.a[i].s[1] = x]
        inner  == [x \in DOMAIN e.c.env \cup names |-> IF x \in names THEN val(x) ELSE e.c.env[x]] IN
    IF e.c.err # "" THEN Is(e.c, None)
    ELSE ReferenceBack(Returned(eval_node([e.c EXCEPT !.env = inner, !.retval = None], def.body[1])),
                       e.c.env, names)
ReferenceCall(c, def, args) ==
    IF Len(def.a) # Len(args) THEN set_err(c, "TypeError")
    ELSE ReferenceBody(def, Values(c, args), {def.a[i].s[1] : i \in DOMAIN def.a})

Stop(c) == c.err # "" \/ c.returning

\* The elements of a list are evaluated into a list that is there already.
FillOne(ref, e) ==
    IF e.c.err # "" THEN Is(e.c, None)
    ELSE Is([e.c EXCEPT !.heap[ref.n].items = IF Len(@) < ListMax THEN Append(@, e.v) ELSE @], ref)
Fill(c, ref, es) ==
    Steps(LAMBDA r, x : IF r.c.err # "" THEN r ELSE FillOne(ref, eval_node(r.c, x)), Is(c, ref), es)

\* Loops: "done" when the loop was left before its rounds were over.
Leave(e) == [c |-> e.c, v |-> e.v, done |-> TRUE]
GoOn(c)  == [c |-> c, v |-> None, done |-> FALSE]
Round(b) == IF Stop(b.c) THEN Leave(Is(b.c, b.c.retval)) ELSE GoOn(b.c)
Loop(Op(_, _), c, rounds) ==
    Steps(LAMBDA r, i : IF r.done THEN r ELSE Op(r.c, i), GoOn(c), [i \in 1..rounds |-> i])
Left(r) == Is(r.c, r.v)

WhileRound(n, e) ==
    IF Stop(e.c) THEN Leave(e)
    ELSE IF ~mp_is_truthy(e.c, e.v) THEN Leave(Is(e.c, None))
    ELSE Round(eval_node(e.c, n.body[1]))
While(c, n) == Left(Loop(LAMBDA d, i : WhileRound(n, eval_node(d, n.a[1])), c, WhileMax))

\* A loop over a list looks at its length again in every round.
ForRound(n, set) == IF set.c.err # "" THEN Leave(set) ELSE Round(eval_node(set.c, n.body[1]))
ItemsOf(c, over) == IF over.t = "list" THEN c.heap[over.n].items
                    ELSE [j \in DOMAIN over.s |-> Str(<<over.s[j]>>)]
For(c, n, over) ==
    Left(Loop(LAMBDA d, i :
                  IF i > Len(ItemsOf(d, over)) THEN Leave(Is(d, None))
                  ELSE ForRound(n, mp_env_set(d, n.s[1], ItemsOf(d, over)[i])),
              c, IF over.t = "list" THEN ListMax ELSE Len(over.s)))

Block(c, stmts) ==
    LET last(e) == IF Stop(e.c) THEN Leave(Is(e.c, IF e.c.returning THEN e.c.retval ELSE e.v))
                   ELSE [GoOn(e.c) EXCEPT !.v = e.v] IN
    Left(Loop(LAMBDA d, i : last(eval_node(d, stmts[i])), c, Len(stmts)))

\* The file is opened, read and closed, and its module run in the same names.
ImportRead(c, mod) == IF ~mod.ok THEN set_err(c, "SyntaxError") ELSE Is(eval_node(c, mod.n).c, None)
Import(c, n) ==
    LET i    == find_inode(c, n.s \o <<".py">>)
        data == c.fs.files[First(i)].data IN
    IF i = {} \/ \A f \in 1..MaxFd : c.fs.fds[f].used THEN set_err(c, "ImportError")
    ELSE IF data \notin DOMAIN Sources THEN set_err(c, "invalid character")
    ELSE ImportRead(c, Read(Sources[data].lines, Sources[data].nl))

\* Operators whose operands are evaluated from left to right.
Both(c, n, Op(_, _, _, _)) ==
    LET a == eval_node(c, n.a[1])
        b == eval_node(a.c, n.b[1]) IN
    IF Stop(a.c) THEN Is(a.c, None)
    ELSE IF Stop(b.c) THEN Is(b.c, None) ELSE Op(b.c, n.op, a.v, b.v)
\* and, or: the right side only if the left one does not decide.
Shortcut(c, n) ==
    LET a == eval_node(c, n.a[1]) IN
    IF Stop(a.c) \/ mp_is_truthy(a.c, a.v) = (n.op = "or") THEN a ELSE eval_node(a.c, n.b[1])

Subscript(c, op, base, i) == IF ~IsInt(i) THEN set_err(c, "TypeError") ELSE Element(c, base, i.n)

eval_node(c, n) ==
    LET a == eval_node(c, n.a[1])
        b == eval_node(c, n.b[1]) IN
    IF Stop(c) THEN Is(c, c.retval)
    ELSE CASE
      n.k \in {"NONE", "PASS"} -> Is(c, None)
      [] n.k = "INT"   -> Is(c, Num(n.n))
      [] n.k = "BOOL"  -> Is(c, Bool(n.n = 1))
      [] n.k = "STR"   -> Is(c, Str(n.s))
      [] n.k = "NAME"  -> IF n.s[1] \in DOMAIN c.env THEN Is(c, c.env[n.s[1]])
                          ELSE set_err(c, "NameError")
      [] n.k = "LIST"  -> LET l == New(c, "list", Object) IN Fill(l.c, l.v, n.a)
      [] n.k = "INDEX" -> Both(c, n, Subscript)
      [] n.k = "UNARY" -> IF a.c.err # "" THEN Is(a.c, None)
                          ELSE IF n.op = "not" THEN Is(a.c, Bool(~mp_is_truthy(a.c, a.v)))
                          ELSE IF ~IsInt(a.v) THEN set_err(a.c, "TypeError")
                          ELSE Is(a.c, Num(IF n.op = "-" THEN -a.v.n ELSE a.v.n))
      [] n.k = "BINOP"   -> IF n.op \in {"and", "or"} THEN Shortcut(c, n)
                            ELSE Both(c, n, Arithmetic)
      [] n.k = "COMPARE" -> Both(c, n, eval_compare)
      [] n.k = "CALL"  -> LET f == n.a[1].s[1] IN
                          IF f \in DOMAIN c.env /\ c.env[f].t = "func"
                          THEN LET def == c.heap[c.env[f].n].node[1] IN
                               IF c.ref THEN ReferenceCall(c, def, n.b)
                               ELSE call_user(c, def, n.b)
                          ELSE call_builtin(c, f, n.b)
      [] n.k = "FUNC"  -> LET f == New(c, "func", [Object EXCEPT !.node = <<n>>]) IN
                          mp_env_set(f.c, n.s[1], f.v)
      [] n.k = "RETURN" -> LET r == IF n.a = <<>> THEN Is(c, None) ELSE a IN
                           IF r.c.err # "" THEN Is(r.c, None)
                           ELSE Is([r.c EXCEPT !.retval = r.v, !.returning = TRUE], r.v)
      [] n.k = "ASSIGN" -> IF b.c.err # "" THEN Is(b.c, None)
                           ELSE mp_env_set(b.c, n.a[1].s[1], b.v)
      [] n.k = "EXPR"   -> IF Stop(a.c) \/ n.a[1].k # "CALL" THEN a ELSE Is(a.c, None)
      [] n.k = "IF"     -> IF Stop(a.c) THEN a
                           ELSE IF mp_is_truthy(a.c, a.v) THEN eval_node(a.c, n.body[1])
                           ELSE IF n.orelse # <<>> THEN eval_node(a.c, n.orelse[1])
                           ELSE Is(a.c, None)
      [] n.k = "WHILE"  -> While(c, n)
      [] n.k = "FOR"    -> IF Stop(a.c) THEN a
                           ELSE IF a.v.t \notin {"list", "str"} THEN set_err(a.c, "TypeError")
                           ELSE For(a.c, n, a.v)
      [] n.k = "IMPORT" -> Import(c, n)
      [] n.k \in {"BLOCK", "MODULE"} -> Block(c, n.body)

\* mp_eval_init and mpfs_format.
Fresh(ref) == [env |-> <<>>, heap |-> <<>>, fs |-> Formatted, out |-> <<>>, err |-> "",
               returning |-> FALSE, retval |-> None, ref |-> ref]

\* mp_runtime_exec: read all of the source, then run it.
Exec(c, mod) ==
    IF ~mod.ok THEN set_err(c, "SyntaxError")
    ELSE eval_node([c EXCEPT !.err = "", !.returning = FALSE], mod.n)
mp_runtime_exec(c, lines, nl) == Exec(c, Read(lines, nl))
=============================================================================
