------------------------------ MODULE TestExpr ------------------------------
(***************************************************************************)
(* cmd/test.c: the value of an expression, by recursive descent over the  *)
(* arguments with a cursor ap.  Each function of the code gives [val, ap] *)
(* or Bad, for synbad(): the program ends.  -a and -o do not evaluate,    *)
(* and so do not consume, a right side that does not matter.              *)
(* TLC only: the functions are mutually recursive.                        *)
(***************************************************************************)
EXTENDS Integers, Sequences

CONSTANTS
    TestPrims,  \* primaries: their arguments, and their value
    MaxAnds, MaxOrs,    \* bounds: operators of an expression
    Truth       \* [<<op, arg>> -> BOOLEAN]: what files are, for -d, -f and the like

VARIABLES texpr, tresult    \* the expression; the exit status, "" before
tvars == <<texpr, tresult>>

Bad == [val |-> FALSE, ap |-> 0]
Res(val, ap) == [val |-> val, ap |-> ap]
Arg(a, ap) == IF ap <= Len(a) THEN a[ap] ELSE "end"     \* nxtarg()
Unary == {p[1] : p \in DOMAIN Truth}

\* hasmode(), isreg(), tio(), fsizep(), isatty(): facts about a file.
FileTest(op, arg) == <<op, arg>> \in DOMAIN Truth /\ Truth[<<op, arg>>]

RECURSIVE e(_, _), e1(_, _), e2(_, _), e3(_, _)

\* e(): e1 [-o e]
e(a, ap) ==
    LET p1 == e1(a, ap) IN
    IF p1 = Bad \/ Arg(a, p1.ap) # "-o" THEN p1
    ELSE IF p1.val THEN Res(TRUE, p1.ap + 1) ELSE e(a, p1.ap + 1)

\* e1(): e2 [-a e1]
e1(a, ap) ==
    LET p1 == e2(a, ap) IN
    IF p1 = Bad \/ Arg(a, p1.ap) # "-a" THEN p1
    ELSE IF ~p1.val THEN Res(FALSE, p1.ap + 1) ELSE e1(a, p1.ap + 1)

\* e2(): [!] e3
NotTheRest(a, ap) ==
    IF Arg(a, ap) = "!" THEN LET r == e1(a, ap + 1) IN IF r = Bad THEN Bad ELSE Res(~r.val, r.ap)
    ELSE e3(a, ap)
e2(a, ap) ==
    IF Arg(a, ap) = "!" THEN LET r == e2(a, ap + 1) IN IF r = Bad THEN Bad ELSE Res(~r.val, r.ap)
    ELSE e3(a, ap)

\* e3(): a primary.  A word alone is true unless it is empty.
Comparisons == {"=", "!="}
e3(a, ap) ==
    LET w == Arg(a, ap)
        op == Arg(a, ap + 1)
        arg == Arg(a, ap + 2)
    IN CASE w = "end" -> Bad
         [] w = "(" -> LET p1 == e(a, ap + 1)
                       IN IF p1 = Bad \/ Arg(a, p1.ap) # ")" THEN Bad ELSE Res(p1.val, p1.ap + 1)
         [] w \in Unary \cup {"-n", "-z"} /\ op = "end" -> Bad
         [] w \in Unary /\ op # "end" -> Res(FileTest(w, op), ap + 2)
         [] w = "-n" /\ op # "end" -> Res(op # "", ap + 2)
         [] w = "-z" /\ op # "end" -> Res(op = "", ap + 2)
         [] OTHER ->
              CASE op = "end" -> Res(w # "", ap + 2)
                [] op \in Comparisons /\ arg # "end" -> Res((op = "=") <=> (w = arg), ap + 3)
                [] OTHER -> Bad

\* main(): arguments that are left over are not looked at.
Result(a) == LET r == e(a, 1) IN IF r = Bad THEN "bad syntax" ELSE IF r.val THEN "true" ELSE "false"

-----------------------------------------------------------------------------
(* The reference: the value of an expression is that of its parts, both   *)
(* sides of -a and -o included.                                           *)

Terms == TestPrims
         \cup {[args |-> <<"!">> \o p.args, val |-> ~p.val] : p \in TestPrims}
         \cup {[args |-> <<"(">> \o p.args \o <<")">>, val |-> p.val] : p \in TestPrims}
RECURSIVE Ands(_), Ors(_)
Ands(n) == IF n = 0 THEN Terms
           ELSE Terms \cup {[args |-> t.args \o <<"-a">> \o u.args, val |-> t.val /\ u.val] :
                               t \in Terms, u \in Ands(n - 1)}
Ors(n) == IF n = 0 THEN Ands(MaxAnds)
          ELSE Ors(0) \cup {[args |-> t.args \o <<"-o">> \o u.args, val |-> t.val \/ u.val] :
                                t \in Ands(MaxAnds), u \in Ors(n - 1)}

Exprs == Ors(MaxOrs)

TestInit == texpr \in Exprs /\ tresult = ""
TestNext == tresult = "" /\ tresult' = Result(texpr.args) /\ UNCHANGED texpr
TestSpec == TestInit /\ [][TestNext]_tvars

-----------------------------------------------------------------------------
\* a -a with a -o to the right of it.
AndBeforeOr(a) == \E i, j \in DOMAIN a : i < j /\ a[i] = "-a" /\ a[j] = "-o" /\ a[i - 1] # "="

\* An expression of -a, -o and !, none of them in parentheses with -a or -o
\* inside, has the value of the full expression although the right sides that
\* do not matter are never consumed: the rest that is left over is never taken
\* for something else.  It is when -a stands before -o: AndBeforeOr.
ValueOfExpression ==
    (tresult # "" /\ ~AndBeforeOr(texpr.args)) => tresult = IF texpr.val THEN "true" ELSE "false"
=============================================================================
