------------------------------- MODULE MCLib -------------------------------
(***************************************************************************)
(* Instances for TLC of the libraries' components and of programs that    *)
(* are one computation.  They share no state: a behaviour is one of one   *)
(* component, the one that "which" names, and the others stay as they     *)
(* begin.                                                                 *)
(***************************************************************************)
EXTENDS CmdLine, Environ, Console, Stdio, HttpLines, RcVars, TestExpr, DirRead, AtExit, Notes

CONSTANTS u1, u2, h1, h2, h3

VARIABLE which

\* CmdLine: programs in the directories of the path and elsewhere, scripts
\* with an interpreter that can be found and one that cannot.
Prog(dir, name, interp) == [dir |-> dir, name |-> name, interp |-> interp]
MCFiles == {Prog("", "sh", ""), Prog("d1", "a", ""), Prog("d2", "a", ""), Prog("d2", "s", "sh"),
            Prog("d1", "t", "nosh"), Prog("", "b", "")}
MCArgChars == {"a", " ", "\"", "\\"}
MCPath == <<"d1", "d2">>
\* Environ
EnvEntry(id, up, val) == [name |-> [id |-> id, up |-> up], val |-> val]
MCInherit0 == {<< >>, <<EnvEntry(2, FALSE, "v"), EnvEntry(1, TRUE, "w")>>}
\* Console: characters of one to three bytes, a byte that is none, and one cut off.
RuneBytes(rune, n) == [j \in 1..n |-> [rune |-> rune, k |-> j, n |-> n]]
ConsPieces == {<< >>, RuneBytes("a", 1), RuneBytes("e", 2), RuneBytes("u", 3), RuneBytes("bad", 1),
               SubSeq(RuneBytes("u", 3), 1, 2)}
MCConsTexts == {p1 \o p2 \o p3 : p1, p2, p3 \in ConsPieces}
MCConsKeys == {<<keys, <<"b", "\r", "\n">>>> :
    keys \in {<<"a", "\r", "\n">>, <<"e", "u">>, <<"a", "\r">>, <<"\n", "^Z">>,
              <<"a", "e", "\r">>, <<"\r", "\n", "\r", "\n">>}}
FirstKeys == CHOOSE keys \in MCConsKeys : TRUE
MCConsWidths == [c \in {"a", "b", "e", "u", "\n"} |-> CASE c = "e" -> 2 [] c = "u" -> 3 [] OTHER -> 1]
MCChars == {"a", "\n"}
\* HttpLines: headers, some of them continued, and bodies that look like headers.
HdrLines == {<<"h", ":">>, <<"h", ":", "x", " ">>}
AnyLines == HdrLines \cup {<<" ", "y">>}
MCHttpInputs ==
    {[lines |-> ls \o <<<< >>>>, body |-> rest] :
        ls \in {<< >>} \cup {<<l1>> : l1 \in HdrLines} \cup {<<l1, l2>> : l1 \in HdrLines, l2 \in AnyLines}
               \cup {<<l1, l2, l3>> : l1 \in HdrLines, l2, l3 \in AnyLines},
        rest \in {<< >>, <<"z">>, <<"\n", " ", ":">>}}
\* RcVars
MCRcWords == {<< >>, <<"a">>, <<"b", ";", "a">>}
MCRcTexts == UNION {[1..n -> {"a", " "}] : n \in 0..4}
\* TestExpr: also primaries whose operands look like operators.
MCTruth == <<"-d", "f">> :> FALSE @@ <<"-f", "f">> :> TRUE
MCTestPrims == {[args |-> <<"-d", "f">>, val |-> FALSE], [args |-> <<"-f", "f">>, val |-> TRUE],
                [args |-> <<"f", "=", "-a">>, val |-> FALSE], [args |-> <<"-n", "!">>, val |-> TRUE]}
FirstExpr == CHOOSE x \in Exprs : TRUE
\* DirRead: names with the characters that winreplacews() deals with.
MCFileNames == {<<"a", "space">>, <<"wschar", "wsesc">>, <<"fffd">>}
MCHandlers == u1 :> {h1, h2} @@ u2 :> {h3}
MCSigs == <<"int", "term">>

\* Only the component that runs begins in each of its initial states.
LibInit ==
    /\ which \in {"cmdline", "environ", "console", "stdio", "http", "rcvars", "test", "dirread",
                  "atexit", "notes"}
    /\ which # "environ" => environ = << >>
    /\ which # "console" => ctext = << >> /\ ctyped = FirstKeys
    /\ which # "http" => httpin = [lines |-> <<<< >>>>, body |-> << >>]
    /\ which # "test" => texpr = FirstExpr
    /\ which # "dirread" => wsset = FALSE /\ all = FALSE
    /\ which # "atexit" => onexf = [j \in OnexSlots |-> Zero]
    /\ which # "notes" => handler = [sig \in Signals |-> "dfl"]
    /\ CmdLineInit /\ EnvironInit /\ ConsoleInit /\ StdioInit /\ HttpLinesInit /\ RcVarsInit
    /\ TestInit /\ DirReadInit /\ AtExitInit /\ NotesInit

LibNext ==
    /\ UNCHANGED which
    /\ \/ which = "cmdline" /\ CmdLineNext
          /\ UNCHANGED <<evars, cvars, svars, lvars, rvvars, tvars, ddvars, xvars, nvars>>
       \/ which = "environ" /\ EnvironNext
          /\ UNCHANGED <<clvars, cvars, svars, lvars, rvvars, tvars, ddvars, xvars, nvars>>
       \/ which = "console" /\ ConsoleNext
          /\ UNCHANGED <<clvars, evars, svars, lvars, rvvars, tvars, ddvars, xvars, nvars>>
       \/ which = "stdio" /\ StdioNext
          /\ UNCHANGED <<clvars, evars, cvars, lvars, rvvars, tvars, ddvars, xvars, nvars>>
       \/ which = "http" /\ HttpLinesNext
          /\ UNCHANGED <<clvars, evars, cvars, svars, rvvars, tvars, ddvars, xvars, nvars>>
       \/ which = "rcvars" /\ RcVarsNext
          /\ UNCHANGED <<clvars, evars, cvars, svars, lvars, tvars, ddvars, xvars, nvars>>
       \/ which = "test" /\ TestNext
          /\ UNCHANGED <<clvars, evars, cvars, svars, lvars, rvvars, ddvars, xvars, nvars>>
       \/ which = "dirread" /\ DirReadNext
          /\ UNCHANGED <<clvars, evars, cvars, svars, lvars, rvvars, tvars, xvars, nvars>>
       \/ which = "atexit" /\ AtExitNext
          /\ UNCHANGED <<clvars, evars, cvars, svars, lvars, rvvars, tvars, ddvars, nvars>>
       \/ which = "notes" /\ NotesNext
          /\ UNCHANGED <<clvars, evars, cvars, svars, lvars, rvvars, tvars, ddvars, xvars>>

LibSpec ==
    LibInit /\ [][LibNext]_<<which, clvars, evars, cvars, svars, lvars, rvvars, tvars, ddvars, xvars, nvars>>
=============================================================================
