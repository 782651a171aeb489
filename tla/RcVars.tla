------------------------------- MODULE RcVars -------------------------------
(***************************************************************************)
(* rc's variables: cmd/rc/var.c, with $path and $PATH following each      *)
(* other; mkenv(), Vinit() and enval() of plan9ish.c, which hand them to  *)
(* another rc through the environment; and how Xbackq() of haventfork.c   *)
(* makes words of a command's output.  Words are sequences of characters. *)
(***************************************************************************)
EXTENDS Integers, Sequences, SequencesExt, FiniteSets

CONSTANTS
    VarNames,   \* names of variables, "path" and "PATH" among them
    RcWords,    \* words
    RcTexts,    \* output of commands
    MaxWords,   \* bound: words of a value
    MaxWd       \* room for characters in Xbackq's wd

VARIABLES
    gvar,       \* [VarNames -> lists of words]: globals
    local,      \* locals of the running thread, the newest first: [name, val]
    childvars,  \* the globals of an rc just started, and what vlook() gave its parent
    subst       \* the last `{...}: [text, words]

rvvars == <<gvar, local, childvars, subst>>

SEP == "^A"         \* separates the words of a value in the environment
pathsep == ";"
NoSubst == [text |-> << >>, words |-> << >>]

\* The pieces of s between separators: one more than there are separators.
Pieces(s, seps) ==
    LET cuts == SetToSortSeq({i \in DOMAIN s : s[i] \in seps}, <)
        from(k) == IF k = 1 THEN 1 ELSE cuts[k - 1] + 1
        to(k) == IF k > Len(cuts) THEN Len(s) ELSE cuts[k] - 1
    IN [k \in 1..(Len(cuts) + 1) |-> SubSeq(s, from(k), to(k))]

Joined(words, sep) ==
    FlattenSeq([i \in DOMAIN words |-> IF i = 1 THEN words[i] ELSE <<sep>> \o words[i]])

-----------------------------------------------------------------------------
(* Variables.                                                             *)

\* vlook(): the newest local of that name, or the global.
vlook(name) ==
    LET hits == {i \in DOMAIN local : local[i].name = name}
    IN IF hits = {} THEN gvar[name] ELSE local[CHOOSE i \in hits : \A j \in hits : i <= j].val

\* bigpath(): $path from $PATH.  An empty directory is the current one.
bigpath(val) ==
    IF val = << >> \/ val[1] = << >> THEN << >>
    ELSE [k \in DOMAIN Pieces(val[1], {pathsep}) |->
             LET d == Pieces(val[1], {pathsep})[k] IN IF d = << >> THEN <<".">> ELSE d]

\* list2strcolon() and littlepath(): $PATH from $path, and $path again from that.
littlepath(g) ==
    LET PATH == <<Joined(g["path"], pathsep)>>
    IN [g EXCEPT !["PATH"] = PATH, !["path"] = bigpath(PATH)]

\* setvar() of a name that is no local: changefn, which pathinit() has set.
Changed(g, name) ==
    CASE name = "path" -> littlepath(g)
      [] name = "PATH" -> [g EXCEPT !["path"] = bigpath(g["PATH"])]
      [] OTHER -> g
setvar(name, val) ==
    LET hits == {i \in DOMAIN local : local[i].name = name}
    IN /\ \/ hits = {} /\ gvar' = Changed([gvar EXCEPT ![name] = val], name) /\ UNCHANGED local
          \/ /\ hits # {} /\ UNCHANGED gvar
             /\ local' = [local EXCEPT ![CHOOSE i \in hits : \A j \in hits : i <= j].val = val]
       /\ childvars' = << >> /\ subst' = NoSubst

\* External (exec.c): a value for the time of one command, and its end.
Xlocal(name, val) ==
    /\ Len(local) < 1 /\ local' = <<[name |-> name, val |-> val]>> \o local
    /\ childvars' = << >> /\ subst' = NoSubst /\ UNCHANGED gvar
Xunlocal ==
    /\ local # << >> /\ local' = Tail(local)
    /\ childvars' = << >> /\ subst' = NoSubst /\ UNCHANGED gvar

-----------------------------------------------------------------------------
(* The environment.                                                       *)

\* mkenv(): the visible variables that have a value.
mkenv == {[name |-> n, text |-> Joined(vlook(n), SEP)] : n \in {m \in VarNames : vlook(m) # << >>}}

\* enval(): the words of a value.
OneWord(text) == <<text>>
enval(text) == Pieces(text, {SEP})

\* Vinit(), then pathinit(): bigpath() of what was inherited.
Vinit(env) ==
    LET got == [n \in VarNames |-> IF \E e \in env : e.name = n
                                   THEN enval((CHOOSE e \in env : e.name = n).text) ELSE << >>]
    IN [got EXCEPT !["path"] = bigpath(got["PATH"])]

StartRc == /\ childvars' = <<Vinit(mkenv), [n \in VarNames |-> vlook(n)]>>
           /\ subst' = NoSubst /\ UNCHANGED <<gvar, local>>

-----------------------------------------------------------------------------
(* The words of `{...}: the characters of $ifs end a word, and so does a  *)
(* character for which there is no room, which is lost.                   *)

NoRoom(st) == Len(st.wd) = MaxWd
OneMore(st, c, ifs) ==
    IF c \in ifs \/ NoRoom(st)
    THEN [wd |-> << >>, v |-> IF st.wd = << >> THEN st.v ELSE <<st.wd>> \o st.v]
    ELSE [st EXCEPT !.wd = Append(st.wd, c)]
Reversed(v) == Reverse(v)
BackqWords(text, ifs) ==
    LET st == FoldLeft(LAMBDA s, c : OneMore(s, c, ifs), [wd |-> << >>, v |-> << >>], text)
    IN Reversed(IF st.wd = << >> THEN st.v ELSE <<st.wd>> \o st.v)
Substitute(text) ==     \* enumerated once: the variables have no part in it
    /\ \A n \in VarNames : vlook(n) = << >>
    /\ subst' = [text |-> text, words |-> BackqWords(text, {" "})]
    /\ childvars' = << >> /\ UNCHANGED <<gvar, local>>

-----------------------------------------------------------------------------
Values == UNION {[1..n -> RcWords] : n \in 0..MaxWords}

RcVarsInit ==
    /\ gvar = Changed([n \in VarNames |-> << >>], "PATH") /\ local = << >>
    /\ childvars = << >> /\ subst = NoSubst

RcVarsNext ==
    \/ \E name \in VarNames, val \in Values : setvar(name, val) \/ Xlocal(name, val)
    \/ Xunlocal \/ StartRc \/ \E text \in RcTexts : Substitute(text)

RcVarsSpec == RcVarsInit /\ [][RcVarsNext]_rvvars

-----------------------------------------------------------------------------
(* Properties.                                                            *)

\* Whichever of $path and $PATH is set, $path is what an rc makes of $PATH.
PathsAgree == gvar["path"] = bigpath(gvar["PATH"])

\* An rc that is started finds the variables its parent saw, lists of words
\* word by word and those of locals instead of the globals behind them; only
\* a local $path, of which $PATH does not know, is lost.
EnvSurvives ==
    childvars # << >> =>
        \A n \in VarNames : (n = "path" /\ \E i \in DOMAIN local : local[i].name \in {"path", "PATH"})
                            \/ childvars[1][n] = childvars[2][n]

\* The words of `{...} are the pieces of the output between separators, in
\* their order, empty ones left out, as long as each fits in wd.
WordsOfOutput ==
    LET pieces == SelectSeq(Pieces(subst.text, {" "}), LAMBDA w : w # << >>)
    IN (\A i \in DOMAIN pieces : Len(pieces[i]) <= MaxWd) => subst.words = pieces

\* rc's words survive their conversions: $path and $PATH, the environment, the
\* output of a command.
VarsOK == PathsAgree /\ EnvSurvives /\ WordsOfOutput
=============================================================================
