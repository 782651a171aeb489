------------------------------ MODULE Environ ------------------------------
(***************************************************************************)
(* lib9/mingw/getenv.c: the environment as an array of name=value strings *)
(* of which a name is looked up without regard to case.  A name is        *)
(* [id, up]: names with the same id differ in case only.                  *)
(***************************************************************************)
EXTENDS Integers, Sequences, FiniteSets

CONSTANTS
    EnvIds, EnvValues,  \* names but for their case (numbers in the order of
                        \* strcasecmp()), and values
    PathId,             \* the one of PATH
    Inherit0,           \* environments a process may start with: each name once
    Nmore,              \* entries the array grows by
    MaxEnv              \* bound: entries

VARIABLES
    environ,    \* the entries before the nil: [name, val]
    envsz,      \* entries there is room for, besides the nil
    penv        \* history: what was put last for each id, or "none"

evars == <<environ, envsz, penv>>

EnvNames == [id : EnvIds, up : BOOLEAN]

ASSUME EnvAssumption == EnvIds \subseteq Int /\ Nmore \in Nat \ {0}
ASSUME InheritAssumption == \A e \in Inherit0 :
    /\ e \in Seq([name : EnvNames, val : EnvValues])
    /\ \A i, j \in DOMAIN e : e[i].name.id = e[j].name.id => i = j

SameName(e, name) == {i \in DOMAIN e : e[i].name.id = name.id}

\* get(): the first entry of the name.
get(e, name) == LET n == SameName(e, name)
                IN IF n = {} THEN 0 ELSE CHOOSE i \in n : \A j \in n : i <= j
p9getenv(e, name) == IF get(e, name) = 0 THEN "none" ELSE e[get(e, name)].val

\* mingwinitenv(): what Windows passes, with room for Nmore more; the name of
\* the path becomes upper case.
EnvironInit ==
    /\ \E e \in Inherit0 : environ = [i \in DOMAIN e |->
            IF e[i].name.id = PathId THEN [e[i] EXCEPT !.name.up = TRUE] ELSE e[i]]
    /\ envsz = Len(environ) + Nmore
    /\ penv = [id \in EnvIds |-> p9getenv(environ, [id |-> id, up |-> FALSE])]

\* p9putenv(): the value of an entry is replaced and its name kept, or an
\* entry is added, for which the array may have to grow.
NeverGrows(n) == FALSE
EnvFull(n) == n = envsz
p9putenv(name, v) ==
    LET i == get(environ, name) IN
    /\ i # 0 \/ Len(environ) < MaxEnv
    /\ environ' = IF i # 0 THEN [environ EXCEPT ![i].val = v]
                  ELSE Append(environ, [name |-> name, val |-> v])
    /\ envsz' = IF i = 0 /\ EnvFull(Len(environ)) THEN envsz + Nmore ELSE envsz
    /\ penv' = [penv EXCEPT ![name.id] = v]

\* winsortenv(), when an environment is exported to a child; cmpenv() knows
\* no case.
winsortenv ==
    /\ \E p \in [DOMAIN environ -> DOMAIN environ] :
          /\ \A i, j \in DOMAIN environ : i # j => p[i] # p[j]
          /\ \A i, j \in DOMAIN environ : i < j => environ[p[i]].name.id <= environ[p[j]].name.id
          /\ environ' = [i \in DOMAIN environ |-> environ[p[i]]]
    /\ UNCHANGED <<envsz, penv>>

EnvironNext == (\E name \in EnvNames, v \in EnvValues : p9putenv(name, v)) \/ winsortenv

EnvironSpec == EnvironInit /\ [][EnvironNext]_evars

\* In whatever case a name is put and got, and although exporting moves the
\* entries, a name has one value: the one put last.
LastPutCounts == \A name \in EnvNames :
                    /\ p9getenv(environ, name) = penv[name.id]
                    /\ Cardinality({i \in DOMAIN environ : environ[i].name.id = name.id}) <= 1

\* The entries and the nil behind them fit into the array.
EnvFits == Len(environ) <= envsz

\* The environment answers with what was put last, within the memory it has.
EnvOK == LastPutCounts /\ EnvFits
=============================================================================
