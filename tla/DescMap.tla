------------------------------ MODULE DescMap ------------------------------
(***************************************************************************)
(* What a process may expect of its descriptor table, whatever the table  *)
(* is made of: descriptor numbers name open files, a new number is always *)
(* the lowest one that is free, several numbers may name the same file,   *)
(* and a file is closed once, after the last number naming it is gone.    *)
(* FdTab (lib9/mingw/fdtab.c) implements it.                              *)
(***************************************************************************)
EXTENDS Integers

CONSTANTS
    Slots,      \* descriptor numbers
    Files,      \* open files
    Nil         \* the content of a free slot

VARIABLES
    tab,        \* which file a descriptor number names
    open        \* the files that are open

dvars == <<tab, open>>

Lowest(i) == /\ i \in Slots
             /\ tab[i] = Nil
             /\ \A j \in Slots : j < i => tab[j] # Nil

Named(f) == \E i \in Slots : tab[i] = f

DInit == /\ tab \in [Slots -> Files \cup {Nil}]
         /\ open = {f \in Files : Named(f)}

\* A new file under the lowest free number.
DOpen(f, i) == /\ f \in Files \ open
               /\ Lowest(i)
               /\ tab' = [tab EXCEPT ![i] = f]
               /\ open' = open \cup {f}

\* One more number, the lowest free one, for a file that has one.
DDup(f, i) == /\ f \in open
              /\ Named(f)
              /\ Lowest(i)
              /\ tab' = [tab EXCEPT ![i] = f]
              /\ UNCHANGED open

\* Number i names f from now on, whatever it named before.
DDup2(f, i) == /\ f \in open
               /\ Named(f)
               /\ i \in Slots
               /\ tab' = [tab EXCEPT ![i] = f]
               /\ UNCHANGED open

DClose(i) == /\ i \in Slots
             /\ tab[i] # Nil
             /\ tab' = [tab EXCEPT ![i] = Nil]
             /\ UNCHANGED open

\* A file that no number names any more is closed.
DReap(f) == /\ f \in open
            /\ ~Named(f)
            /\ open' = open \ {f}
            /\ UNCHANGED tab

DNext == \/ \E f \in Files, i \in Slots : \/ DOpen(f, i)
                                          \/ DDup(f, i)
                                          \/ DDup2(f, i)
         \/ \E i \in Slots : DClose(i)
         \/ \E f \in Files : DReap(f)

DSpec == DInit /\ [][DNext]_dvars
=============================================================================
