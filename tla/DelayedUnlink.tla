--------------------------- MODULE DelayedUnlink ---------------------------
(***************************************************************************)
(* What the descriptor container promises, without its tables: "refcounting *)
(* and delayed unlinking of file descriptors".  A file that is unlinked    *)
(* while it is open stays until its last descriptor is closed, and then    *)
(* goes; everything else about a name is as in any filesystem.             *)
(***************************************************************************)
EXTENDS Naturals, Functions

CONSTANTS
    Name,  \* names of files
    Fd,    \* descriptor numbers
    Fails  \* whether a call may fail on the device

VARIABLES
    names,   \* the names that exist
    opened,  \* descriptor -> the name it is open on
    doomed   \* open names that go when their last descriptor does

vars == <<names, opened, doomed>>

Holders(n) == {fd \in DOMAIN opened : opened[fd] = n}

Init ==
    /\ names = {}
    /\ opened = << >>
    /\ doomed = {}

\* A descriptor that is not in use is opened on a name, which then exists.
Open(fd, n) ==
    /\ fd \notin DOMAIN opened
    /\ opened' = [g \in DOMAIN opened \cup {fd} |-> IF g = fd THEN n ELSE opened[g]]
    /\ names' = names \cup {n}
    /\ doomed' = doomed

\* A failed open may leave the new file it made.
OpenFails(n) ==
    /\ Fails
    /\ names' = names \cup {n}
    /\ UNCHANGED <<opened, doomed>>

\* What removing the names of R can do: all of it, or some of it when it fails.
Removal(R) == {names \ Q : Q \in (IF Fails THEN SUBSET R ELSE {R})}

\* The last close of a doomed name removes it.
Close(fd) ==
    /\ fd \in DOMAIN opened
    /\ opened' = Restrict(opened, DOMAIN opened \ {fd})
    /\ LET going == {n \in doomed : Holders(n) = {fd}}
       IN  names' \in Removal(going) /\ doomed' = doomed \ going

\* An open name is doomed, any other goes at once.
Unlink(n) ==
    /\ n \in names
    /\ IF Holders(n) # {} THEN doomed' = doomed \cup {n} /\ names' = names
                          ELSE names' = names \ {n} /\ doomed' = doomed
    /\ opened' = opened

\* A name that is not open is given up for another (rename), or stays beside it
\* when that fails half-way; or a name is added (link).
Rename(n, m) ==
    /\ n \in names /\ m \notin names /\ Holders(n) = {}
    /\ \E given \in (IF Fails THEN SUBSET {n} ELSE {{n}}) :
           names' = (names \ given) \cup {m}
    /\ UNCHANGED <<opened, doomed>>

Link(n, m) ==
    /\ n \in names /\ m \notin names
    /\ names' = names \cup {m}
    /\ UNCHANGED <<opened, doomed>>

\* The virtual filesystem goes down: every descriptor is closed.
CloseAll ==
    /\ opened' = << >>
    /\ names' \in Removal(doomed)
    /\ doomed' = {}

Next ==
    \/ \E fd \in Fd, n \in Name : Open(fd, n)
    \/ \E n \in Name : OpenFails(n)
    \/ \E fd \in Fd : Close(fd)
    \/ \E n \in Name : Unlink(n)
    \/ \E n, m \in Name : Rename(n, m) \/ Link(n, m)
    \/ CloseAll

Spec == Init /\ [][Next]_vars

=============================================================================
