----------------------------- MODULE DirListing -----------------------------
(***************************************************************************)
(* What the streams of a directory promise, without offsets: each stream   *)
(* divides the names of the directory into those it has passed and those   *)
(* still pending.  Reading takes a pending name away and ends only when    *)
(* none is left, so a name that stays in the directory while the stream    *)
(* reads to the end is returned exactly once.  A name created meanwhile    *)
(* may come or not; a name removed while it was pending may come once.     *)
(***************************************************************************)
CONSTANTS Names, Dots, Streams

VARIABLES names,   \* the names in the directory
          open,    \* the open streams
          pending, \* of each stream, the names it has still to return
          removed, \* of each stream, the names removed while they were pending
          got      \* the answer of the last call, if it was a read

listing == <<names, open, pending, removed, got>>

Nothing == <<>>
NoName == "end"

Init ==
    /\ names = Dots
    /\ open = {}
    /\ pending = [s \in Streams |-> {}]
    /\ removed = [s \in Streams |-> {}]
    /\ got = Nothing

Place(s, left, gone) ==
    /\ pending' = [pending EXCEPT ![s] = left]
    /\ removed' = [removed EXCEPT ![s] = gone]

\* A stream begins, or begins again, with all names pending.
Open(s) ==
    /\ s \notin open
    /\ open' = open \cup {s}
    /\ Place(s, names, {})
    /\ got' = Nothing
    /\ UNCHANGED names

Rewind(s) ==
    /\ s \in open
    /\ Place(s, names, {})
    /\ got' = Nothing
    /\ UNCHANGED <<names, open>>

Close(s) ==
    /\ s \in open
    /\ open' = open \ {s}
    /\ Place(s, {}, {})
    /\ got' = Nothing
    /\ UNCHANGED names

Read(s) ==
    /\ s \in open
    /\ \E n \in pending[s] :
          /\ Place(s, pending[s] \ {n}, removed[s])
          /\ got' = <<s, n>>
    /\ UNCHANGED <<names, open>>

ReadRemoved(s) ==
    /\ s \in open
    /\ \E n \in removed[s] :
          /\ Place(s, pending[s], removed[s] \ {n})
          /\ got' = <<s, n>>
    /\ UNCHANGED <<names, open>>

End(s) ==
    /\ s \in open
    /\ pending[s] = {}
    /\ got' = <<s, NoName>>
    /\ UNCHANGED <<names, open, pending, removed>>

\* A stream put to another place has passed some of the names.
Seek(s) ==
    /\ s \in open
    /\ \E left \in SUBSET names, gone \in {{}, removed[s]} : Place(s, left, gone)
    /\ got' = Nothing
    /\ UNCHANGED <<names, open>>

Add(n) ==
    /\ n \notin names
    /\ names' = names \cup {n}
    /\ \E S \in SUBSET open :
          pending' = [s \in Streams |-> IF s \in S THEN pending[s] \cup {n} ELSE pending[s]]
    /\ got' = Nothing
    /\ UNCHANGED <<open, removed>>

Remove(n) ==
    /\ n \in names \ Dots
    /\ names' = names \ {n}
    /\ pending' = [s \in Streams |-> pending[s] \ {n}]
    /\ removed' = [s \in Streams |-> removed[s] \cup ({n} \cap pending[s])]
    /\ got' = Nothing
    /\ UNCHANGED open

Next ==
    \/ \E s \in Streams :
          \/ Open(s) \/ Rewind(s) \/ Close(s)
          \/ Read(s) \/ ReadRemoved(s) \/ End(s) \/ Seek(s)
    \/ \E n \in Names : Add(n) \/ Remove(n)

Spec == Init /\ [][Next]_listing
=============================================================================
