----------------------------- MODULE FileBytes ------------------------------
(***************************************************************************)
(* What the file calls promise about the contents of one file: a sequence  *)
(* of bytes, and for each descriptor a position in it.  A read returns the *)
(* bytes behind the position, a write replaces them, both move on by what  *)
(* they did.  A descriptor may seek as far as the length it last saw.  A   *)
(* call that fails, or a write that is cut short, harms nothing in front   *)
(* of the position, or of the length it was to cut the file to; its        *)
(* descriptor is only good for closing.                                    *)
(***************************************************************************)
EXTENDS Integers, Sequences

CONSTANTS Fds

VARIABLES bytes,   \* the contents
          pos,     \* of each descriptor, its position
          known,   \* of each descriptor, the length it last saw
          mode,    \* "closed", "r", "w" or "rw"
          spoiled, \* the descriptors a call failed on
          got      \* the last call: descriptor, name, answer, what was asked

file == <<bytes, pos, known, mode, spoiled, got>>

Init ==
    /\ bytes = <<>>
    /\ pos = [f \in Fds |-> 0]
    /\ known = [f \in Fds |-> 0]
    /\ mode = [f \in Fds |-> "closed"]
    /\ spoiled = {}
    /\ got = <<>>

Usable(f) == mode[f] # "closed" /\ f \notin spoiled
Before(p) == SubSeq(bytes, 1, p)
Moved(f, p, k) == pos' = [pos EXCEPT ![f] = p] /\ known' = [known EXCEPT ![f] = k]
Fails(f) == spoiled' = spoiled \cup {f}
Done == <<>>
Error == <<-1>>
Answer(f, call, a) == got' = <<f, call, a>>
Asked == got'[4]
AnswerTo(f, call, a) == got'[2] = call /\ got' = <<f, call, a, Asked>>

\* Asked whether to empty the file.
Open(f) ==
    /\ mode[f] = "closed" /\ AnswerTo(f, "open", Done)
    /\ bytes' = IF Asked THEN <<>> ELSE bytes
    /\ \E p \in {0, Len(bytes')} : Moved(f, p, Len(bytes'))
    /\ \E m \in {"r", "w", "rw"} : mode' = [mode EXCEPT ![f] = m]
    /\ UNCHANGED spoiled

\* A file that was to be emptied may come out shorter, with anything in it.
OpenFails(f) ==
    /\ mode[f] = "closed" /\ AnswerTo(f, "open", Error)
    /\ IF Asked THEN Len(bytes') <= Len(bytes) ELSE bytes' = bytes
    /\ UNCHANGED <<pos, known, mode, spoiled>>

Close(f) ==
    /\ mode[f] # "closed"
    /\ mode' = [mode EXCEPT ![f] = "closed"]
    /\ Moved(f, 0, 0)
    /\ spoiled' = spoiled \ {f}
    /\ Answer(f, "close", Done)
    /\ UNCHANGED bytes

Refused(f) ==
    /\ \/ Usable(f) /\ mode[f] = "r" /\ Answer(f, "write", Error)
       \/ Usable(f) /\ mode[f] = "w" /\ Answer(f, "read", Error)
       \/ Usable(f) /\ Answer(f, "lseek", Error)
    /\ UNCHANGED <<bytes, pos, known, mode, spoiled>>

\* At most as much as was asked for; nothing only at the end.
Read(f) ==
    /\ Usable(f) /\ mode[f] # "w"
    /\ \E q \in pos[f]..Len(bytes) :
          /\ q > pos[f] \/ q = Len(bytes)
          /\ Moved(f, q, Len(bytes))
          /\ Answer(f, "read", SubSeq(bytes, pos[f] + 1, q))
    /\ UNCHANGED <<bytes, mode, spoiled>>

ReadFails(f) ==
    /\ Usable(f) /\ mode[f] # "w"
    /\ \E q \in pos[f]..Len(bytes), k \in {known[f], Len(bytes)} : Moved(f, q, k)
    /\ Answer(f, "read", Error)
    /\ Fails(f)
    /\ UNCHANGED <<bytes, mode>>

\* The answer of a write stands for the bytes it stored.
Write(f) ==
    /\ Usable(f) /\ mode[f] # "r"
    /\ LET data == got'[3]
           end  == pos[f] + Len(data)
       IN  /\ Answer(f, "write", data)
           /\ bytes' = Before(pos[f]) \o data \o SubSeq(bytes, end + 1, Len(bytes))
           /\ Moved(f, end, Len(bytes'))
    /\ UNCHANGED <<mode, spoiled>>

WriteFails(f) ==
    /\ Usable(f) /\ mode[f] # "r"
    /\ Len(bytes') >= Len(bytes)
    /\ SubSeq(bytes', 1, pos[f]) = Before(pos[f])
    /\ Answer(f, "write", got'[3])
    /\ pos'[f] >= pos[f]
    /\ Moved(f, pos'[f], known'[f])
    /\ Fails(f)
    /\ UNCHANGED mode

Seek(f) ==
    /\ Usable(f)
    /\ \E q \in 0..known[f] : Moved(f, q, known[f]) /\ Answer(f, "lseek", <<q>>)
    /\ UNCHANGED <<bytes, mode, spoiled>>

\* Files are only made shorter; growing one succeeds without an effect.
Truncate(f) ==
    /\ Usable(f) /\ AnswerTo(f, "ftruncate", Done)
    /\ LET n == IF Asked < Len(bytes) THEN Asked ELSE Len(bytes)
       IN  bytes' = Before(n) /\ Moved(f, IF n < pos[f] THEN n ELSE pos[f], n)
    /\ UNCHANGED <<mode, spoiled>>

\* The file may come out shorter, but not shorter than it was to be, and what
\* is in front of that length is unharmed.
TruncateFails(f) ==
    /\ Usable(f) /\ AnswerTo(f, "ftruncate", Error)
    /\ Len(bytes') <= Len(bytes)
    /\ LET n == IF Asked < Len(bytes) THEN Asked ELSE Len(bytes)
       IN  n <= Len(bytes') /\ SubSeq(bytes', 1, n) = Before(n)
    /\ \E k \in {known[f], Len(bytes)} : Moved(f, pos[f], k)
    /\ Fails(f)
    /\ UNCHANGED mode

Next == \E f \in Fds :
    \/ Open(f) \/ OpenFails(f) \/ Close(f) \/ Refused(f)
    \/ Read(f) \/ ReadFails(f) \/ Write(f) \/ WriteFails(f)
    \/ Seek(f) \/ Truncate(f) \/ TruncateFails(f)

Spec == Init /\ [][Next]_file
=============================================================================
