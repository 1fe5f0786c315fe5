----------------------------- MODULE AtomicOpen -----------------------------
(***************************************************************************)
(* What open_database() promises of a file that others replace: the call   *)
(* takes the file as it is at one instant between its begin and its end,   *)
(* and the reader it returns has that version until it is dropped.         *)
(* FileNotFoundError says that at one such instant there was no file.  A   *)
(* call that is handed an open file object takes what the object gives.    *)
(***************************************************************************)
CONSTANTS Opener,   \* threads that open readers
          Version,  \* contents the file has in the course of time
          None      \* no file, no contents

VARIABLES current,  \* the file's contents
          phase,    \* how far each thread's call has come
          got       \* the contents each call has taken

vars == <<current, phase, got>>

Phase == {"idle", "opening", "handed", "absent", "failed", "open"}

Init == /\ current \in Version \cup {None}
        /\ phase = [t \in Opener |-> "idle"]
        /\ got = [t \in Opener |-> None]

\* Others replace or remove the file.
Publish == /\ current' \in (Version \cup {None}) \ {current}
           /\ UNCHANGED <<phase, got>>

Becomes(t, p) == phase' = [phase EXCEPT ![t] = p]

Begin(t) == /\ phase[t] = "idle"
            /\ \E p \in {"opening", "handed"} : Becomes(t, p)
            /\ UNCHANGED <<current, got>>

\* The instant at which the call takes the file.
Take(t) == /\ phase[t] = "opening" /\ got[t] = None /\ current # None
           /\ got' = [got EXCEPT ![t] = current]
           /\ UNCHANGED <<current, phase>>

\* The call takes the bytes of the object it was handed.
Receive(t) == /\ phase[t] = "handed" /\ got[t] = None
              /\ \E v \in Version : got' = [got EXCEPT ![t] = v]
              /\ UNCHANGED <<current, phase>>

\* The instant at which the call finds no file.
Miss(t) == /\ phase[t] = "opening" /\ got[t] = None /\ current = None
           /\ Becomes(t, "absent")
           /\ UNCHANGED <<current, got>>

Succeed(t) == /\ phase[t] \in {"opening", "handed"} /\ got[t] # None
              /\ Becomes(t, "open")
              /\ UNCHANGED <<current, got>>

Fail(t) == /\ phase[t] \in {"idle", "opening", "handed"}
           /\ Becomes(t, "failed")
           /\ got' = [got EXCEPT ![t] = None]
           /\ UNCHANGED current

\* The exception was handled, or the reader is dropped.
Finish(t) == /\ phase[t] \in {"absent", "failed", "open"}
             /\ Becomes(t, "idle")
             /\ got' = [got EXCEPT ![t] = None]
             /\ UNCHANGED current

Next == \/ Publish
        \/ \E t \in Opener : \/ Begin(t) \/ Take(t) \/ Receive(t) \/ Miss(t)
                             \/ Succeed(t) \/ Fail(t) \/ Finish(t)

Spec == Init /\ [][Next]_vars
=============================================================================
