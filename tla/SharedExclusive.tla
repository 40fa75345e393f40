--------------------------- MODULE SharedExclusive ---------------------------
(***************************************************************************)
(* What the spin lock promises: any number of readers or one writer.       *)
(***************************************************************************)
CONSTANT Threads

VARIABLES readers, writers

seVars == <<readers, writers>>

Init == readers = {} /\ writers = {}

EnterShared(t) ==
  /\ writers = {} /\ t \notin readers
  /\ readers' = readers \cup {t}
  /\ UNCHANGED writers

EnterExclusive(t) ==
  /\ readers = {} /\ writers = {}
  /\ writers' = {t}
  /\ UNCHANGED readers

LeaveShared(t) ==
  /\ t \in readers /\ readers' = readers \ {t}
  /\ UNCHANGED writers

LeaveExclusive(t) ==
  /\ t \in writers /\ writers' = writers \ {t}
  /\ UNCHANGED readers

Next ==
  \E t \in Threads : \/ EnterShared(t) \/ EnterExclusive(t)
                     \/ LeaveShared(t) \/ LeaveExclusive(t)

Spec == Init /\ [][Next]_seVars
=============================================================================
