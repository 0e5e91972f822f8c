-------------------------------- MODULE Agenda --------------------------------
(***************************************************************************)
(* What the clock promises those who put work on it (the comments of       *)
(* src/state/clock.ts): time moves forward, a work runs once and never     *)
(* before it is due, and a manual clock passes none by and runs them in    *)
(* the order of their instants, those of one instant as they were put      *)
(* there.  A reset drops what is pending, and one that a failed seed       *)
(* undoes puts back what was pending when the seed began.                  *)
(***************************************************************************)
EXTENDS Integers

CONSTANT Works

VARIABLES
  manual,  \* time moves only when it is advanced
  now,
  agenda,  \* what is pending: a work, its instant and its number
  ran,     \* works that ran since they were put there
  kept,    \* agendas that may be put back
  era      \* how often all was dropped

vars == <<manual, now, agenda, ran, kept, era>>

Before(e, f) == e.due < f.due \/ (e.due = f.due /\ e.seq <= f.seq)
Forward == now <= now'

\* By hand, time stops at what is due next.
PassesNone == manual => \A e \in agenda : now' <= e.due

Put(e) ==
  /\ e.work \in Works \ ran
  /\ now <= e.due
  /\ \A f \in agenda : f.work # e.work /\ f.seq < e.seq
  /\ agenda' = agenda \union {e}
  /\ UNCHANGED <<now, ran, era>>

Run(e) ==
  /\ Forward /\ PassesNone
  /\ e.due <= now'
  /\ manual => \A f \in agenda : Before(e, f)
  /\ e.work \notin ran
  /\ agenda' = agenda \ {e} /\ ran' = ran \union {e.work}
  /\ UNCHANGED era

Pass == Forward /\ PassesNone /\ UNCHANGED <<agenda, ran, era>>

\* Time starts again; a restore runs again what ran since.
Drop == agenda' = {} /\ ran' = ran /\ era' = era + 1
PutBack ==
  /\ agenda' \in kept
  /\ ran' = ran \ {e.work : e \in agenda'}
  /\ manual => \A e \in agenda' : now' <= e.due
  /\ era' = era + 1

Init ==
  /\ manual \in BOOLEAN /\ now \in Nat
  /\ agenda = {} /\ ran = {} /\ kept = {} /\ era = 0

Next ==
  /\ manual' = manual
  /\ now' \in Nat
  /\ kept' \subseteq kept \union {agenda}
  /\ \/ \E e \in agenda' \ agenda : Put(e)
     \/ \E e \in agenda : Run(e)
     \/ Pass
     \/ Drop
     \/ PutBack

Spec == Init /\ [][Next]_vars
=============================================================================
