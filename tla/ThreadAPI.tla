----------------------------- MODULE ThreadAPI -----------------------------
(***************************************************************************)
(* What gtthread.h promises to a program: threads end once and with one    *)
(* value, a join reports it and nothing else, and a mutex has one holder,  *)
(* which is a thread that has not ended.  There is no queue, no signal and *)
(* no processor.                                                           *)
(***************************************************************************)
EXTENDS Integers

CONSTANTS Threads, Values, NoValue

VARIABLES
    created,    \* the threads 0..(created - 1) have been created
    value,      \* what a thread has ended with
    reports,    \* what joins have reported of whom
    holders     \* who has locked the mutex

vars == <<created, value, reports, holders>>

Init ==
    /\ created = 1
    /\ value = [t \in Threads |-> NoValue]
    /\ reports = {}
    /\ holders = {}

Alive(t) == t \in Threads /\ t < created /\ value[t] = NoValue

Create ==
    /\ created \in Threads
    /\ created' = created + 1
    /\ UNCHANGED <<value, reports, holders>>

\* A thread exits or is cancelled.  It may die with the mutex.
End(t) ==
    /\ Alive(t)
    /\ \E v \in Values : value' = [value EXCEPT ![t] = v]
    /\ UNCHANGED <<created, reports, holders>>

Report(t) ==
    /\ value[t] # NoValue
    /\ reports' = reports \cup {<<t, value[t]>>}
    /\ UNCHANGED <<created, value, holders>>

Acquire(t) ==
    /\ Alive(t)
    /\ holders = {}
    /\ holders' = {t}
    /\ UNCHANGED <<created, value, reports>>

Release(t) ==
    /\ Alive(t)
    /\ holders = {t}
    /\ holders' = {}
    /\ UNCHANGED <<created, value, reports>>

Next ==
    \/ Create
    \/ \E t \in Threads : End(t) \/ Report(t) \/ Acquire(t) \/ Release(t)

Spec == Init /\ [][Next]_vars
=============================================================================
