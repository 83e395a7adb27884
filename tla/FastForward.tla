----------------------------- MODULE FastForward -----------------------------
(***************************************************************************)
(* The fast-forward loop of sim_main: before the timed simulation every    *)
(* program runs for a number of instructions, one in a round, and may      *)
(* fork, wait, select, sleep and exit on the way.                          *)
(*                                                                         *)
(* A context counts down in fastfwd_left.  An instruction is what the loop *)
(* can tell of it: which of these calls it makes, if any.                  *)
(***************************************************************************)
EXTENDS Integers, Sequences, FiniteSets

CONSTANTS
    Calls,              \* the calls that programs make
    MaxContexts,        \* contexts there may ever be (a bound)
    SelectTime,         \* next_check of a select that found nothing
    SleepTime           \* what usleep_thread sets, in instructions

ASSUME FastForwardAssumption ==
    /\ Calls \subseteq {"fork", "wait", "select", "sleep", "exit"}
    /\ MaxContexts \in Nat /\ SelectTime \in Nat \ {0} /\ SleepTime \in Nat \ {0}

VARIABLES
    contexts,           \* the contexts, in the order of their numbers
    known,              \* start_contexts: those the loop has taken up
    left,               \* contexts_left
    at,                 \* position in contexts_left; 0 between two rounds
    room                \* contexts that the cores can still take

ffVars == <<contexts, known, left, at, room>>

\* slept is a history variable: the context has been asleep.
NewContext(count, enters) ==
    [left |-> count, alive |-> TRUE, enters |-> enters, waitsFor |-> 0,
     check |-> 0, sleep |-> 0, slept |-> FALSE, parent |-> 0]

\* Below zero a count does not come back to zero: one value stands for all.
Less(count) == IF count <= 0 THEN -1 ELSE count - 1
CountDown(c) == [c EXCEPT !.left = Less(@)]

(***************************************************************************)
(* continue_fastfwd takes contexts that are done off the front of the      *)
(* list, up to the first that has to go on.                                *)
(***************************************************************************)
GoesOn(i) == contexts[i].left # 0 /\ contexts[i].alive
Remaining ==
    LET going == {k \in DOMAIN left : GoesOn(left[k])} IN
    IF going = {} THEN <<>>
    ELSE SubSeq(left, CHOOSE k \in going : \A j \in going : k <= j, Len(left))

StartRound == /\ at = 0 /\ Remaining # <<>>
              /\ left' = Remaining
              /\ at' = 1
              /\ UNCHANGED <<contexts, known, room>>

(***************************************************************************)
(* The visit to a context.                                                 *)
(***************************************************************************)
Visited == left[at]
Visit(call) == at # 0 /\ call \in Calls \cup {"none"}

\* After the last of the list, the contexts forked in the round join it.
Arrived == known + 1 .. Len(contexts')
NextVisit ==
    IF at < Len(left)
    THEN at' = at + 1 /\ UNCHANGED <<left, known>>
    ELSE /\ at' = 0
         /\ left' = left \o [k \in 1..Cardinality(Arrived) |-> known + k]
         /\ known' = Len(contexts')

StillWaits(c) == c.waitsFor # 0 /\ contexts[c.waitsFor].alive
StillSelects(c) == c.check > 1

\* Seeded fault: a context that waits does not count.
Pending_NotCounted(c) == [c EXCEPT !.check = IF StillWaits(c) THEN @ ELSE @ - 1]
\* A context whose interrupt lasts only counts down.
Pending(c) ==
    CountDown([c EXCEPT !.enters = FALSE, !.check = IF StillWaits(c) THEN @ ELSE @ - 1])
StayPending ==
    /\ Visit("none")
    /\ LET c == contexts[Visited] IN
       /\ StillWaits(c) \/ StillSelects(c)
       /\ contexts' = [contexts EXCEPT ![Visited] = Pending(c)]
    /\ NextVisit /\ UNCHANGED room

\* A program under the dynamic loader is taken to its entry point first,
\* without counting; the loader's own calls are left out.
Ready(c) == ~StillWaits(c) /\ ~StillSelects(c)
Settled(c) == [c EXCEPT !.enters = FALSE, !.waitsFor = 0, !.check = 0]

\* Seeded fault: nothing ends a sleep.
Rest_Sleeps(c) == Settled(c)
Rest(c) == [Settled(c) EXCEPT !.sleep = @ - 1]

Asleep ==
    /\ Visit("none")
    /\ LET c == contexts[Visited] IN
       /\ Ready(c) /\ c.sleep > 0
       /\ contexts' = [contexts EXCEPT ![Visited] = Rest(c)]
    /\ NextVisit /\ UNCHANGED room

\* ff_context: an instruction, and its count.  What follows an exit, which the
\* loop goes on executing, makes no calls.
Executes(call) == /\ Visit(call)
                  /\ Ready(contexts[Visited]) /\ contexts[Visited].sleep = 0
                  /\ call # "none" => contexts[Visited].alive
Executed(c) == CountDown(Settled(c))
Update(c) == contexts' = [contexts EXCEPT ![Visited] = c]

Plain == /\ Executes("none")
         /\ Update(Executed(contexts[Visited]))
         /\ NextVisit /\ UNCHANGED room

\* The child has what its parent had left before this instruction, and runs
\* from the next round on.
Child(p) == [Settled(contexts[p]) EXCEPT !.parent = p, !.slept = FALSE]
Fork == /\ Executes("fork") /\ room > 0 /\ Len(contexts) < MaxContexts
        /\ contexts' = Append([contexts EXCEPT ![Visited] = Executed(@)], Child(Visited))
        /\ room' = room - 1
        /\ NextVisit

\* A wait4 or a select that has to wait runs again when its interrupt ends.
Wait == /\ Executes("wait")
        /\ \E child \in DOMAIN contexts :
               /\ contexts[child].parent = Visited /\ contexts[child].alive
               /\ Update([Executed(contexts[Visited]) EXCEPT !.waitsFor = child])
        /\ NextVisit /\ UNCHANGED room

Select == /\ Executes("select")
          /\ Update([Executed(contexts[Visited]) EXCEPT !.check = SelectTime])
          /\ NextVisit /\ UNCHANGED room

Sleep == /\ Executes("sleep")
         /\ Update([Executed(contexts[Visited]) EXCEPT !.sleep = SleepTime, !.slept = TRUE])
         /\ NextVisit /\ UNCHANGED room

Exit == /\ Executes("exit")
        /\ Update([Executed(contexts[Visited]) EXCEPT !.alive = FALSE])
        /\ room' = room + 1
        /\ NextVisit

FFNext == StartRound \/ StayPending \/ Asleep \/ Plain \/ Fork \/ Wait \/ Select \/ Sleep \/ Exit
FFDone == at = 0 /\ Remaining = <<>>
=============================================================================
