------------------------------ MODULE LwtMvar -------------------------------
(***************************************************************************)
(* Lwt_mvar (lwt/src/core/lwt_mvar.ml): a one-place mailbox between Lwt    *)
(* threads, with the threads blocked on it in arrival order.  Every mvar   *)
(* of a TCP connection has one reading thread, so the queue of readers is  *)
(* a boolean.                                                              *)
(*                                                                         *)
(*   contents   <<>> or <<v>>          (mvar_contents)                     *)
(*   writers    the values whose put has not returned, first come first    *)
(*   reading    the reading thread is blocked in take                      *)
(*   handed     <<>> or <<v>>: the value a take has returned and the       *)
(*              reading thread has not yet looked at.  wakeup_later may    *)
(*              defer the thread, so it looks at it in a step of its own.  *)
(***************************************************************************)
EXTENDS Naturals, Sequences

MvarRecord(V) == [contents : Seq(V), writers : Seq(V), reading : BOOLEAN, handed : Seq(V)]

\* m is an mvar of values in V, in a state put and take can leave it in.
IsMvar(m, V) ==
    /\ m \in MvarRecord(V)
    /\ Len(m.contents) <= 1
    /\ Len(m.handed) <= 1
    /\ m.contents = <<>> => m.writers = <<>>
    /\ m.reading => m.contents = <<>> /\ m.handed = <<>>

\* create_empty, once its reading thread has called take.
AwaitedMvar == [contents |-> <<>>, writers |-> <<>>, reading |-> TRUE, handed |-> <<>>]

\* A put on m would not return at once.
PutBlocks(m) == m.contents # <<>>

\* Mutant: put replaces a value that has not been taken.
PutReplaces(m, v) ==
    IF m.reading THEN [m EXCEPT !.reading = FALSE, !.handed = <<v>>]
    ELSE [m EXCEPT !.contents = <<v>>]

Put(m, v) ==
    IF PutBlocks(m)   THEN [m EXCEPT !.writers = Append(@, v)]
    ELSE IF m.reading THEN [m EXCEPT !.reading = FALSE, !.handed = <<v>>]
    ELSE [m EXCEPT !.contents = <<v>>]

\* The writer whose put returns when m is next taken from: <<>> or <<v>>.
Admitted(m) == IF m.contents = <<>> \/ m.writers = <<>> THEN <<>> ELSE <<Head(m.writers)>>

\* Mutant: take does not let the next writer in.
TakeEmpties(m) ==
    IF m.contents = <<>>
    THEN [m EXCEPT !.reading = TRUE]
    ELSE [m EXCEPT !.handed = m.contents, !.contents = <<>>]

\* take, called when the thread holds no earlier value.
Take(m) ==
    IF m.contents = <<>>
    THEN [m EXCEPT !.reading = TRUE]
    ELSE [m EXCEPT !.handed   = m.contents,
                   !.contents = Admitted(m),
                   !.writers  = IF @ = <<>> THEN <<>> ELSE Tail(@)]

\* The reading thread looks at the value it was handed.
Consume(m) == [m EXCEPT !.handed = <<>>]
=============================================================================
