----------------------------- MODULE LwtNotify ------------------------------
(***************************************************************************)
(* The notifications of lwt/src/unix/lwt_unix_stubs.c: system threads put  *)
(* ids into a buffer and wake the thread that runs OCaml through an        *)
(* eventfd or a pipe, once for as many ids as come before it looks.        *)
(* notification_mutex orders them, and a step is what is done while it is  *)
(* held.  The receiver gives it up while it allocates the array for the    *)
(* ids it has counted.                                                     *)
(***************************************************************************)
EXTENDS Naturals, Sequences

CONSTANTS
    InitCount,  \* the buffer's first size: 4096 in the code
    Pipe        \* HAVE_EVENTFD is not defined: one byte in a pipe for each send

ASSUME NotifyAssumption ==
    /\ InitCount \in Nat \ {0}
    /\ Pipe \in BOOLEAN

VARIABLES
    notifications,       \* the ids below notification_index
    notification_count,  \* the size of the buffer
    fd                   \* eventfd's counter, or the bytes in the pipe

notifyVars == <<notifications, notification_count, fd>>

NotifyInit ==
    /\ notifications = <<>>
    /\ notification_count = InitCount
    /\ fd = 0

\* resize_notifications, which send runs when the buffer is full.
Resize(index) == IF index = notification_count THEN 2 * notification_count ELSE notification_count

\* lwt_unix_send_notification: only the first id in an empty buffer wakes the
\* receiver.  A signal handler's send never interrupts another send or a receive
\* on its own thread: they block all signals.
Send(id) ==
    /\ notifications' = Append(notifications, id)
    /\ IF notifications # <<>>
       THEN notification_count' = Resize(Len(notifications)) /\ UNCHANGED fd
       ELSE UNCHANGED notification_count /\ fd' = fd + 1

\* notification_recv: an eventfd is reset by a read, a pipe gives one byte.
Drained == IF Pipe THEN fd - 1 ELSE 0

\* lwt_unix_recv_notifications: handle_notifications calls it once fd is
\* readable.  n is what it counts before it gives up the mutex.
RecvBegin(n) ==
    /\ fd > 0
    /\ n = Len(notifications)
    /\ fd' = Drained
    /\ UNCHANGED <<notifications, notification_count>>

\* Ids came while it allocated: it counts again.
RecvAgain(n, m) ==
    /\ n # Len(notifications)
    /\ m = Len(notifications)
    /\ UNCHANGED notifyVars

\* Mutant: it does not look again, and takes the ids it counted at first.
RecvFirst(n) ==
    /\ notifications' = SubSeq(notifications, n + 1, Len(notifications))
    /\ UNCHANGED <<notification_count, fd>>

\* None came: it takes all.
RecvEnd(n) ==
    /\ n = Len(notifications)
    /\ notifications' = <<>>
    /\ UNCHANGED <<notification_count, fd>>

\* init_notification in the child of a fork: a new descriptor in place of the
\* old.  The buffer is as the parent left it.
ForkNotify ==
    /\ fd' = 0
    /\ UNCHANGED <<notifications, notification_count>>

=============================================================================
