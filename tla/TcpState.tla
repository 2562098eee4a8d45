------------------------------ MODULE TcpState ------------------------------
(***************************************************************************)
(* State.tick of tcpip/src/tcp/state.ml: the state machine of one TCP      *)
(* connection.  A state is its name and the number it carries: the         *)
(* sequence number of our SYN or FIN, or the count of ACKs of Fin_wait_2.  *)
(***************************************************************************)
EXTENDS Integers

StateNames == {"Closed", "Listen", "Syn_rcvd", "Syn_sent", "Established", "Close_wait",
               "Last_ack", "Fin_wait_1", "Fin_wait_2", "Closing", "Time_wait", "Reset"}

State == [name : StateNames, n : Int]

St(name) == [name |-> name, n |-> 0]

\* An action, and one that carries a sequence number.
Act(name)       == [name |-> name, n |-> 0]
ActSeq(name, a) == [name |-> name, n |-> a]

\* The moves that depend on the names alone.
Moves ==
    {<<"Closed", "Passive_open", "Listen">>,   <<"Closed", "Send_syn", "Syn_sent">>,
     <<"Listen", "Send_synack", "Syn_rcvd">>,  <<"Syn_rcvd", "Recv_rst", "Closed">>,
     <<"Established", "Send_fin", "Fin_wait_1">>, <<"Established", "Recv_fin", "Close_wait">>,
     <<"Close_wait", "Send_fin", "Last_ack">>, <<"Fin_wait_1", "Recv_fin", "Closing">>,
     <<"Fin_wait_2", "Recv_fin", "Time_wait">>}
    \cup {<<s, "Timeout", "Closed">> : s \in {"Syn_rcvd", "Syn_sent", "Established", "Fin_wait_1",
                                             "Closing", "Time_wait", "Close_wait", "Last_ack"}}
    \cup {<<s, "Recv_rst", "Reset">> : s \in {"Established", "Fin_wait_1", "Fin_wait_2",
                                             "Closing", "Close_wait", "Last_ack"}}

\* Those that want the number after the one the state carries (diffone).
AckMoves ==
    {<<"Syn_sent", "Recv_synack", "Established">>, <<"Syn_rcvd", "Recv_ack", "Established">>,
     <<"Fin_wait_1", "Recv_ack", "Fin_wait_2">>, <<"Closing", "Recv_ack", "Time_wait">>,
     <<"Last_ack", "Recv_ack", "Closed">>}

\* Mutant: any ACK will do.
MovesOfAny(s, i) == Moves \cup AckMoves

MovesOf(s, i) == Moves \cup (IF i.n = s.n + 1 THEN AckMoves ELSE {})

\* The number the next state carries.
Carried(s, i, name) ==
    CASE name \in {"Syn_sent", "Syn_rcvd", "Fin_wait_1", "Last_ack"} -> i.n
      [] name = "Closing" -> s.n
      [] OTHER -> 0

Tick(s, i) ==
    IF s.name = "Fin_wait_2" /\ i.name = "Recv_ack" THEN [s EXCEPT !.n = @ + 1]
    ELSE IF \E name \in StateNames : <<s.name, i.name, name>> \in MovesOf(s, i)
    THEN LET name == CHOOSE name \in StateNames : <<s.name, i.name, name>> \in MovesOf(s, i)
         IN  [name |-> name, n |-> Carried(s, i, name)]
    ELSE s

\* tick calls on_close: on every way to Closed or Reset but one.
CallsOnClose(s, i) ==
    /\ Tick(s, i).name \in {"Closed", "Reset"} \ {s.name}
    /\ ~(s.name = "Syn_rcvd" /\ i.name = "Recv_rst")

\* tick starts finwait2timer, or timewait.
StartsFinwait2(s, i) == s.name = "Fin_wait_1" /\ Tick(s, i).name = "Fin_wait_2"
StartsTimewait(s, i) == s.name = "Fin_wait_2" /\ Tick(s, i).name = "Time_wait"
=============================================================================
