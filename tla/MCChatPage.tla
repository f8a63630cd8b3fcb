----------------------------- MODULE MCChatPage -----------------------------
(* Small instances of ChatPage for TLC. *)
EXTENDS ChatPage, TLC

CONSTANTS f1, f2

Viewer(started) ==
  [started |-> started, stale |-> {}, linked |-> FALSE, sends |-> 0,
   reports |-> 0, transfers |-> 0, faults |-> 0]

Known == Viewer({f1, f2})
NewFriend == Viewer({f1})

\* transfers from both kinds of wallet, and to a stale address; messages and
\* reports while a thread is being opened; reports of a quiet page; faults
MCViewers ==
  {[Known EXCEPT !.linked = linked, !.transfers = 1] : linked \in BOOLEAN}
  \cup {[NewFriend EXCEPT !.linked = TRUE, !.stale = {f2}, !.transfers = 1],
        [NewFriend EXCEPT !.sends = 1, !.faults = 1],
        [Known EXCEPT !.sends = 2],
        [Known EXCEPT !.reports = 2, !.faults = 1],
        [NewFriend EXCEPT !.reports = 1, !.transfers = 1, !.faults = 1]}

=============================================================================
