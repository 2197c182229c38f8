--------------------------- MODULE SbvWindowProps ---------------------------
(* Properties of SbvWindow. *)
EXTENDS SbvWindow

Count(holds) == IF holds THEN 1 ELSE 0

(* Who holds a reference on a connection: the window, a dialog, a connect  *)
(* task and (for Kerberos) the code that waits for it, and running tasks.  *)
Owners(c) ==
    Count(conn = c) + Count(dialog.pending = c)
    + Count(phase[c] = "connecting")
    + Count(phase[c] = "connecting" /\ dialog.pending # c)
    + lists[c] + saves[c] + Count(hints[c] # NoProfile)

(* A profile whose connections are all made with a click in the sidebar.   *)
FromSidebar(p) == p \in Kerberos \ Added

(* No callback order leaks a connection: one that nobody owns is freed.    *)
(* Nor is one made from the sidebar freed while it is owned: it has as     *)
(* many references as owners.  (The dialogs release theirs once too often: *)
(* WindowConnAlive.)                                                       *)
RefExact ==
    \A c \in Conn : /\ Owners(c) = 0 => ref[c] <= 0
                    /\ FromSidebar(bound[c]) => ref[c] = Owners(c)

(* sbv-password-dialog.h "On success, calls callback with a ready          *)
(* SbvConnection": the window's connection exists as long as the window    *)
(* keeps it.                                                               *)
WindowConnAlive == conn # NoConn => Alive(conn)

(* CHANGELOG 0.1.10: the status bar shows "the active connection at a      *)
(* glance: server (host:port), bound identity", and the id range of        *)
(* on_status_idmap_loaded ("Bail if the user has since disconnected /      *)
(* reconnected"): with a connection from the sidebar, whatever else was    *)
(* started before or meanwhile, all three are those of the profile that    *)
(* the window's connection is bound with.                                  *)
StatusDescribesConnection ==
    conn # NoConn /\ FromSidebar(bound[conn]) =>
        /\ status = [server |-> bound[conn], identity |-> bound[conn]]
        /\ idmap \in {NoProfile, bound[conn]}

(* A panel does not stay on its loading page (unless the program crashed); *)
(* and a dialog that waits for its connection attempt gets an answer and   *)
(* can be used or closed again (unless the window's connection was freed). *)
WindowReturns ==
    /\ []<>(panel.page # "loading" \/ crashed)
    /\ []<>(~dialog.busy \/ ~Runs)
=============================================================================
