----------------------------- MODULE MCNotices ------------------------------
(***************************************************************************)
(* Notices for TLC: either notices are sent and people change, or the      *)
(* lists that pages show are edited; the bell works in both.               *)
(***************************************************************************)
EXTENDS Notices

VARIABLE focus

vars == <<noticeVars, focus>>

Init == NoticesInit /\ focus \in {"notices", "pages"}

Next ==
    /\ UNCHANGED focus
    /\ \/ focus = "notices" /\ NoticeStep
       \/ focus = "pages" /\ PageStep
       \/ ClientStep

Spec == Init /\ [][Next]_vars /\ NoticesFairness

=============================================================================
