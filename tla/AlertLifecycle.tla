--------------------------- MODULE AlertLifecycle ---------------------------
(***************************************************************************)
(* What the Alert Aggregate promises (spec.md sections 1, 3 and 4.4): an   *)
(* alert is created pending and moves along                               *)
(*     pending -> acknowledged -> investigating -> resolved               *)
(* where resolution may skip the investigation, and is reported to the    *)
(* NCC only from acknowledged, investigating or resolved.  Reported is    *)
(* final and a resolved alert is never re-opened.  Repeating a            *)
(* transition from the wrong state fails and changes nothing.             *)
(***************************************************************************)
VARIABLE lstatus

States == {"none", "pending", "acknowledged", "investigating", "resolved",
           "reported_ncc"}

Move(from, to) ==
    /\ lstatus \in from
    /\ lstatus' = to

LCreate        == Move({"none"}, "pending")
LAcknowledge   == Move({"pending"}, "acknowledged")
LInvestigate   == Move({"acknowledged"}, "investigating")
LResolve       == Move({"acknowledged", "investigating"}, "resolved")
LReportToNCC   == Move({"acknowledged", "investigating", "resolved"},
                       "reported_ncc")

LNext == LCreate \/ LAcknowledge \/ LInvestigate \/ LResolve \/ LReportToNCC

LSpec == lstatus = "none" /\ [][LNext]_lstatus
=============================================================================
