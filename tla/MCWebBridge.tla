----------------------------- MODULE MCWebBridge -----------------------------
(* The pages of the runs of WebBridge.                                     *)
EXTENDS WebBridge

CONSTANTS p1, p2

OnePage == {p1}
TwoPages == {p1, p2}

(* QueueIsPublished and PageIsReleased (webapp/main.go 86-96), checked of  *)
(* the first page: neither Init nor an action nor the fairness tells one   *)
(* page from another, so that what holds of one holds of each.             *)
FirstQueueIsPublished == QueueIsPublished(p1)
FirstPageIsReleased == PageIsReleased(p1)
=============================================================================
