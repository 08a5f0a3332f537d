----------------------------- MODULE MCDashboard -----------------------------
EXTENDS Dashboard

Korean == {{"found", "korea"}, {"found"}}

\* Two of them of the same time.
ThreeEvents == <<1, 2, 2>>
=============================================================================
